------------------------ MODULE ConversationDesk_proofs ------------------------
(***************************************************************************)
(* For any number of messages, deliveries and conversations: the variables *)
(* of ConversationDesk keep their types, what the customer got is in the   *)
(* log of a conversation, and no row waits without the flag if the panel   *)
(* does not write the status.  When the deliveries come one at a time, a   *)
(* message is stored once and the newest reply is the one that goes out.   *)
(***************************************************************************)
EXTENDS ConversationDesk, FiniteSetTheorems, TLAPS

\* Every entry of the row r is still in the row q.
Keeps(r, q) == \A i \in DOMAIN r.log : \E j \in DOMAIN q.log : q.log[j] = r.log[i]

\* If r, when it waits, has the flag, so has q.
Flags(r, q) == (r.status = "WAITING" => r.flag) => (q.status = "WAITING" => q.flag)

\* What every step does to a row, but a status written from the panel
Grows(r, q) == q \in Conv /\ Keeps(r, q) /\ ("status" \in Panel \/ Flags(r, q))

----------------------------------------------------------------------------
(* The operators on rows *)

LEMMA SameRow ==
    ASSUME NEW r \in Conv
    PROVE  Grows(r, r)
BY DEF Grows, Keeps, Flags

LEMMA SameLog ==
    ASSUME NEW r, NEW q, q.log = r.log
    PROVE  Keeps(r, q)
BY DEF Keeps

LEMMA OpenedRow ==
    ASSUME NEW r \in Conv
    PROVE  Grows(r, Opened(r))
<1>1. /\ Opened(r) \in Conv
      /\ Opened(r).log = r.log
      /\ Opened(r).status = "ACTIVE"
  BY Booleans DEF Opened, Conv
<1> QED
  BY <1>1, SameLog DEF Grows, Flags

LEMMA RaisedRow ==
    ASSUME NEW r \in Conv
    PROVE  Grows(r, Raised(r))
<1>1. /\ Raised(r) \in Conv
      /\ Raised(r).log = r.log
      /\ Raised(r).flag
  BY DEF Raised, Conv
<1> QED
  BY <1>1, SameLog DEF Grows, Flags

LEMMA WaitingRow ==
    ASSUME NEW r \in Conv, NEW a \in BOOLEAN
    PROVE  Grows(r, Waiting(r, a))
<1>1. /\ Waiting(r, a) \in Conv
      /\ Waiting(r, a).log = r.log
      /\ Waiting(r, a).flag
  BY DEF Waiting, Conv
<1> QED
  BY <1>1, SameLog DEF Grows, Flags

LEMMA ClosedRow ==
    ASSUME NEW r \in Conv
    PROVE  Grows(r, Closed(r)) /\ Closed(r).log = r.log
<1>1. /\ Closed(r) \in Conv
      /\ Closed(r).log = r.log
      /\ Closed(r).status = "CLOSED"
  BY DEF Closed, Conv
<1> QED
  BY <1>1, SameLog DEF Grows, Flags

LEMMA AttendedRow ==
    ASSUME NEW r \in Conv
    PROVE  Grows(r, Attended(r))
<1>1. /\ Attended(r) \in Conv
      /\ Attended(r).log = r.log
      /\ Attended(r).status = "ACTIVE"
  BY DEF Attended, Conv
<1> QED
  BY <1>1, SameLog DEF Grows, Flags

LEMMA ClaimedRow ==
    ASSUME NEW r \in Conv
    PROVE  Grows(r, Claimed(r))
<1>1. /\ Claimed(r) \in Conv
      /\ Claimed(r).log = r.log
      /\ Claimed(r).status = "ACTIVE"
  BY DEF Claimed, Attended, Conv
<1> QED
  BY <1>1, SameLog DEF Grows, Flags

LEMMA WithRow ==
    ASSUME NEW r \in Conv, NEW by \in Business \cup {"customer"}, NEW m \in Msgs \cup {None}
    PROVE  /\ Grows(r, With(r, by, m))
           /\ \E i \in DOMAIN With(r, by, m).log :
                 With(r, by, m).log[i] = [by |-> by, of |-> m]
<1> DEFINE e == [by |-> by, of |-> m]
           team == by \in {"staff", "phone"}
<1>1. e \in Entry
  BY DEF Entry
<1>2. Append(r.log, e) \in Seq(Entry) /\ r.log \in Seq(Entry)
  BY <1>1 DEF Conv
<1>3. team \in BOOLEAN
  OBVIOUS
<1> HIDE DEF e, team
<1>4. With(r, by, m) = [r EXCEPT !.log = Append(r.log, e), !.answered = r.answered \/ team,
                                 !.recent = r.recent \/ team]
  BY Zenon DEF With, e, team
<1>5. /\ (r.answered \/ team) \in BOOLEAN
      /\ (r.recent \/ team) \in BOOLEAN
  BY <1>3 DEF Conv
<1>6. With(r, by, m) \in Conv
  BY <1>2, <1>4, <1>5, Zenon DEF Conv
<1>7. /\ With(r, by, m).log = Append(r.log, e)
      /\ With(r, by, m).flag = r.flag
      /\ With(r, by, m).status = r.status
  BY <1>4, Zenon DEF Conv
<1>8. Keeps(r, With(r, by, m))
  BY <1>2, <1>7, <1>1 DEF Keeps
<1>9. \E i \in DOMAIN With(r, by, m).log : With(r, by, m).log[i] = e
  BY <1>1, <1>2, <1>7
<1> QED
  BY <1>6, <1>7, <1>8, <1>9 DEF Grows, Flags, e

LEMMA GrowsTwice ==
    ASSUME NEW r, NEW q, NEW p, Grows(r, q), Grows(q, p)
    PROVE  Grows(r, p)
<1>1. Keeps(r, p)
  BY DEF Grows, Keeps
<1> QED
  BY <1>1 DEF Grows, Flags

\* The three fields the panel and the debounce window write alone
LEMMA FieldRow ==
    ASSUME NEW r \in Conv
    PROVE  /\ Grows(r, [r EXCEPT !.recent = FALSE])
           /\ Grows(r, [r EXCEPT !.paused = ~@])
           /\ Grows(r, [r EXCEPT !.assigned = TRUE, !.status = "ACTIVE"])
           /\ Grows(r, [r EXCEPT !.status = "ACTIVE"])
           /\ \A status \in {"ACTIVE", "WAITING", "CLOSED"} :
                 "status" \in Panel => Grows(r, [r EXCEPT !.status = status])
<1>1. Grows(r, [r EXCEPT !.recent = FALSE])
  <2> DEFINE q == [r EXCEPT !.recent = FALSE]
  <2>1. q \in Conv /\ q.log = r.log /\ q.status = r.status /\ q.flag = r.flag
    BY DEF Conv
  <2> QED
    BY <2>1, SameLog DEF Grows, Flags
<1>2. Grows(r, [r EXCEPT !.paused = ~@])
  <2> DEFINE q == [r EXCEPT !.paused = ~@]
  <2>1. q \in Conv /\ q.log = r.log /\ q.status = r.status /\ q.flag = r.flag
    BY DEF Conv
  <2> QED
    BY <2>1, SameLog DEF Grows, Flags
<1>3. Grows(r, [r EXCEPT !.assigned = TRUE, !.status = "ACTIVE"])
  <2> DEFINE q == [r EXCEPT !.assigned = TRUE, !.status = "ACTIVE"]
  <2>1. q \in Conv /\ q.log = r.log /\ q.status = "ACTIVE"
    BY DEF Conv
  <2> QED
    BY <2>1, SameLog DEF Grows, Flags
<1>4. ASSUME NEW status \in {"ACTIVE", "WAITING", "CLOSED"}, "status" \in Panel
      PROVE  Grows(r, [r EXCEPT !.status = status])
  <2> DEFINE q == [r EXCEPT !.status = status]
  <2>1. q \in Conv /\ q.log = r.log
    BY DEF Conv
  <2> QED
    BY <1>4, <2>1, SameLog DEF Grows
<1>5. Grows(r, [r EXCEPT !.status = "ACTIVE"])
  <2> DEFINE q == [r EXCEPT !.status = "ACTIVE"]
  <2>1. q \in Conv /\ q.log = r.log /\ q.status = "ACTIVE"
    BY DEF Conv
  <2> QED
    BY <2>1, SameLog DEF Grows, Flags
<1> QED
  BY <1>1, <1>2, <1>3, <1>4, <1>5

----------------------------------------------------------------------------
(* The rows *)

RowsOK == conv \in [Convs -> Conv]
RowsGrow == conv' \in [Convs -> Conv] /\ \A c \in Convs : Grows(conv[c], conv'[c])

LEMMA SameRows ==
    ASSUME RowsOK, UNCHANGED conv
    PROVE  RowsGrow
BY SameRow DEF RowsOK, RowsGrow

LEMMA PutGrows ==
    ASSUME RowsOK, NEW c, NEW r, c \in Convs => Grows(conv[c], r), Put(c, r)
    PROVE  RowsGrow
<1>1. \A x \in Convs : conv'[x] = IF x = c THEN r ELSE conv[x]
  BY DEF RowsOK, Put
<1>2. conv' \in [Convs -> Conv]
  BY DEF RowsOK, Put, Grows
<1>3. \A x \in Convs : Grows(conv[x], conv[x])
  BY SameRow DEF RowsOK
<1> QED
  BY <1>1, <1>2, <1>3 DEF RowsGrow

\* A reply of the AI, or an entry of the customer
LEMMA PutWith ==
    ASSUME RowsOK, NEW c, NEW by \in Business \cup {"customer"}, NEW m \in Msgs \cup {None},
           Put(c, With(conv[c], by, m))
    PROVE  RowsGrow
<1>1. c \in Convs => Grows(conv[c], With(conv[c], by, m))
  BY WithRow DEF RowsOK
<1> QED
  BY <1>1, PutGrows

LEMMA PhoneGrows ==
    ASSUME RowsOK, NEW m \in Msgs \cup {None}, RecordPhone(m)
    PROVE  RowsGrow
<1>1. PICK c \in Convs :
          Put(c, Attended(With(IF c \in Open THEN conv[c] ELSE Opened(conv[c]), "phone", m)))
  BY DEF RecordPhone, Open, Unused
<1> DEFINE r == IF c \in Open THEN conv[c] ELSE Opened(conv[c])
<1>2. conv[c] \in Conv
  BY DEF RowsOK
<1>3. Grows(conv[c], r) /\ r \in Conv
  BY <1>2, OpenedRow, SameRow DEF Grows
<1>4. Grows(r, With(r, "phone", m)) /\ With(r, "phone", m) \in Conv
  BY <1>3, WithRow DEF Business, Grows
<1>5. Grows(With(r, "phone", m), Attended(With(r, "phone", m)))
  BY <1>4, AttendedRow
<1> HIDE DEF r
<1>6. Grows(conv[c], Attended(With(r, "phone", m)))
  BY <1>3, <1>4, <1>5, GrowsTwice
<1> QED
  BY <1>1, <1>6, PutGrows DEF r

Typed ==
    /\ RowsOK
    /\ esc \in [Escalations -> Escalation]
    /\ pending \in Msgs \cup {None}
    /\ echo \subseteq Msgs
    /\ desk \in Convs \cup {None}

LEMMA InboundRows ==
    ASSUME Typed, NEW d \in Deliveries, Arrives(d) \/ Handles(d)
    PROVE  RowsGrow
<1>1. RowsOK /\ MsgOf(d) \in Msgs \cup {None}
  BY DEF Typed, MsgOf, Deliveries
<1>2. CASE CreateConversation(d)
  <2>1. PICK c \in Convs : Put(c, Opened(conv[c]))
    BY <1>2 DEF CreateConversation, Unused
  <2>2. Grows(conv[c], Opened(conv[c]))
    BY <1>1, OpenedRow DEF RowsOK
  <2> QED
    BY <1>1, <2>1, <2>2, PutGrows
<1>3. CASE SaveInbound(d)
  <2> DEFINE c == h[d].conv
             r == With(conv[c], "customer", MsgOf(d))
  <2>1. ASSUME c \in Convs PROVE Grows(conv[c], r) /\ Grows(conv[c], Raised(r))
    <3>1. conv[c] \in Conv
      BY <1>1, <2>1 DEF RowsOK
    <3>2. Grows(conv[c], r) /\ r \in Conv
      BY <1>1, <3>1, WithRow DEF Grows
    <3>3. Grows(r, Raised(r))
      BY <3>2, RaisedRow
    <3> QED
      BY <3>2, <3>3, GrowsTwice
  <2>2. Put(c, IF KindOf(d) = "media" THEN Raised(r) ELSE r)
    BY <1>3 DEF SaveInbound
  <2> QED
    BY <1>1, <2>1, <2>2, PutGrows
<1>4. CASE ClosesOnAck(d)
  <2> DEFINE c == h[d].conv
             r == With(conv[c], "ai", MsgOf(d))
  <2>1. ASSUME c \in Convs PROVE Grows(conv[c], Closed(r))
    <3>1. conv[c] \in Conv
      BY <1>1, <2>1 DEF RowsOK
    <3>2. Grows(conv[c], r) /\ r \in Conv
      BY <1>1, <3>1, WithRow DEF Grows, Business
    <3>3. Grows(r, Closed(r))
      BY <3>2, ClosedRow
    <3> QED
      BY <3>2, <3>3, GrowsTwice
  <2>2. Put(c, Closed(r))
    BY <1>4 DEF ClosesOnAck
  <2> QED
    BY <1>1, <2>1, <2>2, PutGrows
<1>5. CASE PausedReply(d) \/ Reply(d)
  <2>1. Put(h[d].conv, With(conv[h[d].conv], "ai", MsgOf(d)))
    BY <1>5 DEF PausedReply, Reply
  <2> QED
    BY <1>1, <2>1, PutWith DEF Business
<1>6. CASE \/ Arrives(d) \/ FindConversation(d) \/ ChecksAck(d) \/ KeepsOpen(d)
           \/ Gate(d) \/ Escalated(d) \/ ClaudeFails(d)
  <2>1. UNCHANGED conv
    BY <1>6 DEF Arrives, Writes, Redelivers, FindConversation, ChecksAck, KeepsOpen, Gate,
                Escalated, ClaudeFails
  <2> QED
    BY <1>1, <2>1, SameRows
<1> QED
  BY <1>2, <1>3, <1>4, <1>5, <1>6 DEF Handles

LEMMA StepRows ==
    ASSUME Typed, [Next]_vars
    PROVE  RowsGrow
<1>1. RowsOK
  BY DEF Typed
<1>2. CASE Inbound
  BY <1>2, InboundRows DEF Inbound
<1>3. CASE Handoff
  <2>1. PICK x \in Escalations : EscalateReads(x) \/ EscalateWrites(x)
    BY <1>3 DEF Handoff
  <2>2. CASE EscalateReads(x)
    BY <1>1, <2>2, SameRows DEF EscalateReads
  <2>3. CASE EscalateWrites(x)
    <3>1. PICK found \in BOOLEAN :
              Put(esc[x].conv, Waiting(conv[esc[x].conv], esc[x].assigned \/ found))
      BY <2>3 DEF EscalateWrites
    <3>2. esc[x].assigned \in BOOLEAN
      BY DEF Typed, Escalation
    <3>3. esc[x].assigned \/ found \in BOOLEAN
      BY <3>2
    <3>4. esc[x].conv \in Convs =>
              Grows(conv[esc[x].conv], Waiting(conv[esc[x].conv], esc[x].assigned \/ found))
      BY <1>1, <3>3, WaitingRow DEF RowsOK
    <3> QED
      BY <1>1, <3>1, <3>4, PutGrows
  <2> QED
    BY <2>1, <2>2, <2>3
<1>4. CASE Outbound
  <2>1. CASE SendFires \/ SendFails
    BY <1>1, <2>1, SameRows DEF SendFires, SendFails
  <2>2. ASSUME NEW m \in Msgs, EchoArrives(m) PROVE RowsGrow
    BY <1>1, <2>2, PhoneGrows DEF EchoArrives
  <2> QED
    BY <1>4, <2>1, <2>2 DEF Outbound
<1>5. CASE Operators
  <2>1. CASE PhoneReplies
    BY <1>1, <2>1, PhoneGrows DEF PhoneReplies
  <2>2. CASE StaffUpdates
    <3>1. Put(desk, Claimed(conv[desk]))
      BY <2>2 DEF StaffUpdates
    <3>2. desk \in Convs => Grows(conv[desk], Claimed(conv[desk]))
      BY <1>1, ClaimedRow DEF RowsOK
    <3> QED
      BY <1>1, <3>1, <3>2, PutGrows
  <2>3. ASSUME NEW c \in Convs, StaffWrites(c) PROVE RowsGrow
    BY <1>1, <2>3, PutWith DEF StaffWrites, Business
  <2>4. ASSUME NEW c \in Convs, SetPaused(c) \/ Assign(c) \/ WindowPasses(c)
                                \/ \E s \in {"ACTIVE", "WAITING", "CLOSED"} : UpdateStatus(c, s)
        PROVE  RowsGrow
    <3>1. conv[c] \in Conv
      BY <1>1 DEF RowsOK
    <3>2. PICK r : Put(c, r) /\ Grows(conv[c], r)
      <4>1. CASE SetPaused(c)
        BY <4>1, <3>1, FieldRow DEF SetPaused
      <4>2. CASE Assign(c)
        BY <4>2, <3>1, FieldRow DEF Assign
      <4>3. CASE WindowPasses(c)
        BY <4>3, <3>1, FieldRow DEF WindowPasses
      <4>4. ASSUME NEW s \in {"ACTIVE", "WAITING", "CLOSED"}, UpdateStatus(c, s)
            PROVE  \E r : Put(c, r) /\ Grows(conv[c], r)
        <5>1. Grows(conv[c], [conv[c] EXCEPT !.status = s])
          BY <4>4, <3>1, FieldRow DEF UpdateStatus
        <5> QED
          BY <4>4, <5>1, Zenon DEF UpdateStatus
      <4> QED
        BY <2>4, <4>1, <4>2, <4>3, <4>4
    <3> QED
      BY <1>1, <3>2, PutGrows
  <2> QED
    BY <1>5, <2>1, <2>2, <2>3, <2>4 DEF Operators
<1>6. CASE Reconcile
  <2>1. CASE SweepReads \/ SweepFindsAcks
    BY <1>1, <2>1, SameRows DEF SweepReads, SweepFindsAcks
  <2>2. CASE SweepClears
    BY <1>1, <2>2, AttendedRow, SameLog DEF SweepClears, RowsGrow, RowsOK, Grows, Flags
  <2>3. CASE SweepAligns
    <3> DEFINE new(c) == IF conv[c].status = "WAITING" /\ ~conv[c].flag
                         THEN [conv[c] EXCEPT !.status = "ACTIVE"] ELSE conv[c]
    <3>1. \A c \in Convs : Grows(conv[c], new(c)) /\ new(c) \in Conv
      BY <1>1, FieldRow, SameRow DEF RowsOK, Grows
    <3>2. conv' = [c \in Convs |-> new(c)]
      BY <2>3 DEF SweepAligns
    <3> HIDE DEF new
    <3> QED
      BY <3>1, <3>2 DEF RowsGrow
  <2>4. CASE SweepCloses
    BY <1>1, <2>4, ClosedRow, SameLog DEF SweepCloses, RowsGrow, RowsOK, Grows, Flags
  <2> QED
    BY <1>6, <2>1, <2>2, <2>3, <2>4 DEF Reconcile
<1>7. CASE UNCHANGED vars
  BY <1>1, <1>7, SameRows DEF vars
<1> QED
  BY <1>2, <1>3, <1>4, <1>5, <1>6, <1>7 DEF Next

----------------------------------------------------------------------------
(* The handlers *)

\* Where a handler has its conversation
Placed == {"save", "ack", "verdict", "gate", "wait", "canned", "claude"}

HandlersOK ==
    /\ h \in [Deliveries -> Handler]
    /\ \A d \in Deliveries : h[d].at \in Placed => h[d].conv \in Convs

LEMMA GotoOK ==
    ASSUME HandlersOK, NEW d \in Deliveries, NEW point \in Placed \cup {"find", "create", "done"},
           point \in Placed => h[d].conv \in Convs,
           Goto(d, point)
    PROVE  HandlersOK'
<1> DEFINE new == IF point = "done" THEN Finished ELSE [h[d] EXCEPT !.at = point]
<1>1. h[d] \in Handler
  BY DEF HandlersOK
<1>2. [h[d] EXCEPT !.at = point] \in Handler
  BY <1>1, Zenon DEF Handler, Placed
<1>3. Finished \in Handler
  BY DEF Finished, NoHandler, Handler
<1>4. /\ [h[d] EXCEPT !.at = point].at = point
      /\ [h[d] EXCEPT !.at = point].conv = h[d].conv
  BY <1>1, Zenon DEF Handler
<1>5. Finished.at = "done"
  BY DEF Finished, NoHandler
<1>6. new \in Handler /\ (new.at \in Placed => new.conv \in Convs)
  BY <1>2, <1>3, <1>4, <1>5 DEF Placed
<1>7. h' = [h EXCEPT ![d] = new]
  BY DEF Goto
<1> HIDE DEF new
<1> QED
  BY <1>6, <1>7 DEF HandlersOK

LEMMA EntersOK ==
    ASSUME HandlersOK, NEW d \in Deliveries, NEW c \in Convs, NEW p \in BOOLEAN, Enters(d, c, p)
    PROVE  HandlersOK'
<1> DEFINE new == [h[d] EXCEPT !.at = "save", !.conv = c, !.ours = p]
<1>1. h[d] \in Handler
  BY DEF HandlersOK
<1>2. new \in Handler /\ new.conv = c
  BY <1>1 DEF Handler
<1>3. h' = [h EXCEPT ![d] = new]
  BY DEF Enters
<1> HIDE DEF new
<1> QED
  BY <1>2, <1>3 DEF HandlersOK

LEMMA HandlesOK ==
    ASSUME HandlersOK, NEW d \in Deliveries, Arrives(d) \/ Handles(d)
    PROVE  HandlersOK'
<1>1. CASE Arrives(d)
  <2>1. PICK point \in {"find", "done"} : Goto(d, point)
    BY <1>1 DEF Arrives, Writes, Redelivers
  <2> QED
    BY <2>1, GotoOK DEF Placed
<1>2. CASE FindConversation(d)
  <2>1. CASE Goto(d, "create")
    BY <2>1, GotoOK DEF Placed
  <2>2. ASSUME NEW c \in Open, NEW p \in OursFirst(d, Convs \ Unused), Enters(d, c, p)
        PROVE  HandlersOK'
    <3>1. c \in Convs /\ p \in BOOLEAN
      BY DEF Open, OursFirst
    <3> QED
      BY <2>2, <3>1, EntersOK
  <2> QED
    BY <1>2, <2>1, <2>2 DEF FindConversation
<1>3. CASE CreateConversation(d)
  <2>1. PICK c \in Unused : \E p \in OursFirst(d, {c} \cup (Convs \ Unused)) : Enters(d, c, p)
    BY <1>3 DEF CreateConversation
  <2>2. PICK p \in BOOLEAN : Enters(d, c, p)
    BY <2>1 DEF OursFirst
  <2>3. c \in Convs
    BY DEF Unused
  <2> QED
    BY <2>2, <2>3, EntersOK
<1>4. CASE Gate(d)
  <2> DEFINE new == [h[d] EXCEPT !.at = "wait", !.next = After(d, conv[h[d].conv].paused)]
  <2>1. h[d] \in Handler /\ h[d].conv \in Convs
    BY <1>4 DEF HandlersOK, Gate, At, Placed
  <2>2. After(d, conv[h[d].conv].paused) \in {"done", "canned", "claude"}
    BY DEF After
  <2>3. new \in Handler /\ new.conv = h[d].conv
    BY <2>1, <2>2, Zenon DEF Handler
  <2>4. h' = [h EXCEPT ![d] = new]
    BY <1>4 DEF Gate
  <2> HIDE DEF new
  <2> QED
    BY <2>1, <2>3, <2>4 DEF HandlersOK
<1>5. CASE \/ SaveInbound(d) \/ ChecksAck(d) \/ ClosesOnAck(d) \/ KeepsOpen(d)
           \/ PausedReply(d) \/ Escalated(d) \/ Reply(d) \/ ClaudeFails(d)
  <2>1. h[d] \in Handler /\ h[d].conv \in Convs
    BY <1>5 DEF HandlersOK, Placed, At, SaveInbound, ChecksAck, ClosesOnAck, KeepsOpen,
                PausedReply, Escalated, Reply, ClaudeFails
  <2>2. PICK point \in {"ack", "verdict", "gate", "canned", "claude", "done"} : Goto(d, point)
    <3>1. h[d].next \in {"done", "canned", "claude"}
      BY <2>1 DEF Handler
    <3>2. CASE SaveInbound(d)
      BY <3>2 DEF SaveInbound
    <3> QED
      BY <1>5, <3>1, <3>2 DEF ChecksAck, ClosesOnAck, KeepsOpen, PausedReply, Escalated, Reply,
                              ClaudeFails
  <2> QED
    BY <2>1, <2>2, GotoOK DEF Placed
<1> QED
  BY <1>1, <1>2, <1>3, <1>4, <1>5 DEF Handles

----------------------------------------------------------------------------
(* The other variables *)

EscalationsOK ==
    /\ esc \in [Escalations -> Escalation]
    /\ \A x \in Escalations : esc[x].at # "idle" => esc[x].conv \in Convs

Rest ==
    /\ wrote \in Seq(Msgs)
    /\ kind \in [Msgs -> Kinds \cup {None}]
    /\ EscalationsOK
    /\ pending \in Msgs \cup {None}
    /\ sent \in Seq(Msgs)
    /\ echo \subseteq Msgs
    /\ desk \in Convs \cup {None}
    /\ replies \in 0 .. MaxReplies
    /\ sweep \in Sweep

LEMMA Parts ==
    /\ RowsOK /\ HandlersOK /\ Rest => TypeOK
    /\ Rest /\ RowsOK => Typed
BY DEF TypeOK, RowsOK, HandlersOK, EscalationsOK, Rest, Typed

\* The escalations message d starts in conversation c
LEMMA StartsOK ==
    ASSUME EscalationsOK, NEW c \in Convs, NEW xs,
           esc' = [x \in Escalations |-> IF x \in xs THEN Escalating(c) ELSE esc[x]]
    PROVE  EscalationsOK'
<1>1. Escalating(c) \in Escalation /\ Escalating(c).conv = c
  BY DEF Escalating, Escalation
<1> QED
  BY <1>1 DEF EscalationsOK

LEMMA InboundRest ==
    ASSUME Rest, HandlersOK, NEW d \in Deliveries, Arrives(d) \/ Handles(d)
    PROVE  Rest'
<1>1. MsgOf(d) \in Msgs
  BY DEF MsgOf, Deliveries
<1>2. h[d].at \in Placed => h[d].conv \in Convs
  BY DEF HandlersOK
<1>3. CASE Writes(d)
  BY <1>1, <1>3 DEF Writes, Rest, EscalationsOK
<1>4. CASE \/ Redelivers(d) \/ FindConversation(d) \/ CreateConversation(d) \/ SaveInbound(d)
           \/ ChecksAck(d) \/ KeepsOpen(d) \/ Escalated(d) \/ ClaudeFails(d)
  BY <1>4 DEF Redelivers, FindConversation, CreateConversation, SaveInbound, ChecksAck,
              KeepsOpen, Escalated, ClaudeFails, Rest, EscalationsOK
<1>5. CASE ClosesOnAck(d)
  BY <1>1, <1>5 DEF ClosesOnAck, Schedule, Rest, EscalationsOK
<1>6. CASE Gate(d)
  <2>1. h[d].conv \in Convs
    BY <1>2, <1>6 DEF Gate, At, Placed
  <2>2. EscalationsOK'
    BY <2>1, <1>6, StartsOK DEF Gate, Rest
  <2> QED
    BY <1>6, <2>2 DEF Gate, Rest
<1>7. CASE PausedReply(d)
  <2>1. h[d].conv \in Convs
    BY <1>2, <1>7 DEF PausedReply, At, Placed
  <2> DEFINE xs == {x \in Starts(d, FALSE) : x[2] = "handoff"}
  <2>2. esc' = [x \in Escalations |-> IF x \in xs THEN Escalating(h[d].conv) ELSE esc[x]]
    BY <1>7 DEF PausedReply
  <2>3. EscalationsOK'
    BY <2>1, <2>2, StartsOK DEF Rest
  <2> QED
    BY <1>1, <1>7, <2>3 DEF PausedReply, Schedule, Rest
<1>8. CASE Reply(d)
  <2>1. h[d].conv \in Convs
    BY <1>2, <1>8 DEF Reply, At, Placed
  <2>2. /\ Escalating(h[d].conv) \in Escalation
        /\ Escalating(h[d].conv).conv = h[d].conv
    BY <2>1 DEF Escalating, Escalation
  <2>3. EscalationsOK'
    BY <1>8, <2>1, <2>2 DEF Reply, Rest, EscalationsOK
  <2> QED
    BY <1>1, <1>8, <2>3 DEF Reply, Schedule, Rest
<1> QED
  BY <1>3, <1>4, <1>5, <1>6, <1>7, <1>8 DEF Arrives, Handles

LEMMA HandoffRest ==
    ASSUME Rest, RowsOK, NEW x \in Escalations, EscalateReads(x) \/ EscalateWrites(x)
    PROVE  Rest'
<1>1. /\ NoEscalation \in Escalation /\ NoEscalation.at = "idle"
      /\ esc[x] \in Escalation
  BY DEF NoEscalation, Escalation, Rest, EscalationsOK
<1>2. PICK new \in Escalation :
          esc' = [esc EXCEPT ![x] = new] /\ (new.at # "idle" => new.conv \in Convs)
  <2>1. CASE EscalateReads(x)
    <3> DEFINE r == conv[esc[x].conv]
               read == [esc[x] EXCEPT !.at = "route", !.assigned = r.assigned]
    <3>1. esc[x].conv \in Convs
      BY <2>1 DEF EscalateReads, Rest, EscalationsOK
    <3>2. r.assigned \in BOOLEAN
      BY <3>1 DEF RowsOK, Conv
    <3>3. read \in Escalation /\ read.conv = esc[x].conv
      BY <1>1, <3>2, Zenon DEF Escalation
    <3>4. \/ esc' = [esc EXCEPT ![x] = NoEscalation]
          \/ esc' = [esc EXCEPT ![x] = read]
      BY <2>1, Zenon DEF EscalateReads
    <3> HIDE DEF read
    <3> QED
      BY <1>1, <3>1, <3>3, <3>4
  <2>2. CASE EscalateWrites(x)
    BY <1>1, <2>2 DEF EscalateWrites
  <2> QED
    BY <2>1, <2>2
<1>3. EscalationsOK'
  BY <1>2 DEF Rest, EscalationsOK
<1> QED
  BY <1>3 DEF EscalateReads, EscalateWrites, Rest

LEMMA OthersRest ==
    ASSUME Rest, Outbound \/ Operators \/ Reconcile
    PROVE  Rest'
<1>1. CASE Outbound
  <2>1. CASE SendFires
    <3>1. pending \in Msgs /\ sent' = Append(sent, pending) /\ sent \in Seq(Msgs)
      BY <2>1 DEF SendFires, Rest
    <3>2. sent' \in Seq(Msgs)
      BY <3>1
    <3>3. echo' \subseteq Msgs
      BY <2>1, <3>1, Zenon DEF SendFires, Rest
    <3> QED
      BY <2>1, <3>2, <3>3 DEF SendFires, Rest, EscalationsOK
  <2>2. CASE SendFails
    BY <2>2 DEF SendFails, Rest, EscalationsOK
  <2>3. CASE \E m \in Msgs : EchoArrives(m)
    BY <2>3 DEF EchoArrives, Rest, EscalationsOK
  <2> QED
    BY <1>1, <2>1, <2>2, <2>3 DEF Outbound
<1>2. CASE Operators
  <2>1. CASE PhoneReplies \/ \E c \in Convs : StaffWrites(c)
    <3>1. replies' \in 0 .. MaxReplies
      BY <2>1, ReplyBound DEF PhoneReplies, StaffWrites, Rest
    <3> QED
      BY <2>1, <3>1 DEF PhoneReplies, StaffWrites, Rest, EscalationsOK
  <2>2. CASE StaffUpdates
    BY <2>2 DEF StaffUpdates, Rest, EscalationsOK
  <2>3. CASE \E c \in Convs : \/ SetPaused(c) \/ Assign(c) \/ WindowPasses(c)
                             \/ \E s \in {"ACTIVE", "WAITING", "CLOSED"} : UpdateStatus(c, s)
    BY <2>3 DEF SetPaused, Assign, WindowPasses, UpdateStatus, Rest, EscalationsOK
  <2> QED
    BY <1>2, <2>1, <2>2, <2>3 DEF Operators
<1>3. CASE Reconcile
  <2>1. sweep' \in Sweep
    BY <1>3 DEF Reconcile, SweepReads, SweepClears, SweepAligns, SweepFindsAcks, SweepCloses,
                Flagged, NoSweep, Sweep
  <2> QED
    BY <1>3, <2>1 DEF Reconcile, SweepReads, SweepClears, SweepAligns, SweepFindsAcks,
                      SweepCloses, Rest, EscalationsOK
<1> QED
  BY <1>1, <1>2, <1>3

\* Only the steps of the handlers move them.
LEMMA HandlersStay ==
    ASSUME HandlersOK, Handoff \/ Outbound \/ Operators \/ Reconcile \/ UNCHANGED vars
    PROVE  HandlersOK'
<1>1. UNCHANGED h
  BY DEF Handoff, EscalateReads, EscalateWrites, Outbound, SendFires, SendFails, EchoArrives,
         Operators, PhoneReplies, StaffUpdates, StaffWrites, SetPaused, Assign, WindowPasses,
         UpdateStatus, Reconcile, SweepReads, SweepClears, SweepAligns, SweepFindsAcks,
         SweepCloses, vars
<1> QED
  BY <1>1 DEF HandlersOK

Types == RowsOK /\ HandlersOK /\ Rest

LEMMA TypesInit == Init => Types
<1> SUFFICES ASSUME Init PROVE Types
  OBVIOUS
<1>1. NewConv \in Conv
  BY DEF NewConv, Conv
<1>2. NoHandler \in Handler /\ NoHandler.at = "idle"
  BY DEF NoHandler, Handler
<1>3. NoEscalation \in Escalation /\ NoEscalation.at = "idle"
  BY DEF NoEscalation, Escalation
<1>4. NoSweep \in Sweep
  BY DEF NoSweep, Sweep
<1> QED
  BY <1>1, <1>2, <1>3, <1>4, ReplyBound
  DEF Init, Types, RowsOK, HandlersOK, Placed, Rest, EscalationsOK

LEMMA TypesStep ==
    ASSUME Types, [Next]_vars
    PROVE  Types'
<1>1. RowsOK'
  BY StepRows, Parts DEF Types, RowsGrow, RowsOK
<1>2. HandlersOK'
  <2>1. CASE Inbound
    BY <2>1, HandlesOK DEF Inbound, Types
  <2> QED
    BY <2>1, HandlersStay DEF Next, Types
<1>3. Rest'
  <2>1. CASE Inbound
    BY <2>1, InboundRest DEF Inbound, Types
  <2>2. CASE Handoff
    BY <2>2, HandoffRest DEF Handoff, Types
  <2>3. CASE Outbound \/ Operators \/ Reconcile
    BY <2>3, OthersRest DEF Types
  <2>4. CASE UNCHANGED vars
    BY <2>4 DEF vars, Types, Rest, EscalationsOK
  <2> QED
    BY <2>1, <2>2, <2>3, <2>4 DEF Next
<1> QED
  BY <1>1, <1>2, <1>3 DEF Types

\* Every variable of the desk has its type in every state, for any number of
\* messages, deliveries and conversations.
THEOREM TypeCorrect == Spec => []TypeOK
<1>1. Init => Types
  BY TypesInit
<1>2. Types /\ [Next]_vars => Types'
  BY TypesStep
<1>3. Types => TypeOK
  BY Parts DEF Types
<1> QED
  BY <1>1, <1>2, <1>3, PTL DEF Spec

----------------------------------------------------------------------------
(* The properties *)

\* "WAITING sin flag es un estado imposible" (human-handoff.service.ts 276) is
\* true of every writer but PUT status: escalate, the replies of the staff, the
\* close on an ack and the reconciliation move the two columns together.
THEOREM WaitingHasFlag ==
    ASSUME "status" \notin Panel
    PROVE  Spec => []WaitingIsFlagged
<1> DEFINE I == Types /\ WaitingIsFlagged
<1>1. Init => I
  BY TypesInit DEF Init, WaitingIsFlagged, NewConv
<1>2. I /\ [Next]_vars => I'
  <2> SUFFICES ASSUME I, [Next]_vars PROVE I'
    OBVIOUS
  <2>1. RowsGrow
    BY StepRows, Parts DEF Types
  <2>2. WaitingIsFlagged'
    BY <2>1 DEF RowsGrow, Grows, Flags, WaitingIsFlagged
  <2> QED
    BY <2>2, TypesStep
<1>3. I => WaitingIsFlagged
  OBVIOUS
<1> HIDE DEF I
<1> QED
  BY <1>1, <1>2, <1>3, PTL DEF Spec

\* The AI's reply to message m is in the log of a conversation.
Logged(m) == \E c \in Convs : [by |-> "ai", of |-> m] \in Entries(c)

Replied ==
    /\ pending # None => Logged(pending)
    /\ \A i \in DOMAIN sent : Logged(sent[i])

LEMMA LogsGrow ==
    ASSUME RowsGrow, NEW m, Logged(m)
    PROVE  Logged(m)'
BY DEF RowsGrow, Grows, Keeps, Logged, Entries

\* A handler that schedules a reply has just stored it.
LEMMA RepliesLogged ==
    ASSUME Types, NEW d \in Deliveries, ClosesOnAck(d) \/ PausedReply(d) \/ Reply(d)
    PROVE  Logged(MsgOf(d))'
<1> DEFINE c == h[d].conv
           r == With(conv[c], "ai", MsgOf(d))
<1>1. c \in Convs
  BY DEF Types, HandlersOK, Placed, At, ClosesOnAck, PausedReply, Reply
<1>2. conv[c] \in Conv /\ MsgOf(d) \in Msgs \cup {None}
  BY <1>1 DEF Types, RowsOK, MsgOf, Deliveries
<1>3. r \in Conv /\ \E i \in DOMAIN r.log : r.log[i] = [by |-> "ai", of |-> MsgOf(d)]
  BY <1>2, WithRow DEF Business, Grows
<1>4. Closed(r).log = r.log
  BY <1>3, ClosedRow
<1>5. Put(c, r) \/ Put(c, Closed(r))
  BY DEF ClosesOnAck, PausedReply, Reply
<1> HIDE DEF r
<1>6. conv'[c].log = r.log
  BY <1>1, <1>4, <1>5 DEF Put, Types, RowsOK
<1> QED
  BY <1>1, <1>3, <1>6 DEF Logged, Entries

\* What the customer received from the AI was stored in a conversation before it
\* was sent, whatever the handlers of other messages do meanwhile.
THEOREM SentWasLogged == Spec => []SentIsLogged
<1> DEFINE I == Types /\ Replied
<1>1. Init => I
  BY TypesInit DEF Init, Replied
<1>2. I /\ [Next]_vars => I'
  <2> SUFFICES ASSUME I, [Next]_vars PROVE I'
    OBVIOUS
  <2>1. RowsGrow
    BY StepRows, Parts DEF Types
  <2>2. \A m : Logged(m) => Logged(m)'
    BY <2>1, LogsGrow
  <2>3. Replied'
    <3>1. CASE UNCHANGED <<pending, sent>>
      BY <2>2, <3>1 DEF Replied
    <3>2. ASSUME NEW d \in Deliveries, ClosesOnAck(d) \/ PausedReply(d) \/ Reply(d)
          PROVE  Replied'
      <4>1. Logged(MsgOf(d))'
        BY <3>2, RepliesLogged
      <4>2. pending' = MsgOf(d) /\ sent' = sent
        BY <3>2 DEF ClosesOnAck, PausedReply, Reply, Schedule
      <4> QED
        BY <2>2, <4>1, <4>2 DEF Replied
    <3>3. CASE SendFires
      <4>1. sent' = Append(sent, pending) /\ pending' = None /\ pending # None
        BY <3>3 DEF SendFires
      <4>2. sent \in Seq(Msgs) /\ pending \in Msgs \cup {None}
        BY DEF Types, Rest
      <4>3. ASSUME NEW i \in DOMAIN sent', NEW m, m = sent'[i] PROVE Logged(m)'
        <5>1. (i \in DOMAIN sent /\ m = sent[i]) \/ m = pending
          BY <4>1, <4>2, <4>3
        <5> QED
          BY <2>2, <4>1, <5>1 DEF Replied
      <4>4. (\A i \in DOMAIN sent : Logged(sent[i]))'
        BY <4>3 DEF Logged, Entries
      <4> QED
        BY <4>1, <4>4 DEF Replied
    <3>4. CASE SendFails
      BY <2>2, <3>4 DEF SendFails, Replied
    <3> QED
      BY <3>1, <3>2, <3>3, <3>4
      DEF Next, Inbound, Arrives, Handles, Writes, Redelivers, FindConversation,
          CreateConversation, SaveInbound, ChecksAck, KeepsOpen, Gate, Escalated, ClaudeFails,
          Handoff, EscalateReads, EscalateWrites, Outbound, EchoArrives, Operators, PhoneReplies,
          StaffUpdates, StaffWrites, SetPaused, Assign, WindowPasses, UpdateStatus, Reconcile,
          SweepReads, SweepClears, SweepAligns, SweepFindsAcks, SweepCloses, vars
  <2> QED
    BY <2>3, TypesStep
<1>3. I => SentIsLogged
  BY DEF Replied, Logged, SentIsLogged
<1> HIDE DEF I
<1> QED
  BY <1>1, <1>2, <1>3, PTL DEF Spec

----------------------------------------------------------------------------
(* Which steps store what the customer wrote                               *)

\* Row i of the log of c is message m of the customer.
Holds(c, i, m) ==
    c \in Convs /\ i \in DOMAIN conv[c].log /\ conv[c].log[i] = [by |-> "customer", of |-> m]

SameCustomer == \A c, i, m : Holds(c, i, m)' <=> Holds(c, i, m)
SameLogs == \A c \in Convs : conv'[c].log = conv[c].log

LEMMA StoredHolds == \A m : Stored(m) <=> \E c, i : Holds(c, i, m)
BY DEF Stored, Entries, Holds

LEMMA LogOfRow ==
    ASSUME NEW r \in Conv
    PROVE  /\ Opened(r).log = r.log /\ Raised(r).log = r.log /\ Closed(r).log = r.log
           /\ Attended(r).log = r.log /\ Claimed(r).log = r.log
           /\ \A a : Waiting(r, a).log = r.log
           /\ \A by, m : With(r, by, m).log = Append(r.log, [by |-> by, of |-> m])
           /\ Opened(r) \in Conv
<1>1. Opened(r) \in Conv
    BY OpenedRow DEF Grows
<1>2. /\ Opened(r).log = r.log /\ Raised(r).log = r.log /\ Closed(r).log = r.log
      /\ Attended(r).log = r.log /\ Claimed(r).log = r.log
    BY DEF Conv, Opened, Raised, Closed, Attended, Claimed
<1>3. \A a : Waiting(r, a).log = r.log
    BY DEF Conv, Waiting
<1>4. ASSUME NEW by, NEW m PROVE With(r, by, m).log = Append(r.log, [by |-> by, of |-> m])
    <2> DEFINE log == Append(r.log, [by |-> by, of |-> m])
               a == r.answered \/ by \in {"staff", "phone"}
               b == r.recent \/ by \in {"staff", "phone"}
    <2>1. With(r, by, m) = [r EXCEPT !.log = log, !.answered = a, !.recent = b]
        BY Zenon DEF With
    <2> HIDE DEF log, a, b
    <2>2. With(r, by, m).log = log
        BY <2>1, Zenon DEF Conv
    <2> QED BY <2>2 DEF log
<1> QED BY <1>1, <1>2, <1>3, <1>4

LEMMA SameLogsSameCustomer == ASSUME SameLogs PROVE SameCustomer
BY DEF SameLogs, SameCustomer, Holds

\* One more entry in the log of c0
Appends(c0, e) ==
    /\ c0 \in Convs /\ conv[c0].log \in Seq(Entry) /\ e \in Entry
    /\ \A c \in Convs : conv'[c].log = IF c = c0 THEN Append(conv[c0].log, e) ELSE conv[c].log

LEMMA TeamWrites ==
    ASSUME NEW c0, NEW e, Appends(c0, e), e.by # "customer"
    PROVE  SameCustomer
<1> SUFFICES ASSUME NEW c, NEW i, NEW m PROVE Holds(c, i, m)' <=> Holds(c, i, m)
    BY DEF SameCustomer
<1>1. CASE c # c0
    BY <1>1 DEF Appends, Holds
<1>2. CASE c = c0
    <2> DEFINE s == conv[c0].log
    <2>1. s \in Seq(Entry) /\ conv'[c0].log = Append(s, e)
        BY DEF Appends
    <2> HIDE DEF s
    <2>2. DOMAIN Append(s, e) = 1 .. Len(s) + 1 /\ DOMAIN s = 1 .. Len(s) /\ Len(s) \in Nat
        BY <2>1 DEF Appends
    <2>3. \A j \in 1 .. Len(s) : Append(s, e)[j] = s[j]
        BY <2>1 DEF Appends
    <2>4. Append(s, e)[Len(s) + 1] = e /\ e # [by |-> "customer", of |-> m]
        BY <2>1 DEF Appends
    <2>5. i \in DOMAIN Append(s, e) /\ Append(s, e)[i] = [by |-> "customer", of |-> m]
          <=> i \in DOMAIN s /\ s[i] = [by |-> "customer", of |-> m]
        BY <2>2, <2>3, <2>4
    <2> QED BY <1>2, <2>1, <2>5 DEF Holds, Appends, s
<1> QED BY <1>1, <1>2

LEMMA CustomerWrites ==
    ASSUME NEW c0, NEW n \in Msgs, Appends(c0, [by |-> "customer", of |-> n])
    PROVE  \A c, i, m : Holds(c, i, m)' <=>
               Holds(c, i, m) \/ (c = c0 /\ i = Len(conv[c0].log) + 1 /\ m = n)
<1> SUFFICES ASSUME NEW c, NEW i, NEW m
             PROVE  Holds(c, i, m)' <=>
                        Holds(c, i, m) \/ (c = c0 /\ i = Len(conv[c0].log) + 1 /\ m = n)
    OBVIOUS
<1> DEFINE e == [by |-> "customer", of |-> n]
<1>1. CASE c # c0
    BY <1>1 DEF Appends, Holds
<1>2. CASE c = c0
    <2> DEFINE s == conv[c0].log
    <2>1. s \in Seq(Entry) /\ conv'[c0].log = Append(s, e)
        BY DEF Appends
    <2>0. e \in Entry /\ (e = [by |-> "customer", of |-> m] <=> m = n)
        BY DEF Appends
    <2> HIDE DEF s, e
    <2>2. DOMAIN Append(s, e) = 1 .. Len(s) + 1 /\ DOMAIN s = 1 .. Len(s) /\ Len(s) \in Nat
        BY <2>0, <2>1
    <2>3. \A j \in 1 .. Len(s) : Append(s, e)[j] = s[j]
        BY <2>0, <2>1
    <2>4. Append(s, e)[Len(s) + 1] = e
        BY <2>0, <2>1
    <2>5. i \in DOMAIN Append(s, e) /\ Append(s, e)[i] = [by |-> "customer", of |-> m]
          <=> \/ i \in DOMAIN s /\ s[i] = [by |-> "customer", of |-> m]
              \/ i = Len(s) + 1 /\ m = n
        BY <2>0, <2>2, <2>3, <2>4
    <2> QED BY <1>2, <2>1, <2>5 DEF Holds, Appends, s
<1> QED BY <1>1, <1>2

LEMMA PutSame ==
    ASSUME RowsOK, NEW c, NEW r, Put(c, r), c \in Convs => r.log = conv[c].log
    PROVE  SameCustomer
<1>1. SameLogs
    BY DEF RowsOK, Put, SameLogs
<1> QED BY <1>1, SameLogsSameCustomer

LEMMA PutTeam ==
    ASSUME RowsOK, NEW c \in Convs, NEW r, NEW by \in Business, NEW m \in Msgs \cup {None},
           Put(c, r), r.log = Append(conv[c].log, [by |-> by, of |-> m])
    PROVE  SameCustomer
<1> DEFINE e == [by |-> by, of |-> m]
<1>1. e \in Entry /\ e.by # "customer"
    BY DEF Entry, Business
<1>2. conv[c].log \in Seq(Entry)
    BY DEF RowsOK, Conv
<1>3. Appends(c, e)
    BY <1>1, <1>2 DEF Appends, RowsOK, Put
<1> HIDE DEF e
<1> QED BY <1>1, <1>3, TeamWrites

\* Every step but SaveInbound leaves the customer's messages as they are.
LEMMA HandlesSame ==
    ASSUME Types, NEW d \in Deliveries, Arrives(d) \/ Handles(d), ~SaveInbound(d)
    PROVE  SameCustomer
<1>r. RowsOK /\ MsgOf(d) \in Msgs
    BY DEF Types, MsgOf, Deliveries
<1>1. CASE CreateConversation(d)
    <2>1. PICK c \in Convs : Put(c, Opened(conv[c]))
        BY <1>1 DEF CreateConversation, Unused
    <2>2. Opened(conv[c]).log = conv[c].log
        BY <1>r, LogOfRow DEF RowsOK
    <2> QED BY <1>r, <2>1, <2>2, PutSame
<1>2. CASE ClosesOnAck(d) \/ PausedReply(d) \/ Reply(d)
    <2> DEFINE c == h[d].conv
               r == With(conv[c], "ai", MsgOf(d))
    <2>1. c \in Convs /\ conv[c] \in Conv
        BY <1>2 DEF Types, HandlersOK, RowsOK, Placed, At, ClosesOnAck, PausedReply, Reply
    <2> DEFINE old == conv[c]
    <2>o. old \in Conv /\ MsgOf(d) \in Msgs \cup {None} /\ "ai" \in Business \cup {"customer"}
        BY <1>r, <2>1 DEF Business
    <2>5. r = With(old, "ai", MsgOf(d))
        OBVIOUS
    <2> HIDE DEF old, r
    <2>6. r \in Conv
        BY <2>o, <2>5, WithRow DEF Grows
    <2>2. r.log = Append(old.log, [by |-> "ai", of |-> MsgOf(d)])
        BY <2>o, <2>5, LogOfRow
    <2>3. Closed(r).log = r.log
        BY <2>6, LogOfRow
    <2> USE DEF r
    <2>4. Put(c, r) \/ Put(c, Closed(r))
        BY <1>2 DEF ClosesOnAck, PausedReply, Reply
    <2> HIDE DEF r
    <2> QED BY <1>r, <2>1, <2>2, <2>3, <2>4, <2>o, PutTeam DEF Business, old
<1>3. CASE \/ Arrives(d) \/ FindConversation(d) \/ ChecksAck(d) \/ KeepsOpen(d)
           \/ Gate(d) \/ Escalated(d) \/ ClaudeFails(d)
    <2>1. UNCHANGED conv
        BY <1>3 DEF Arrives, Writes, Redelivers, FindConversation, ChecksAck, KeepsOpen, Gate,
                    Escalated, ClaudeFails
    <2> QED BY <2>1, SameLogsSameCustomer DEF SameLogs
<1> QED BY <1>1, <1>2, <1>3 DEF Handles

LEMMA PhoneSame ==
    ASSUME RowsOK, NEW m \in Msgs \cup {None}, RecordPhone(m)
    PROVE  SameCustomer
<1>1. PICK c \in Convs :
          Put(c, Attended(With(IF c \in Open THEN conv[c] ELSE Opened(conv[c]), "phone", m)))
    BY DEF RecordPhone, Open, Unused
<1> DEFINE r == IF c \in Open THEN conv[c] ELSE Opened(conv[c])
           w == With(r, "phone", m)
<1>2. r \in Conv /\ r.log = conv[c].log
    BY LogOfRow DEF RowsOK
<1>5. Put(c, Attended(w)) /\ w = With(r, "phone", m)
    BY <1>1
<1> HIDE DEF r, w
<1>6. w \in Conv
    BY <1>2, <1>5, WithRow DEF Grows, Business
<1>3. w.log = Append(conv[c].log, [by |-> "phone", of |-> m])
    BY <1>2, <1>5, LogOfRow
<1>4. Attended(w).log = w.log
    BY <1>6, LogOfRow
<1> QED BY <1>3, <1>4, <1>5, PutTeam DEF Business

LEMMA OthersSame ==
    ASSUME Types, Handoff \/ Outbound \/ Operators \/ Reconcile \/ UNCHANGED vars
    PROVE  SameCustomer
<1>r. RowsOK
    BY DEF Types
<1>u. UNCHANGED conv => SameCustomer
    BY SameLogsSameCustomer DEF SameLogs
<1>1. CASE Handoff
    <2>1. PICK x \in Escalations : EscalateReads(x) \/ EscalateWrites(x)
        BY <1>1 DEF Handoff
    <2>2. CASE EscalateReads(x)
        BY <1>u, <2>2 DEF EscalateReads
    <2>3. CASE EscalateWrites(x)
        <3>1. PICK a : Put(esc[x].conv, Waiting(conv[esc[x].conv], a))
            BY <2>3 DEF EscalateWrites
        <3>2. esc[x].conv \in Convs =>
                  Waiting(conv[esc[x].conv], a).log = conv[esc[x].conv].log
            BY <1>r, LogOfRow DEF RowsOK
        <3> QED BY <1>r, <3>1, <3>2, PutSame
    <2> QED BY <2>1, <2>2, <2>3
<1>2. CASE Outbound
    BY <1>2, <1>r, <1>u, PhoneSame DEF Outbound, SendFires, SendFails, EchoArrives
<1>3. CASE Operators
    <2>1. CASE PhoneReplies
        BY <1>r, <2>1, PhoneSame DEF PhoneReplies
    <2>2. CASE StaffUpdates
        <3>1. Put(desk, Claimed(conv[desk]))
            BY <2>2 DEF StaffUpdates
        <3>2. desk \in Convs => Claimed(conv[desk]).log = conv[desk].log
            BY <1>r, LogOfRow DEF RowsOK
        <3> QED BY <1>r, <3>1, <3>2, PutSame
    <2>3. ASSUME NEW c \in Convs, StaffWrites(c) PROVE SameCustomer
        <3>1. Put(c, With(conv[c], "staff", None))
            BY <2>3 DEF StaffWrites
        <3>2. With(conv[c], "staff", None).log = Append(conv[c].log, [by |-> "staff", of |-> None])
            BY <1>r, LogOfRow DEF RowsOK
        <3> QED BY <1>r, <3>1, <3>2, PutTeam DEF Business
    <2>4. ASSUME NEW c \in Convs, SetPaused(c) \/ Assign(c) \/ WindowPasses(c)
                                  \/ \E s \in {"ACTIVE", "WAITING", "CLOSED"} : UpdateStatus(c, s)
          PROVE  SameCustomer
        <3>1. conv[c] \in Conv
            BY <1>r DEF RowsOK
        <3>2. CASE SetPaused(c)
            <4>1. [conv[c] EXCEPT !.paused = ~@].log = conv[c].log
                BY <3>1 DEF Conv
            <4> QED BY <1>r, <3>2, <4>1, PutSame DEF SetPaused
        <3>3. CASE Assign(c)
            <4>1. [conv[c] EXCEPT !.assigned = TRUE, !.status = "ACTIVE"].log = conv[c].log
                BY <3>1 DEF Conv
            <4> QED BY <1>r, <3>3, <4>1, PutSame DEF Assign
        <3>4. CASE WindowPasses(c)
            <4>1. [conv[c] EXCEPT !.recent = FALSE].log = conv[c].log
                BY <3>1 DEF Conv
            <4> QED BY <1>r, <3>4, <4>1, PutSame DEF WindowPasses
        <3>5. ASSUME NEW s, UpdateStatus(c, s) PROVE SameCustomer
            <4>1. [conv[c] EXCEPT !.status = s].log = conv[c].log
                BY <3>1 DEF Conv
            <4> QED BY <1>r, <3>5, <4>1, PutSame DEF UpdateStatus
        <3> QED BY <2>4, <3>2, <3>3, <3>4, <3>5
    <2> QED BY <1>3, <2>1, <2>2, <2>3, <2>4 DEF Operators
<1>4. CASE Reconcile
    <2>1. CASE SweepReads \/ SweepFindsAcks
        BY <1>u, <2>1 DEF SweepReads, SweepFindsAcks
    <2>2. CASE SweepClears \/ SweepAligns \/ SweepCloses
        <3>1. \A c \in Convs : /\ conv[c] \in Conv
                               /\ Attended(conv[c]).log = conv[c].log
                               /\ Closed(conv[c]).log = conv[c].log
                               /\ [conv[c] EXCEPT !.status = "ACTIVE"].log = conv[c].log
            BY <1>r, LogOfRow DEF RowsOK, Conv
        <3>2. SameLogs
            BY <2>2, <3>1 DEF SweepClears, SweepAligns, SweepCloses, SameLogs
        <3> QED BY <3>2, SameLogsSameCustomer
    <2> QED BY <1>4, <2>1, <2>2 DEF Reconcile
<1>5. CASE UNCHANGED vars
    BY <1>5, <1>u DEF vars
<1> QED BY <1>1, <1>2, <1>3, <1>4, <1>5

----------------------------------------------------------------------------
(* One delivery at a time: when the deliveries come in one upsert event, the  *)
(* handler of the newest message is the only one at work.                     *)

Busy(d) == h[d].at \notin {"idle", "done"}
Early == {"find", "create", "save"}

OneBusy == \A d, x \in Deliveries : Busy(d) /\ Busy(x) => d = x
BusyIsNewest ==
    \A d \in Deliveries : Busy(d) => wrote # <<>> /\ MsgOf(d) = wrote[Len(wrote)]
WroteOnce ==
    /\ \A i \in DOMAIN wrote : kind[wrote[i]] # None
    /\ \A i, j \in DOMAIN wrote : wrote[i] = wrote[j] => i = j
PendingIsWritten == pending # None => \E i \in DOMAIN wrote : wrote[i] = pending
EarlyIsNew == \A d \in Deliveries : h[d].at \in Early => ~Stored(MsgOf(d))
UnwrittenIsNew == \A m \in Msgs : kind[m] = None => ~Stored(m)
StoredOrComing ==
    \A m \in Msgs : kind[m] # None =>
        Stored(m) \/ \E d \in Deliveries : MsgOf(d) = m /\ h[d].at \in Early
Once ==
    \A m \in Msgs : \A c1, c2, i, j : Holds(c1, i, m) /\ Holds(c2, j, m) => c1 = c2 /\ i = j

SerialInv ==
    /\ OneBusy /\ BusyIsNewest /\ WroteOnce /\ PendingIsWritten
    /\ EarlyIsNew /\ UnwrittenIsNew /\ StoredOrComing /\ Once

LEMMA SameStored == ASSUME SameCustomer PROVE (\A m : Stored(m)' <=> Stored(m)) /\ (Once => Once')
<1>1. \A m : Stored(m)' <=> \E c, i : Holds(c, i, m)'
    BY DEF Stored, Entries, Holds
<1> QED BY <1>1, StoredHolds DEF SameCustomer, Once

\* The steps of the others
LEMMA QuietSteps ==
    ASSUME Types, SerialInv, SameCustomer, UNCHANGED <<wrote, kind, h>>,
           pending' \in {pending, None}
    PROVE  SerialInv'
<1>1. OneBusy' /\ BusyIsNewest'
    BY DEF SerialInv, OneBusy, BusyIsNewest, Busy, MsgOf
<1>2. WroteOnce' /\ PendingIsWritten'
    BY DEF SerialInv, WroteOnce, PendingIsWritten
<1>3. EarlyIsNew' /\ UnwrittenIsNew' /\ StoredOrComing' /\ Once'
    BY SameStored DEF SerialInv, EarlyIsNew, UnwrittenIsNew, StoredOrComing, MsgOf
<1> QED BY <1>1, <1>2, <1>3 DEF SerialInv

\* How a step of a handler looks from here
Moves(d) ==
    /\ Busy(d)
    /\ h'[d].at \in Early <=> h[d].at \in Early
    /\ h' = [h EXCEPT ![d] = h'[d]]
    /\ UNCHANGED <<wrote, kind>>
    /\ pending' \in {pending, MsgOf(d)}

LEMMA GotoAt ==
    ASSUME HandlersOK, NEW d \in Deliveries, NEW point, Goto(d, point)
    PROVE  h'[d].at = point /\ h' = [h EXCEPT ![d] = h'[d]]
<1> DEFINE new == IF point = "done" THEN Finished ELSE [h[d] EXCEPT !.at = point]
<1>1. new.at = point
    <2>1. CASE point = "done"
        BY <2>1 DEF Finished, NoHandler
    <2>2. CASE point # "done"
        BY <2>2 DEF HandlersOK, Handler
    <2> QED BY <2>1, <2>2
<1>2. h' = [h EXCEPT ![d] = new]
    BY DEF Goto
<1> HIDE DEF new
<1> QED BY <1>1, <1>2 DEF HandlersOK

LEMMA HandlesMoves ==
    ASSUME Types, NEW d \in Deliveries, Handles(d), ~SaveInbound(d)
    PROVE  Moves(d)
<1>h. HandlersOK /\ h[d] \in Handler
    BY DEF Types, HandlersOK
<1>1. CASE FindConversation(d) \/ CreateConversation(d)
    <2>1. h[d].at \in {"find", "create"} /\ UNCHANGED <<wrote, kind, pending>>
        BY <1>1 DEF FindConversation, CreateConversation, At
    <2>2. h'[d].at \in {"create", "save"} /\ h' = [h EXCEPT ![d] = h'[d]]
        <3>1. CASE Goto(d, "create")
            BY <1>h, <3>1, GotoAt
        <3>2. ASSUME NEW c, NEW p, Enters(d, c, p)
              PROVE  h'[d].at = "save" /\ h' = [h EXCEPT ![d] = h'[d]]
            <4> DEFINE new == [h[d] EXCEPT !.at = "save", !.conv = c, !.ours = p]
            <4>1. new.at = "save"
                BY <1>h DEF Handler
            <4>2. h' = [h EXCEPT ![d] = new]
                BY <3>2 DEF Enters
            <4> HIDE DEF new
            <4> QED BY <1>h, <4>1, <4>2 DEF HandlersOK
        <3>3. Goto(d, "create") \/ \E c, p : Enters(d, c, p)
            BY <1>1 DEF FindConversation, CreateConversation
        <3> QED BY <3>1, <3>2, <3>3
    <2> QED BY <2>1, <2>2 DEF Moves, Busy, Early
<1>2. CASE Gate(d)
    <2> DEFINE new == [h[d] EXCEPT !.at = "wait", !.next = After(d, conv[h[d].conv].paused)]
    <2>1. new.at = "wait"
        BY <1>h DEF Handler
    <2>2. h' = [h EXCEPT ![d] = new] /\ UNCHANGED <<wrote, kind, pending>> /\ h[d].at = "gate"
        BY <1>2 DEF Gate, At
    <2> HIDE DEF new
    <2>3. h'[d] = new
        BY <1>h, <2>2 DEF HandlersOK
    <2> QED BY <2>1, <2>2, <2>3 DEF Moves, Busy, Early
<1>3. CASE \/ ChecksAck(d) \/ ClosesOnAck(d) \/ KeepsOpen(d) \/ PausedReply(d)
           \/ Escalated(d) \/ Reply(d) \/ ClaudeFails(d)
    <2>1. /\ h[d].at \in {"ack", "verdict", "gate", "wait", "canned", "claude"}
          /\ UNCHANGED <<wrote, kind>>
          /\ pending' \in {pending, MsgOf(d)}
        BY <1>3 DEF ChecksAck, ClosesOnAck, KeepsOpen, PausedReply, Escalated, Reply, ClaudeFails,
                    At, Schedule
    <2>2. PICK point \in {"verdict", "gate", "canned", "claude", "done"} : Goto(d, point)
        <3>1. h[d].next \in {"done", "canned", "claude"}
            BY <1>h DEF Handler
        <3> QED
            BY <1>3, <3>1 DEF ChecksAck, ClosesOnAck, KeepsOpen, PausedReply, Escalated, Reply,
                              ClaudeFails
    <2>3. h'[d].at = point /\ h' = [h EXCEPT ![d] = h'[d]]
        BY <1>h, <2>2, GotoAt
    <2> QED BY <2>1, <2>2, <2>3 DEF Moves, Busy, Early
<1> QED BY <1>1, <1>2, <1>3 DEF Handles

LEMMA OthersStay ==
    ASSUME HandlersOK, NEW d \in Deliveries, h' = [h EXCEPT ![d] = h'[d]]
    PROVE  \A x \in Deliveries \ {d} : h'[x] = h[x]
BY DEF HandlersOK

LEMMA MovesKeep ==
    ASSUME Types, SerialInv, SameCustomer, NEW d \in Deliveries, Moves(d)
    PROVE  SerialInv'
<1>1. \A x \in Deliveries \ {d} : h'[x] = h[x]
    BY OthersStay DEF Moves, Types
<1>2. \A x \in Deliveries : /\ Busy(x)' => Busy(x)
                            /\ h'[x].at \in Early <=> h[x].at \in Early
    BY <1>1 DEF Moves, Busy
<1>3. OneBusy' /\ BusyIsNewest'
    BY <1>2 DEF SerialInv, OneBusy, BusyIsNewest, Moves, MsgOf
<1>4. WroteOnce'
    BY DEF SerialInv, WroteOnce, Moves
<1>5. PendingIsWritten'
    <2>1. wrote # <<>> /\ MsgOf(d) = wrote[Len(wrote)] /\ wrote \in Seq(Msgs)
        BY DEF SerialInv, BusyIsNewest, Moves, Types, Rest
    <2>2. Len(wrote) \in DOMAIN wrote
        BY <2>1
    <2> QED BY <2>1, <2>2 DEF SerialInv, PendingIsWritten, Moves
<1>6. EarlyIsNew' /\ UnwrittenIsNew' /\ StoredOrComing' /\ Once'
    BY <1>2, SameStored DEF SerialInv, EarlyIsNew, UnwrittenIsNew, StoredOrComing, MsgOf, Moves
<1> QED BY <1>3, <1>4, <1>5, <1>6 DEF SerialInv

\* What the save adds to the log, and where its handler goes on
LEMMA SaveStores ==
    ASSUME Types, NEW d \in Deliveries, SaveInbound(d)
    PROVE  /\ Busy(d) /\ h[d].at = "save"
           /\ \A c, i, m : Holds(c, i, m)' <=>
                  Holds(c, i, m)
                  \/ (c = h[d].conv /\ i = Len(conv[h[d].conv].log) + 1 /\ m = MsgOf(d))
           /\ \A m : Stored(m)' <=> Stored(m) \/ m = MsgOf(d)
           /\ h' = [h EXCEPT ![d] = h'[d]] /\ h'[d].at \notin Early
           /\ UNCHANGED <<wrote, kind, pending, sent>>
<1> DEFINE c0 == h[d].conv
           n == MsgOf(d)
           e == [by |-> "customer", of |-> n]
<1>h. HandlersOK /\ RowsOK /\ n \in Msgs /\ c0 \in Convs /\ Busy(d) /\ h[d].at = "save"
    BY DEF Types, HandlersOK, Placed, SaveInbound, At, Busy, MsgOf, Deliveries
<1>1. Appends(c0, e)
    <2> DEFINE old == conv[c0]
               r == With(old, "customer", n)
    <2>1. old \in Conv /\ old.log \in Seq(Entry) /\ e \in Entry
        BY <1>h DEF RowsOK, Conv, Entry
    <2>2. Put(c0, r) \/ Put(c0, Raised(r))
        BY DEF SaveInbound
    <2>0. r = With(old, "customer", n)
        OBVIOUS
    <2> HIDE DEF r, old
    <2>3. r \in Conv
        BY <1>h, <2>0, <2>1, WithRow DEF Grows
    <2>4. r.log = Append(old.log, e)
        BY <2>0, <2>1, LogOfRow
    <2>5. Raised(r).log = r.log
        BY <2>3, LogOfRow
    <2>6. PICK w : Put(c0, w) /\ w.log = Append(old.log, e)
        BY <2>2, <2>4, <2>5
    <2> HIDE DEF c0, e
    <2> QED BY <1>h, <2>1, <2>6 DEF Appends, Put, RowsOK, old
<1>2. \A c, i, m : Holds(c, i, m)' <=>
          Holds(c, i, m) \/ (c = c0 /\ i = Len(conv[c0].log) + 1 /\ m = n)
    BY <1>h, <1>1, CustomerWrites
<1>3. \A m : Stored(m)' <=> Stored(m) \/ m = n
    <2>1. \A m : Stored(m)' <=> \E c, i : Holds(c, i, m)'
        BY DEF Stored, Entries, Holds
    <2> QED BY <1>2, <2>1, StoredHolds
<1>4. /\ h' = [h EXCEPT ![d] = h'[d]] /\ h'[d].at \notin Early
      /\ UNCHANGED <<wrote, kind, pending, sent>>
    <2>1. PICK point \in {"done", "ack", "gate"} : Goto(d, point)
        BY DEF SaveInbound
    <2> QED BY <1>h, <2>1, GotoAt DEF SaveInbound, Early
<1> QED
    BY <1>h, <1>2, <1>3, <1>4

LEMMA SaveKeeps ==
    ASSUME Types, SerialInv, NEW d \in Deliveries, SaveInbound(d)
    PROVE  SerialInv'
<1> DEFINE c0 == h[d].conv
           n == MsgOf(d)
<1>h. HandlersOK /\ n \in Msgs /\ Busy(d) /\ h[d].at = "save"
    BY SaveStores DEF Types, MsgOf, Deliveries
<1>2. \A c, i, m : Holds(c, i, m)' <=>
          Holds(c, i, m) \/ (c = c0 /\ i = Len(conv[c0].log) + 1 /\ m = n)
    BY SaveStores
<1>3. \A m : Stored(m)' <=> Stored(m) \/ m = n
    BY SaveStores
<1>4. /\ h' = [h EXCEPT ![d] = h'[d]] /\ h'[d].at \notin Early
      /\ UNCHANGED <<wrote, kind, pending>>
    BY SaveStores
<1>5. \A x \in Deliveries \ {d} : h'[x] = h[x]
    BY <1>h, <1>4, OthersStay
<1>6. OneBusy' /\ BusyIsNewest'
    BY <1>h, <1>4, <1>5 DEF SerialInv, OneBusy, BusyIsNewest, Busy, MsgOf
<1>7. WroteOnce' /\ PendingIsWritten'
    BY <1>4 DEF SerialInv, WroteOnce, PendingIsWritten
<1>8. EarlyIsNew'
    <2> SUFFICES ASSUME NEW x \in Deliveries, h'[x].at \in Early PROVE ~Stored(MsgOf(x))'
        BY DEF EarlyIsNew
    <2>1. x # d /\ h'[x] = h[x]
        BY <1>4, <1>5
    <2>2. Busy(x)
        BY <2>1 DEF Busy, Early
    <2> QED BY <1>h, <2>1, <2>2 DEF SerialInv, OneBusy
<1>9. kind[n] # None
    <2>1. wrote # <<>> /\ n = wrote[Len(wrote)] /\ wrote \in Seq(Msgs)
        BY <1>h DEF SerialInv, BusyIsNewest, Types, Rest
    <2>2. Len(wrote) \in DOMAIN wrote
        BY <2>1
    <2> QED BY <2>1, <2>2 DEF SerialInv, WroteOnce
<1>10. UnwrittenIsNew'
    BY <1>3, <1>4, <1>9 DEF SerialInv, UnwrittenIsNew
<1>11. StoredOrComing'
    <2> SUFFICES ASSUME NEW m \in Msgs, kind'[m] # None
                 PROVE  Stored(m)' \/ \E x \in Deliveries : MsgOf(x) = m /\ h'[x].at \in Early
        BY DEF StoredOrComing, MsgOf
    <2>1. CASE Stored(m)
        BY <1>3, <2>1
    <2>2. CASE ~Stored(m)
        <3>1. PICK x \in Deliveries : MsgOf(x) = m /\ h[x].at \in Early
            BY <1>4, <2>2 DEF SerialInv, StoredOrComing
        <3>2. x = d \/ h'[x] = h[x]
            BY <1>5
        <3> QED BY <1>3, <3>1, <3>2
    <2> QED BY <2>1, <2>2
<1>12. Once'
    <2>1. \A c, i : ~Holds(c, i, n)
        <3>1. ~Stored(n)
            BY <1>h DEF SerialInv, EarlyIsNew, Early
        <3> QED BY <3>1, StoredHolds
    <2> HIDE DEF c0, n
    <2> QED BY <1>2, <2>1 DEF SerialInv, Once
<1> QED BY <1>6, <1>7, <1>8, <1>10, <1>11, <1>12 DEF SerialInv

LEMMA ArrivesKeeps ==
    ASSUME Types, SerialInv, Serial, NEW d \in Deliveries, Arrives(d)
    PROVE  SerialInv'
<1>h. /\ HandlersOK /\ MsgOf(d) \in Msgs /\ wrote \in Seq(Msgs)
      /\ kind \in [Msgs -> Kinds \cup {None}] /\ ~Busy(d) /\ h[d].at = "idle"
    BY DEF Types, MsgOf, Deliveries, Rest, Arrives, Writes, Redelivers, At, Busy
<1>f. \A x \in Deliveries : ~Busy(x)
    BY <1>h DEF Arrives, Writes, Redelivers, MayHandle, Busy
<1>e. \A x \in Deliveries : h[x].at \notin Early
    BY <1>f DEF Busy, Early
<1>s. SameCustomer
    <2>1. UNCHANGED conv
        BY DEF Arrives, Writes, Redelivers
    <2> QED BY <2>1, SameLogsSameCustomer DEF SameLogs
<1>1. CASE Writes(d)
    <2>1. PICK k \in Kinds : kind' = [kind EXCEPT ![MsgOf(d)] = k]
        BY <1>1 DEF Writes
    <2>2. k # None /\ kind[MsgOf(d)] = None
        BY <1>1, NoneIsNew DEF Writes, Unwritten
    <2>3. /\ h'[d].at = "find" /\ h' = [h EXCEPT ![d] = h'[d]]
          /\ wrote' = Append(wrote, MsgOf(d)) /\ pending' = pending
        BY <1>1, <1>h, GotoAt DEF Writes
    <2>4. \A x \in Deliveries \ {d} : h'[x] = h[x]
        BY <1>h, <2>3, OthersStay
    <2>5. /\ wrote' \in Seq(Msgs) /\ Len(wrote') = Len(wrote) + 1 /\ Len(wrote) \in Nat
          /\ DOMAIN wrote' = 1 .. Len(wrote) + 1 /\ DOMAIN wrote = 1 .. Len(wrote)
          /\ wrote'[Len(wrote) + 1] = MsgOf(d)
          /\ \A i \in 1 .. Len(wrote) : wrote'[i] = wrote[i]
        BY <1>h, <2>3
    <2>6. OneBusy' /\ BusyIsNewest'
        <3>1. \A x \in Deliveries : Busy(x)' => x = d
            BY <1>f, <2>4 DEF Busy
        <3>2. wrote' # <<>> /\ MsgOf(d) = wrote'[Len(wrote')]
            BY <2>5
        <3> QED BY <3>1, <3>2 DEF OneBusy, BusyIsNewest, MsgOf
    <2>7. WroteOnce'
        <3>1. \A i \in 1 .. Len(wrote) : wrote[i] # MsgOf(d) /\ wrote[i] \in Msgs
            BY <1>h, <2>2, <2>5 DEF SerialInv, WroteOnce
        <3>2. \A i \in DOMAIN wrote' : kind'[wrote'[i]] # None
            BY <1>h, <2>1, <2>2, <2>5, <3>1 DEF SerialInv, WroteOnce
        <3>3. \A i, j \in DOMAIN wrote' : wrote'[i] = wrote'[j] => i = j
            BY <2>5, <3>1 DEF SerialInv, WroteOnce
        <3> QED BY <3>2, <3>3 DEF WroteOnce
    <2>8. PendingIsWritten'
        BY <2>3, <2>5 DEF SerialInv, PendingIsWritten
    <2>9. EarlyIsNew'
        <3>1. ~Stored(MsgOf(d))
            BY <1>h, <2>2 DEF SerialInv, UnwrittenIsNew
        <3>2. \A x \in Deliveries : h'[x].at \in Early => x = d
            BY <1>e, <2>4
        <3> QED BY <1>s, <3>1, <3>2, SameStored DEF EarlyIsNew, MsgOf
    <2>10. UnwrittenIsNew' /\ Once'
        BY <1>h, <1>s, <2>1, <2>2, SameStored DEF SerialInv, UnwrittenIsNew
    <2>11. StoredOrComing'
        <3> SUFFICES ASSUME NEW m \in Msgs, kind'[m] # None
                     PROVE  Stored(m)' \/ \E x \in Deliveries : MsgOf(x) = m /\ h'[x].at \in Early
            BY DEF StoredOrComing, MsgOf
        <3>1. CASE m = MsgOf(d)
            BY <2>3, <3>1 DEF Early
        <3>2. CASE m # MsgOf(d)
            <4>1. kind[m] # None
                BY <1>h, <2>1, <3>2
            <4>2. Stored(m)
                BY <1>e, <4>1 DEF SerialInv, StoredOrComing
            <4> QED BY <1>s, <4>2, SameStored
        <3> QED BY <3>1, <3>2
    <2> QED BY <2>6, <2>7, <2>8, <2>9, <2>10, <2>11 DEF SerialInv
<1>2. CASE Redelivers(d)
    <2>1. Stored(MsgOf(d))
        BY <1>2, <1>h, <1>e DEF SerialInv, StoredOrComing, Redelivers, Unwritten
    <2>2. /\ h'[d].at = "done" /\ h' = [h EXCEPT ![d] = h'[d]]
          /\ UNCHANGED <<wrote, kind, pending>>
        BY <1>2, <1>h, <2>1, GotoAt DEF Redelivers
    <2>3. \A x \in Deliveries : ~Busy(x)' /\ h'[x].at \notin Early
        BY <1>h, <1>f, <1>e, <2>2, OthersStay DEF Busy, Early
    <2>4. OneBusy' /\ BusyIsNewest' /\ EarlyIsNew'
        BY <2>3 DEF OneBusy, BusyIsNewest, EarlyIsNew
    <2>5. WroteOnce' /\ PendingIsWritten'
        BY <2>2 DEF SerialInv, WroteOnce, PendingIsWritten
    <2>6. UnwrittenIsNew' /\ StoredOrComing' /\ Once'
        BY <1>s, <1>e, <2>2, SameStored DEF SerialInv, UnwrittenIsNew, StoredOrComing
    <2> QED BY <2>4, <2>5, <2>6 DEF SerialInv
<1> QED BY <1>1, <1>2 DEF Arrives

LEMMA OthersQuiet ==
    ASSUME Handoff \/ Outbound \/ Operators \/ Reconcile \/ UNCHANGED vars
    PROVE  UNCHANGED <<wrote, kind, h>> /\ pending' \in {pending, None}
<1>1. CASE Handoff
    BY <1>1 DEF Handoff, EscalateReads, EscalateWrites
<1>2. CASE Outbound
    BY <1>2 DEF Outbound, SendFires, SendFails, EchoArrives
<1>3. CASE Operators
    BY <1>3 DEF Operators, PhoneReplies, StaffUpdates, StaffWrites, SetPaused, Assign,
                WindowPasses, UpdateStatus
<1>4. CASE Reconcile
    BY <1>4 DEF Reconcile, SweepReads, SweepClears, SweepAligns, SweepFindsAcks, SweepCloses
<1>5. CASE UNCHANGED vars
    BY <1>5 DEF vars
<1> QED BY <1>1, <1>2, <1>3, <1>4, <1>5

LEMMA SerialInit == Init => SerialInv
<1> SUFFICES ASSUME Init PROVE SerialInv
    OBVIOUS
<1>1. \A d \in Deliveries : h[d].at = "idle"
    BY DEF Init, NoHandler
<1>2. \A c, i, m : ~Holds(c, i, m)
    BY DEF Init, NewConv, Holds
<1>3. \A m : ~Stored(m)
    BY <1>2, StoredHolds
<1>4. wrote = <<>> /\ pending = None /\ kind = [m \in Msgs |-> None]
    BY DEF Init
<1>5. OneBusy /\ BusyIsNewest /\ EarlyIsNew
    BY <1>1 DEF OneBusy, BusyIsNewest, EarlyIsNew, Busy, Early
<1>6. WroteOnce /\ PendingIsWritten
    BY <1>4 DEF WroteOnce, PendingIsWritten
<1> QED BY <1>2, <1>3, <1>4, <1>5, <1>6 DEF SerialInv, UnwrittenIsNew, StoredOrComing, Once

LEMMA SerialStep ==
    ASSUME Serial, Types, SerialInv, [Next]_vars PROVE SerialInv'
<1>1. CASE Inbound
    <2>1. PICK d \in Deliveries : Arrives(d) \/ Handles(d)
        BY <1>1 DEF Inbound
    <2>2. CASE SaveInbound(d)
        BY <2>2, SaveKeeps
    <2>3. CASE Handles(d) /\ ~SaveInbound(d)
        BY <2>3, HandlesSame, HandlesMoves, MovesKeep
    <2>4. CASE Arrives(d)
        BY <2>4, ArrivesKeeps
    <2> QED BY <2>1, <2>2, <2>3, <2>4
<1>2. CASE Handoff \/ Outbound \/ Operators \/ Reconcile \/ UNCHANGED vars
    BY <1>2, OthersSame, OthersQuiet, QuietSteps
<1> QED BY <1>1, <1>2 DEF Next

\* When the deliveries come one after another, a message the customer wrote
\* once is stored once however often Baileys delivers it.
THEOREM SavedOnceInTurn == Serial => (Spec => []SavedOnce)
<1> SUFFICES ASSUME Serial PROVE Spec => []SavedOnce
    OBVIOUS
<1>1. Init => Types /\ SerialInv
    BY TypesInit, SerialInit
<1>2. Types /\ SerialInv /\ [Next]_vars => (Types /\ SerialInv)'
    BY TypesStep, SerialStep
<1>3. SerialInv => SavedOnce
    <2> SUFFICES ASSUME SerialInv, NEW m \in Msgs PROVE Cardinality(Rows(m)) <= 1
        BY DEF SavedOnce
    <2>1. \A x \in Rows(m) : Holds(x[1], x[2], m) /\ x = <<x[1], x[2]>>
        BY DEF Rows, Holds
    <2>2. \A x, y \in Rows(m) : x = y
        BY <2>1 DEF SerialInv, Once
    <2>3. CASE Rows(m) = {}
        BY <2>3, FS_EmptySet
    <2>4. CASE Rows(m) # {}
        <3>1. PICK x \in Rows(m) : TRUE
            BY <2>4
        <3>2. Rows(m) = {x}
            BY <2>2, <3>1
        <3>3. Cardinality({x}) = 1
            BY FS_Singleton
        <3> QED BY <3>2, <3>3
    <2> QED BY <2>3, <2>4
<1> QED BY <1>1, <1>2, <1>3, PTL DEF Spec

Position(m) == CHOOSE i \in DOMAIN wrote : wrote[i] = m

\* The debounce: an older reply is discarded for a newer one, and only the last
\* one goes out (whatsapp-qr.service.ts 894-899).
LatestReplyWins ==
    [][pending # None /\ pending' # None => Position(pending') >= Position(pending)]_vars

\* When they come one after another, the reply that replaces a pending one
\* answers the same message or a newer one.
THEOREM NewestReplyWins == Serial => (Spec => LatestReplyWins)
<1> SUFFICES ASSUME Serial PROVE Spec => LatestReplyWins
    OBVIOUS
<1> DEFINE A == pending # None /\ pending' # None => Position(pending') >= Position(pending)
<1>1. Init => Types /\ SerialInv
    BY TypesInit, SerialInit
<1>2. Types /\ SerialInv /\ [Next]_vars => (Types /\ SerialInv)'
    BY TypesStep, SerialStep
<1>3. Types /\ SerialInv /\ [Next]_vars => [A]_vars
    <2> SUFFICES ASSUME Types, SerialInv, Next, pending # None, pending' # None
                 PROVE  Position(pending') >= Position(pending)
        BY DEF A
    <2>0. wrote \in Seq(Msgs)
        BY DEF Types, Rest
    <2>1. PICK i \in DOMAIN wrote : wrote[i] = pending
        BY DEF SerialInv, PendingIsWritten
    <2>2. \A j \in DOMAIN wrote : \A m : wrote[j] = m => Position(m) = j
        BY DEF SerialInv, WroteOnce, Position
    <2>3. Position(pending) = i /\ i \in 1 .. Len(wrote) /\ Len(wrote) \in Nat
        BY <2>0, <2>1, <2>2
    <2>4. CASE pending' = pending
        BY <2>3, <2>4
    <2>5. ASSUME NEW d \in Deliveries, Busy(d), pending' = MsgOf(d)
          PROVE  Position(pending') >= Position(pending)
        <3>1. wrote # <<>> /\ pending' = wrote[Len(wrote)]
            BY <2>5 DEF SerialInv, BusyIsNewest
        <3>2. Position(pending') = Len(wrote)
            BY <2>0, <2>2, <3>1
        <3> QED BY <2>3, <3>2
    <2>6. pending' = pending \/ pending' = None
          \/ \E d \in Deliveries : Busy(d) /\ pending' = MsgOf(d)
        <3>1. CASE Inbound
            <4>1. PICK d \in Deliveries : Arrives(d) \/ Handles(d)
                BY <3>1 DEF Inbound
            <4>2. CASE SaveInbound(d) \/ Arrives(d)
                BY <4>2 DEF SaveInbound, Arrives, Writes, Redelivers
            <4>3. CASE Handles(d) /\ ~SaveInbound(d)
                BY <4>3, HandlesMoves DEF Moves
            <4> QED BY <4>1, <4>2, <4>3
        <3>2. CASE Handoff \/ Outbound \/ Operators \/ Reconcile
            BY <3>2, OthersQuiet
        <3> QED BY <3>1, <3>2 DEF Next
    <2> QED BY <2>4, <2>5, <2>6
<1> HIDE DEF A
<1>4. Spec => [][A]_vars
    BY <1>1, <1>2, <1>3, PTL DEF Spec
<1> QED BY <1>4 DEF LatestReplyWins, A

----------------------------------------------------------------------------
(* ConversationDesk, one delivery at a time, implements Dialogue. *)

Kept == {m \in Msgs : Stored(m)}
Answering == \E d \in Deliveries : Busy(d)

\* A step that does not touch what the customer sees.
LEMMA NothingShown ==
    ASSUME UNCHANGED <<wrote, pending, sent>>, Kept' = Kept, Answering' <=> Answering
    PROVE  [Talk!DialogueNext]_(Talk!talkVars)
<1>1. Answering' = Answering
    BY DEF Answering
<1>2. UNCHANGED <<wrote, Kept, Answering, pending, sent>>
    BY <1>1
<1> QED
    BY <1>2 DEF Talk!talkVars, Kept, Answering, Busy

LEMMA KeptSame == ASSUME SameCustomer PROVE Kept' = Kept
BY SameStored DEF Kept

\* The handler at work is that of the newest message, which is in the log from
\* the save on and not before.
LEMMA NewestAtWork ==
    ASSUME Types, SerialInv, NEW d \in Deliveries, Busy(d)
    PROVE  /\ Answering /\ MsgOf(d) \in Msgs /\ Talk!Newest = MsgOf(d)
           /\ MsgOf(d) \in Kept <=> h[d].at \notin Early
<1>1. MsgOf(d) \in Msgs
    BY DEF MsgOf, Deliveries
<1>2. wrote # <<>> /\ MsgOf(d) = wrote[Len(wrote)] /\ wrote \in Seq(Msgs)
    BY DEF SerialInv, BusyIsNewest, Types, Rest
<1>3. kind[MsgOf(d)] # None
    <2>1. Len(wrote) \in DOMAIN wrote
        BY <1>2
    <2> QED
        BY <1>2, <2>1 DEF SerialInv, WroteOnce
<1>4. h[d].at \in Early => MsgOf(d) \notin Kept
    BY DEF SerialInv, EarlyIsNew, Kept
<1>5. ASSUME h[d].at \notin Early PROVE MsgOf(d) \in Kept
    <2>1. \A x \in Deliveries : h[x].at \notin Early
        BY <1>5 DEF SerialInv, OneBusy, Busy, Early
    <2> QED
        BY <1>1, <1>3, <2>1 DEF SerialInv, StoredOrComing, Kept
<1> QED
    BY <1>1, <1>2, <1>4, <1>5 DEF Answering, Talk!Newest

\* Nobody else is at work, before or after the step of a handler.
LEMMA AloneAtWork ==
    ASSUME HandlersOK, SerialInv, NEW d \in Deliveries, Busy(d), h' = [h EXCEPT ![d] = h'[d]]
    PROVE  Answering' <=> Busy(d)'
<1>1. \A x \in Deliveries \ {d} : h'[x] = h[x]
    BY OthersStay
<1>2. \A x \in Deliveries \ {d} : ~Busy(x)'
    BY <1>1 DEF SerialInv, OneBusy, Busy
<1> QED
    BY <1>2 DEF Answering

LEMMA HandlesSends ==
    ASSUME HandlersOK, NEW d \in Deliveries, Handles(d)
    PROVE  sent' = sent /\ (pending' # pending => h'[d].at = "done")
<1>1. CASE ClosesOnAck(d) \/ PausedReply(d) \/ Reply(d)
    <2>1. Goto(d, "done") /\ sent' = sent
        BY <1>1 DEF ClosesOnAck, PausedReply, Reply
    <2> QED
        BY <2>1, GotoAt
<1>2. CASE FindConversation(d) \/ CreateConversation(d) \/ SaveInbound(d) \/ ChecksAck(d)
    BY <1>2 DEF FindConversation, CreateConversation, SaveInbound, ChecksAck
<1>3. CASE KeepsOpen(d) \/ Gate(d) \/ Escalated(d) \/ ClaudeFails(d)
    BY <1>3 DEF KeepsOpen, Gate, Escalated, ClaudeFails
<1> QED
    BY <1>1, <1>2, <1>3 DEF Handles

LEMMA HandlesInTurn ==
    ASSUME Types, SerialInv, NEW d \in Deliveries, Handles(d), ~SaveInbound(d)
    PROVE  [Talk!DialogueNext]_(Talk!talkVars)
<1>h. HandlersOK /\ Moves(d) /\ Busy(d) /\ UNCHANGED wrote
    BY HandlesMoves DEF Types, Moves
<1>k. Kept' = Kept
    BY HandlesSame, KeptSame
<1>s. sent' = sent /\ (pending' # pending => ~Busy(d)')
    BY <1>h, HandlesSends DEF Busy
<1>a. Answering /\ (Answering' <=> Busy(d)')
    BY <1>h, AloneAtWork, NewestAtWork DEF Moves
<1>1. CASE Busy(d)'
    BY <1>1, <1>h, <1>k, <1>s, <1>a, NothingShown
<1>2. CASE ~Busy(d)'
    <2>1. h[d].at \notin Early
        BY <1>2, <1>h DEF Moves, Busy, Early
    <2>2. Talk!Newest \in Kept
        BY <1>h, <2>1, NewestAtWork
    <2>3. CASE pending' = pending
        <3>1. Talk!IsLeft
            BY <1>2, <1>h, <1>k, <1>s, <1>a, <2>2, <2>3 DEF Talk!IsLeft, Kept, Answering, Busy
        <3> QED
            BY <3>1 DEF Talk!DialogueNext
    <2>4. CASE pending' # pending
        <3>1. pending' = Talk!Newest
            BY <1>h, <2>4, NewestAtWork DEF Moves
        <3>2. Talk!IsAnswered
            BY <1>2, <1>h, <1>k, <1>s, <1>a, <2>2, <3>1 DEF Talk!IsAnswered, Kept, Answering, Busy
        <3> QED
            BY <3>2 DEF Talk!DialogueNext
    <2> QED
        BY <2>3, <2>4
<1> QED
    BY <1>1, <1>2

LEMMA SaveInTurn ==
    ASSUME Types, SerialInv, NEW d \in Deliveries, SaveInbound(d)
    PROVE  [Talk!DialogueNext]_(Talk!talkVars)
<1>1. Busy(d) /\ h[d].at \in Early /\ UNCHANGED <<wrote, pending, sent>>
    BY SaveStores DEF Early
<1>2. Answering /\ MsgOf(d) \in Msgs /\ Talk!Newest = MsgOf(d) /\ MsgOf(d) \notin Kept
    BY <1>1, NewestAtWork
<1>3. Kept' = Kept \cup {MsgOf(d)}
    BY <1>2, SaveStores DEF Kept
<1>4. Answering' \in BOOLEAN
    BY DEF Answering
<1>5. Talk!IsKept
    BY <1>1, <1>2, <1>3, <1>4 DEF Talk!IsKept, Kept, Answering, Busy
<1> QED
    BY <1>5 DEF Talk!DialogueNext

LEMMA ArrivesInTurn ==
    ASSUME Types, SerialInv, Serial, NEW d \in Deliveries, Arrives(d)
    PROVE  [Talk!DialogueNext]_(Talk!talkVars)
<1>h. /\ HandlersOK /\ MsgOf(d) \in Msgs /\ wrote \in Seq(Msgs) /\ ~Busy(d)
      /\ \A x \in Deliveries : ~Busy(x)
      /\ UNCHANGED <<conv, pending, sent>>
    BY DEF Types, MsgOf, Deliveries, Rest, Arrives, Writes, Redelivers, At, Busy, MayHandle
<1>k. Kept' = Kept
    BY <1>h, SameLogsSameCustomer, KeptSame DEF SameLogs
<1>1. CASE Writes(d)
    <2>1. Answering' /\ ~Answering
        <3>1. h'[d].at = "find"
            BY <1>h, <1>1, GotoAt DEF Writes
        <3> QED
            BY <1>h, <3>1 DEF Answering, Busy
    <2>2. \A i \in DOMAIN wrote : wrote[i] # MsgOf(d)
        BY <1>1 DEF SerialInv, WroteOnce, Writes, Unwritten
    <2>3. wrote' = Append(wrote, MsgOf(d))
        BY <1>1 DEF Writes
    <2>4. Talk!Writes
        BY <1>h, <1>k, <2>1, <2>2, <2>3 DEF Talk!Writes, Kept, Answering, Busy
    <2> QED
        BY <2>4 DEF Talk!DialogueNext
<1>2. CASE Redelivers(d)
    <2>1. Stored(MsgOf(d))
        BY <1>2, <1>h DEF SerialInv, StoredOrComing, Redelivers, Unwritten, Early, Busy
    <2>2. h'[d].at = "done" /\ h' = [h EXCEPT ![d] = h'[d]] /\ wrote' = wrote
        BY <1>2, <1>h, <2>1, GotoAt DEF Redelivers
    <2>3. ~Answering /\ ~Answering'
        BY <1>h, <2>2, OthersStay DEF Answering, Busy
    <2> QED
        BY <1>h, <1>k, <2>2, <2>3, NothingShown
<1> QED
    BY <1>1, <1>2 DEF Arrives

LEMMA OthersInTurn ==
    ASSUME Types, Handoff \/ Outbound \/ Operators \/ Reconcile \/ UNCHANGED vars
    PROVE  [Talk!DialogueNext]_(Talk!talkVars)
<1>1. Kept' = Kept /\ UNCHANGED <<wrote, h>>
    BY OthersSame, KeptSame, OthersQuiet
<1>2. Answering' = Answering
    BY <1>1 DEF Answering, Busy
<1>3. CASE SendFires
    <2>1. Talk!GoesOut
        BY <1>1, <1>2, <1>3 DEF SendFires, Talk!GoesOut, Kept, Answering, Busy
    <2> QED
        BY <2>1 DEF Talk!DialogueNext
<1>4. CASE SendFails
    <2>1. Talk!GetsLost
        BY <1>1, <1>2, <1>4 DEF SendFails, Talk!GetsLost, Kept, Answering, Busy
    <2> QED
        BY <2>1 DEF Talk!DialogueNext
<1>5. CASE ~SendFires /\ ~SendFails
    <2>1. UNCHANGED <<pending, sent>>
        <3>1. CASE Handoff
            BY <3>1 DEF Handoff, EscalateReads, EscalateWrites
        <3>2. CASE Outbound
            BY <1>5, <3>2 DEF Outbound, EchoArrives
        <3>3. CASE Operators
            BY <3>3 DEF Operators, PhoneReplies, StaffUpdates, StaffWrites, SetPaused, Assign,
                        WindowPasses, UpdateStatus
        <3>4. CASE Reconcile
            BY <3>4 DEF Reconcile, SweepReads, SweepClears, SweepAligns, SweepFindsAcks,
                        SweepCloses
        <3>5. CASE UNCHANGED vars
            BY <3>5 DEF vars
        <3> QED
            BY <3>1, <3>2, <3>3, <3>4, <3>5
    <2> QED
        BY <1>1, <1>2, <2>1, NothingShown
<1> QED
    BY <1>3, <1>4, <1>5

\* For any messages, copies, rows, staff, pauses, echoes and reconciliations: if
\* the deliveries come one at a time, ConversationDesk implements Dialogue.
THEOREM DialogueInTurn == Serial => (Spec => AnswersInTurn)
<1> SUFFICES ASSUME Serial PROVE Spec => AnswersInTurn
    OBVIOUS
<1>1. Init => Types /\ SerialInv
    BY TypesInit, SerialInit
<1>2. Types /\ SerialInv /\ [Next]_vars => (Types /\ SerialInv)'
    BY TypesStep, SerialStep
<1>3. Init => Talk!DialogueInit
    <2> SUFFICES ASSUME Init PROVE Talk!DialogueInit
        OBVIOUS
    <2>1. \A d \in Deliveries : h[d].at = "idle"
        BY DEF Init, NoHandler
    <2>2. \A m : ~Stored(m)
        BY DEF Init, NewConv, Stored, Entries
    <2> QED
        BY <2>1, <2>2 DEF Init, Talk!DialogueInit
<1>4. Types /\ SerialInv /\ [Next]_vars => [Talk!DialogueNext]_(Talk!talkVars)
    <2> SUFFICES ASSUME Types, SerialInv, [Next]_vars
                 PROVE  [Talk!DialogueNext]_(Talk!talkVars)
        OBVIOUS
    <2>1. CASE Inbound
        BY <2>1, SaveInTurn, HandlesInTurn, ArrivesInTurn DEF Inbound
    <2> QED
        BY <2>1, OthersInTurn DEF Next
<1> QED
    BY <1>1, <1>2, <1>3, <1>4, PTL DEF Spec, AnswersInTurn, Talk!DialogueSpec

----------------------------------------------------------------------------
(* What Dialogue promises of the answers, and so ConversationDesk too.     *)

Written(m) == \E p \in DOMAIN wrote : wrote[p] = m
Before(m, n) == \E p, q \in DOMAIN wrote : p < q /\ wrote[p] = m /\ wrote[q] = n

\* Whatever is answered comes before whatever is yet to be.
OrderInv ==
    /\ wrote \in Seq(Msgs) /\ sent \in Seq(Msgs)
    /\ \A p, q \in DOMAIN wrote : wrote[p] = wrote[q] => p = q
    /\ \A i \in DOMAIN sent : Written(sent[i])
    /\ \A i, j \in DOMAIN sent : i < j => Before(sent[i], sent[j])
    /\ pending # None => Written(pending) /\ \A i \in DOMAIN sent : Before(sent[i], pending)
    /\ Answering =>
          /\ wrote # <<>>
          /\ pending # None => Before(pending, Talk!Newest)
          /\ \A i \in DOMAIN sent : Before(sent[i], Talk!Newest)

LEMMA Appended ==
    ASSUME NEW S, NEW s \in Seq(S), NEW e \in S
    PROVE  /\ Append(s, e) \in Seq(S) /\ Append(s, e) # <<>>
           /\ Len(s) \in Nat /\ Len(Append(s, e)) = Len(s) + 1
           /\ DOMAIN s = 1 .. Len(s) /\ DOMAIN Append(s, e) = 1 .. Len(s) + 1
           /\ \A i \in 1 .. Len(s) : Append(s, e)[i] = s[i]
           /\ Append(s, e)[Len(s) + 1] = e
OBVIOUS

LEMMA OrderWrites == ASSUME OrderInv, Talk!Writes PROVE OrderInv'
<1>1. PICK m \in Msgs : /\ \A i \in DOMAIN wrote : wrote[i] # m
                        /\ wrote' = Append(wrote, m)
    BY DEF Talk!Writes
<1>2. ~Answering /\ UNCHANGED <<pending, sent>>
    BY DEF Talk!Writes, Answering, Busy
<1>3. /\ wrote' \in Seq(Msgs) /\ wrote' # <<>> /\ Len(wrote) \in Nat
      /\ Len(wrote') = Len(wrote) + 1
      /\ DOMAIN wrote = 1 .. Len(wrote) /\ DOMAIN wrote' = 1 .. Len(wrote) + 1
      /\ \A i \in 1 .. Len(wrote) : wrote'[i] = wrote[i]
      /\ wrote'[Len(wrote) + 1] = m
    BY <1>1, Appended DEF OrderInv
<1>4. /\ \A n : Written(n) => Written(n)' /\ Before(n, Talk!Newest)'
      /\ \A n, o : Before(n, o) => Before(n, o)'
    BY <1>3 DEF Written, Before, Talk!Newest
<1>5. \A p, q \in DOMAIN wrote' : wrote'[p] = wrote'[q] => p = q
    BY <1>1, <1>3 DEF OrderInv
<1> QED
    BY <1>2, <1>3, <1>4, <1>5 DEF OrderInv

LEMMA OrderWorks ==
    ASSUME OrderInv, Talk!IsKept \/ Talk!IsAnswered \/ Talk!IsLeft \/ Talk!GetsLost
    PROVE  OrderInv'
<1>1. UNCHANGED <<wrote, sent>> /\ (Answering' => Answering)
    BY DEF Talk!IsKept, Talk!IsAnswered, Talk!IsLeft, Talk!GetsLost, Answering, Busy
<1>2. /\ \A n : Written(n)' <=> Written(n)
      /\ \A n, o : Before(n, o)' <=> Before(n, o)
      /\ (Talk!Newest)' = Talk!Newest
    BY <1>1 DEF Written, Before, Talk!Newest
<1>3. CASE pending' \in {pending, None}
    BY <1>1, <1>2, <1>3 DEF OrderInv
<1>4. CASE Talk!IsAnswered
    <2>1. Answering /\ ~Answering' /\ pending' = Talk!Newest
        BY <1>4 DEF Talk!IsAnswered, Answering, Busy
    <2>2. Written(Talk!Newest)
        BY <2>1 DEF OrderInv, Written, Talk!Newest
    <2> QED
        BY <1>1, <1>2, <2>1, <2>2 DEF OrderInv
<1> QED
    BY <1>3, <1>4 DEF Talk!IsKept, Talk!IsLeft, Talk!GetsLost

LEMMA OrderGoesOut == ASSUME OrderInv, Talk!GoesOut PROVE OrderInv'
<1>1. /\ pending # None /\ pending' = None /\ sent' = Append(sent, pending)
      /\ wrote' = wrote /\ (Answering' <=> Answering)
    BY DEF Talk!GoesOut, Answering, Busy
<1>2. pending \in Msgs
    BY <1>1 DEF OrderInv, Written
<1>3. /\ sent' \in Seq(Msgs) /\ Len(sent) \in Nat
      /\ DOMAIN sent = 1 .. Len(sent) /\ DOMAIN sent' = 1 .. Len(sent) + 1
      /\ \A i \in 1 .. Len(sent) : sent'[i] = sent[i]
      /\ sent'[Len(sent) + 1] = pending
    BY <1>1, <1>2, Appended DEF OrderInv
<1>4. /\ \A n : Written(n)' <=> Written(n)
      /\ \A n, o : Before(n, o)' <=> Before(n, o)
      /\ (Talk!Newest)' = Talk!Newest
    BY <1>1 DEF Written, Before, Talk!Newest
<1>5. \A i \in DOMAIN sent' : Written(sent'[i]) /\ (Answering => Before(sent'[i], Talk!Newest))
    BY <1>1, <1>3 DEF OrderInv
<1>6. \A i, j \in DOMAIN sent' : i < j => Before(sent'[i], sent'[j])
    <2> SUFFICES ASSUME NEW i \in DOMAIN sent', NEW j \in DOMAIN sent', i < j
                 PROVE  Before(sent'[i], sent'[j])
        OBVIOUS
    <2>1. i \in DOMAIN sent /\ sent'[i] = sent[i]
        BY <1>3
    <2>2. CASE j \in DOMAIN sent
        BY <1>3, <2>1, <2>2 DEF OrderInv
    <2>3. CASE j = Len(sent) + 1
        BY <1>1, <1>3, <2>1, <2>3 DEF OrderInv
    <2> QED
        BY <1>3, <2>2, <2>3
<1> QED
    BY <1>1, <1>3, <1>4, <1>5, <1>6 DEF OrderInv

\* When the deliveries come one at a time, the customer gets the answers in the
\* order in which he wrote the messages, and no answer twice.
THEOREM AnsweredInOrder == Serial => (Spec => []Talk!AnswersInOrder)
<1> SUFFICES ASSUME Serial PROVE Spec => []Talk!AnswersInOrder
    OBVIOUS
<1>1. Talk!DialogueInit => OrderInv
    BY DEF Talk!DialogueInit, OrderInv, Answering, Busy
<1>2. OrderInv /\ [Talk!DialogueNext]_(Talk!talkVars) => OrderInv'
    <2> SUFFICES ASSUME OrderInv, [Talk!DialogueNext]_(Talk!talkVars) PROVE OrderInv'
        OBVIOUS
    <2>1. CASE UNCHANGED Talk!talkVars
        <3>1. UNCHANGED <<wrote, sent, pending>> /\ (Answering' <=> Answering)
            BY <2>1 DEF Talk!talkVars, Answering, Busy
        <3> QED
            BY <3>1 DEF OrderInv, Written, Before, Talk!Newest
    <2>2. CASE Talk!DialogueNext
        BY <2>2, OrderWrites, OrderWorks, OrderGoesOut DEF Talk!DialogueNext
    <2> QED
        BY <2>1, <2>2
<1>3. OrderInv => Talk!AnswersInOrder
    BY DEF OrderInv, Before, Talk!AnswersInOrder
<1>4. Spec => Talk!DialogueSpec
    BY DialogueInTurn DEF AnswersInTurn
<1> QED
    BY <1>1, <1>2, <1>3, <1>4, PTL DEF Talk!DialogueSpec
=============================================================================
