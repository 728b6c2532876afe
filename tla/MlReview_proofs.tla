--------------------------- MODULE MlReview_proofs ---------------------------
(***************************************************************************)
(* Theorems about MlReview, for any number of questions, messages, handlers *)
(* and requests of the panel, and any questions of the second account.     *)
(***************************************************************************)
EXTENDS MlReview, TLAPS

----------------------------------------------------------------------------
(* Metadata: what is flagged has a question *)

Flagged(x) == x.pending
GoodMeta(x) == x \in Meta /\ (Flagged(x) => x.question # None)

LEMMA MetaFacts ==
    /\ NoMeta \in Meta /\ NoMeta.question = None /\ ~Flagged(NoMeta)
    /\ GoodMeta(NoMeta)
<1>1. NoMeta \in Meta /\ NoMeta.question = None
    BY DEF NoMeta, Meta
<1>2. ~Flagged(NoMeta)
    BY DEF NoMeta, Flagged
<1> QED
    BY <1>1, <1>2 DEF GoodMeta

LEMMA MetaDrafted ==
    ASSUME NEW q \in Questions, NEW a \in BOOLEAN
    PROVE  /\ GoodMeta([question |-> q, pending |-> TRUE, account |-> a])
           /\ [question |-> q, pending |-> TRUE, account |-> a].question = q
           /\ Flagged([question |-> q, pending |-> TRUE, account |-> a])
<1>1. [question |-> q, pending |-> TRUE, account |-> a] \in Meta
    BY DEF Meta
<1> QED
    BY <1>1, NoneIsNone DEF GoodMeta, Flagged

LEMMA MetaUnflagged ==
    ASSUME NEW x \in Meta
    PROVE  /\ GoodMeta([x EXCEPT !.pending = FALSE])
           /\ [x EXCEPT !.pending = FALSE].question = x.question
           /\ ~Flagged([x EXCEPT !.pending = FALSE])
<1>1. /\ [x EXCEPT !.pending = FALSE] \in Meta
      /\ [x EXCEPT !.pending = FALSE].question = x.question
      /\ [x EXCEPT !.pending = FALSE].pending = FALSE
    BY DEF Meta
<1>2. ~Flagged([x EXCEPT !.pending = FALSE])
    BY <1>1 DEF Flagged
<1> QED
    BY <1>1, <1>2 DEF GoodMeta

LEMMA MetaScored ==
    ASSUME NEW x, GoodMeta(x), NEW a \in BOOLEAN
    PROVE  /\ GoodMeta([x EXCEPT !.account = a])
           /\ [x EXCEPT !.account = a].question = x.question
           /\ Flagged([x EXCEPT !.account = a]) <=> Flagged(x)
<1>0. x \in Meta
    BY DEF GoodMeta
<1>1. /\ [x EXCEPT !.account = a] \in Meta
      /\ [x EXCEPT !.account = a].question = x.question
    BY <1>0 DEF Meta
<1>2. [x EXCEPT !.account = a].pending = x.pending
    BY <1>0 DEF Meta
<1>3. Flagged([x EXCEPT !.account = a]) <=> Flagged(x)
    BY <1>2 DEF Flagged
<1> QED
    BY <1>1, <1>3 DEF GoodMeta

LEMMA EditedTyped ==
    ASSUME NEW t \in Replies
    PROVE  Edited(t) \in Replies /\ Edited(t).of = t.of /\ Edited(t) # None
BY NoneIsNone DEF Edited, Replies, Authors

----------------------------------------------------------------------------
(* What holds of one message, one handler, one request of the panel *)

RowOK(m) ==
    /\ row[m] \in Row
    /\ GoodMeta(row[m].meta)
    /\ Stamp(m) # None => Stored(m)

InStore(m) == m # None => m \in Messages /\ Stored(m)

HandlerOK(r) ==
    /\ r \in Handler
    /\ InStore(r.mine) /\ InStore(r.message)
    /\ r.mine # None => newest # None
    /\ r.at \in Replied <=> r.mine # None
    /\ r.at \in {"stamp", "scored"} => r.message # None
    /\ r.at \notin {"idle", "next"} => r.question # None
    /\ GoodMeta(r.meta)

OnMessage == {"look", "send", "edit", "regenerate", "clear", "cleared"}

PanelOK(r) ==
    /\ r \in Panel
    /\ InStore(r.message)
    /\ r.at \in OnMessage => r.message # None
    /\ r.at \in {"look", "send", "edit", "regenerate"} => r.text # None
    /\ r.at \in {"look", "send"} => r.question # None
    /\ r.at = "send" => r.meta.question # None
    /\ r.at = "sweep" => r.message = None /\ r.question = None /\ r.text = None
                         /\ r.meta = NoMeta
    /\ \A m \in r.todo : Stored(m)
    /\ GoodMeta(r.meta)

Refs ==
    /\ \A m \in Messages : RowOK(m)
    /\ InStore(newest)
    /\ \A h \in Handlers : HandlerOK(handler[h])
    /\ \A p \in Panels : PanelOK(panel[p])

Shapes ==
    /\ row \in [Messages -> Row]
    /\ handler \in [Handlers -> Handler]
    /\ panel \in [Panels -> Panel]
    /\ given \in [Questions -> Replies \cup {None}]
    /\ accepted \subseteq Questions
    /\ dropped \subseteq Questions
    /\ mishaps \subseteq Mishaps

\* Messages are never taken out of the log, and the newest stays one.
Grows == /\ \A m \in Messages : Stored(m) => Stored(m)'
         /\ newest # None => newest' # None

LEMMA GrowsRefs ==
    ASSUME Grows, NEW r
    PROVE  /\ HandlerOK(r) => HandlerOK(r)'
           /\ PanelOK(r) => PanelOK(r)'
<1>1. \A m : InStore(m) => InStore(m)'
    BY DEF Grows, InStore
<1>2. ASSUME HandlerOK(r) PROVE HandlerOK(r)'
    BY <1>1, <1>2 DEF HandlerOK, Grows
<1>3. ASSUME PanelOK(r) PROVE PanelOK(r)'
    <2>1. r.todo \in SUBSET Messages
        BY <1>3 DEF PanelOK, Panel
    <2>2. \A m \in r.todo : Stored(m)'
        BY <1>3, <2>1 DEF PanelOK, Grows
    <2> QED
        BY <1>1, <1>3, <2>2 DEF PanelOK
<1> QED
    BY <1>2, <1>3

\* One handler moves.
HandlerBecomes(h, r) == handler' = [handler EXCEPT ![h] = r]
PanelBecomes(p, r) == panel' = [panel EXCEPT ![p] = r]
RowBecomes(m, t, x) == row' = [row EXCEPT ![m] = [text |-> t, meta |-> x]]

LEMMA HandlersMove ==
    ASSUME Shapes, Refs, Grows, NEW h \in Handlers, NEW r,
           HandlerBecomes(h, r), HandlerOK(r)'
    PROVE  /\ handler' \in [Handlers -> Handler]
           /\ \A g \in Handlers : HandlerOK(handler[g])'
           /\ handler'[h] = r
           /\ \A g \in Handlers \ {h} : handler'[g] = handler[g]
<1>1. r \in Handler
    BY DEF HandlerOK
<1>2. /\ handler' \in [Handlers -> Handler] /\ handler'[h] = r
      /\ \A g \in Handlers \ {h} : handler'[g] = handler[g]
    BY <1>1 DEF Shapes, HandlerBecomes
<1>3. ASSUME NEW g \in Handlers PROVE HandlerOK(handler[g])'
    <2>1. CASE g = h
        BY <1>2, <2>1
    <2>2. CASE g # h
        <3>1. PICK s : s = handler[g]
            OBVIOUS
        <3>2. HandlerOK(s) /\ handler'[g] = s
            BY <1>2, <2>2, <3>1 DEF Refs
        <3>3. HandlerOK(s)'
            BY <3>2, GrowsRefs
        <3> QED
            BY <3>2, <3>3
    <2> QED
        BY <2>1, <2>2
<1> QED
    BY <1>2, <1>3

LEMMA PanelsMove ==
    ASSUME Shapes, Refs, Grows, NEW p \in Panels, NEW r,
           PanelBecomes(p, r), PanelOK(r)'
    PROVE  /\ panel' \in [Panels -> Panel]
           /\ \A g \in Panels : PanelOK(panel[g])'
           /\ panel'[p] = r
           /\ \A g \in Panels \ {p} : panel'[g] = panel[g]
<1>1. r \in Panel
    BY DEF PanelOK
<1>2. /\ panel' \in [Panels -> Panel] /\ panel'[p] = r
      /\ \A g \in Panels \ {p} : panel'[g] = panel[g]
    BY <1>1 DEF Shapes, PanelBecomes
<1>3. ASSUME NEW g \in Panels PROVE PanelOK(panel[g])'
    <2>1. CASE g = p
        BY <1>2, <2>1
    <2>2. CASE g # p
        <3>1. PICK s : s = panel[g]
            OBVIOUS
        <3>2. PanelOK(s) /\ panel'[g] = s
            BY <1>2, <2>2, <3>1 DEF Refs
        <3>3. PanelOK(s)'
            BY <3>2, GrowsRefs
        <3> QED
            BY <3>2, <3>3
    <2> QED
        BY <2>1, <2>2
<1> QED
    BY <1>2, <1>3

LEMMA HandlersStay ==
    ASSUME Refs, Grows, handler' = handler
    PROVE  \A g \in Handlers : HandlerOK(handler[g])'
<1> SUFFICES ASSUME NEW g \in Handlers PROVE HandlerOK(handler[g])'
    OBVIOUS
<1>1. PICK s : s = handler[g]
    OBVIOUS
<1>2. HandlerOK(s)'
    BY <1>1, GrowsRefs DEF Refs
<1> QED
    BY <1>1, <1>2

LEMMA PanelsStay ==
    ASSUME Refs, Grows, panel' = panel
    PROVE  \A g \in Panels : PanelOK(panel[g])'
<1> SUFFICES ASSUME NEW g \in Panels PROVE PanelOK(panel[g])'
    OBVIOUS
<1>1. PICK s : s = panel[g]
    OBVIOUS
<1>2. PanelOK(s)'
    BY <1>1, GrowsRefs DEF Refs
<1> QED
    BY <1>1, <1>2

\* One message is written.
LEMMA RowsMove ==
    ASSUME Shapes, Refs, NEW m \in Messages, NEW t \in Replies, NEW x,
           GoodMeta(x), RowBecomes(m, t, x), newest' \in {newest, m}
    PROVE  /\ row' \in [Messages -> Row]
           /\ Grows /\ InStore(newest)'
           /\ \A n \in Messages : RowOK(n)'
           /\ row'[m].text = t /\ row'[m].meta = x /\ Stored(m)'
           /\ \A n \in Messages \ {m} : row'[n] = row[n]
<1>1. [text |-> t, meta |-> x] \in Row
    BY DEF Row, GoodMeta
<1>2. /\ row' \in [Messages -> Row] /\ row'[m].text = t /\ row'[m].meta = x
      /\ \A n \in Messages \ {m} : row'[n] = row[n]
    BY <1>1 DEF Shapes, RowBecomes
<1>3. Stored(m)'
    BY <1>2, NoneIsNone DEF Stored
<1>4. Grows
    BY <1>2, <1>3, NoneIsNone DEF Grows, Stored
<1>5. InStore(newest)'
    BY <1>2, <1>3, <1>4 DEF InStore, Refs, Grows
<1>6. RowOK(m)'
    BY <1>2, <1>3 DEF RowOK
<1>7. ASSUME NEW n \in Messages \ {m} PROVE RowOK(n)'
    BY <1>2 DEF RowOK, Refs, Stamp, Stored
<1> QED
    BY <1>2, <1>3, <1>4, <1>5, <1>6, <1>7

LEMMA RowsStay ==
    ASSUME Refs, UNCHANGED <<row, newest>>
    PROVE  /\ Grows /\ InStore(newest)'
           /\ \A n \in Messages : RowOK(n)'
BY DEF Refs, Grows, InStore, RowOK, Stamp, Stored

----------------------------------------------------------------------------
(* Whose draft a message is: everything that refers to it names one question *)

HClaim(r, m, q) == q # None /\ \/ r.message = m /\ r.meta.question = q
                               \/ r.mine = m /\ r.question = q
PClaim(r, m, q) == q # None /\ r.message = m /\ (r.question = q \/ r.meta.question = q)
SClaim(m, q) == q # None /\ Stamp(m) = q

Claim(m, q) ==
    \/ SClaim(m, q)
    \/ \E h \in Handlers : HClaim(handler[h], m, q)
    \/ \E p \in Panels : PClaim(panel[p], m, q)

\* A step brings no claim but those on the messages of S.
NoNewClaim(S) == \A m \in Messages \ S : \A q : Claim(m, q)' => Claim(m, q)

LogTyped ==
    /\ given \in [Questions -> Replies \cup {None}]
    /\ accepted \subseteq Questions
    /\ dropped \subseteq Questions
    /\ mishaps \subseteq Mishaps

LEMMA HandlerStep ==
    ASSUME Shapes, Refs, LogTyped', Grows, row' \in [Messages -> Row], InStore(newest)',
           \A n \in Messages : RowOK(n)', panel' = panel,
           NEW h \in Handlers, NEW r, HandlerBecomes(h, r), HandlerOK(r)',
           NEW S,
           \A n \in Messages \ S : \A q : SClaim(n, q)' => Claim(n, q),
           \A n \in Messages \ S : \A q : HClaim(r, n, q) => Claim(n, q)
    PROVE  Shapes' /\ Refs' /\ NoNewClaim(S)
<1>1. /\ handler' \in [Handlers -> Handler]
      /\ \A g \in Handlers : HandlerOK(handler[g])'
      /\ handler'[h] = r
      /\ \A g \in Handlers \ {h} : handler'[g] = handler[g]
    BY HandlersMove
<1>2. \A p \in Panels : PanelOK(panel[p])'
    BY PanelsStay
<1>3. Shapes'
    BY <1>1 DEF Shapes, LogTyped
<1>4. Refs'
    BY <1>1, <1>2 DEF Refs
<1>5. ASSUME NEW n \in Messages \ S, NEW q, Claim(n, q)' PROVE Claim(n, q)
    <2>0. (SClaim(n, q)' => Claim(n, q)) /\ (HClaim(r, n, q) => Claim(n, q))
        OBVIOUS
    <2>1. CASE SClaim(n, q)'
        BY <2>0, <2>1
    <2>2. ASSUME NEW g \in Handlers, HClaim(handler'[g], n, q) PROVE Claim(n, q)
        <3>1. CASE g = h
            BY <1>1, <2>0, <2>2, <3>1
        <3>2. CASE g # h
            BY <1>1, <2>2, <3>2 DEF Claim
        <3> QED
            BY <3>1, <3>2
    <2>3. ASSUME NEW p \in Panels, PClaim(panel'[p], n, q) PROVE Claim(n, q)
        BY <2>3 DEF Claim
    <2> QED
        BY <1>5, <2>1, <2>2, <2>3 DEF Claim, HClaim, PClaim
<1> QED
    BY <1>3, <1>4, <1>5 DEF NoNewClaim

LEMMA PanelStep ==
    ASSUME Shapes, Refs, LogTyped', Grows, row' \in [Messages -> Row], InStore(newest)',
           \A n \in Messages : RowOK(n)', handler' = handler,
           NEW p \in Panels, NEW r, PanelBecomes(p, r), PanelOK(r)',
           \A n \in Messages : \A q : /\ SClaim(n, q)' => Claim(n, q)
                                      /\ PClaim(r, n, q) => Claim(n, q)
    PROVE  Shapes' /\ Refs' /\ NoNewClaim({})
<1>1. /\ panel' \in [Panels -> Panel]
      /\ \A g \in Panels : PanelOK(panel[g])'
      /\ panel'[p] = r
      /\ \A g \in Panels \ {p} : panel'[g] = panel[g]
    BY PanelsMove
<1>2. \A g \in Handlers : HandlerOK(handler[g])'
    BY HandlersStay
<1>3. Shapes'
    BY <1>1 DEF Shapes, LogTyped
<1>4. Refs'
    BY <1>1, <1>2 DEF Refs
<1>5. ASSUME NEW n \in Messages, NEW q, Claim(n, q)' PROVE Claim(n, q)
    <2>1. CASE SClaim(n, q)'
        BY <2>1
    <2>2. ASSUME NEW g \in Panels, PClaim(panel'[g], n, q) PROVE Claim(n, q)
        <3>1. CASE g = p
            BY <1>1, <2>2, <3>1
        <3>2. CASE g # p
            BY <1>1, <2>2, <3>2 DEF Claim
        <3> QED
            BY <3>1, <3>2
    <2>3. ASSUME NEW g \in Handlers, HClaim(handler'[g], n, q) PROVE Claim(n, q)
        BY <2>3 DEF Claim
    <2> QED
        BY <1>5, <2>1, <2>2, <2>3 DEF Claim, HClaim, PClaim
<1> QED
    BY <1>3, <1>4, <1>5 DEF NoNewClaim

\* The same where nothing is written to the log of messages.
LEMMA RowsUntouched ==
    ASSUME Shapes, Refs, UNCHANGED <<row, newest>>
    PROVE  /\ Grows /\ row' \in [Messages -> Row] /\ InStore(newest)'
           /\ \A n \in Messages : RowOK(n)'
           /\ \A n \in Messages : \A q : SClaim(n, q)' => Claim(n, q)
<1>1. row' \in [Messages -> Row]
    BY DEF Shapes
<1>2. \A n \in Messages : \A q : SClaim(n, q)' => Claim(n, q)
    BY DEF SClaim, Stamp, Claim
<1> QED
    BY <1>1, <1>2, RowsStay

LEMMA HandlerMoves ==
    ASSUME Shapes, Refs, LogTyped', UNCHANGED <<row, newest, panel>>,
           NEW h \in Handlers, NEW r, HandlerBecomes(h, r), HandlerOK(r),
           \A n \in Messages : \A q : HClaim(r, n, q) => Claim(n, q)
    PROVE  Shapes' /\ Refs' /\ NoNewClaim({})
<1>1. /\ Grows /\ row' \in [Messages -> Row] /\ InStore(newest)'
      /\ \A n \in Messages : RowOK(n)'
      /\ \A n \in Messages : \A q : SClaim(n, q)' => Claim(n, q)
    BY RowsUntouched
<1>2. HandlerOK(r)'
    BY <1>1, GrowsRefs
<1> QED
    BY <1>1, <1>2, HandlerStep

LEMMA PanelMoves ==
    ASSUME Shapes, Refs, LogTyped', UNCHANGED <<row, newest, handler>>,
           NEW p \in Panels, NEW r, PanelBecomes(p, r), PanelOK(r),
           \A n \in Messages : \A q : PClaim(r, n, q) => Claim(n, q)
    PROVE  Shapes' /\ Refs' /\ NoNewClaim({})
<1>1. /\ Grows /\ row' \in [Messages -> Row] /\ InStore(newest)'
      /\ \A n \in Messages : RowOK(n)'
      /\ \A n \in Messages : \A q : SClaim(n, q)' => Claim(n, q)
    BY RowsUntouched
<1>2. PanelOK(r)'
    BY <1>1, GrowsRefs
<1> QED
    BY <1>1, <1>2, PanelStep

----------------------------------------------------------------------------
(* The records of handlers *)

\* A handler that ends has no claim left.
Rested(r) == r.at \in {"idle", "next"} /\ HandlerOK(r) /\ \A m \in Messages : \A q : ~HClaim(r, m, q)

LEMMA HandlerRests ==
    ASSUME NEW todo \in SUBSET Questions
    PROVE  /\ Rested(NoHandler)
           /\ Rested([NoHandler EXCEPT !.at = "next", !.backfill = TRUE, !.todo = todo])
<1>1. NoHandler \in Handler
    BY MetaFacts DEF NoHandler, Handler, HandlerStages
<1>2. [NoHandler EXCEPT !.at = "next", !.backfill = TRUE, !.todo = todo] \in Handler
    BY <1>1 DEF Handler, HandlerStages
<1>3. Rested(NoHandler)
    BY <1>1, MetaFacts, NoneIsNone DEF Rested, NoHandler, HandlerOK, InStore, Replied, HClaim
<1>4. Rested([NoHandler EXCEPT !.at = "next", !.backfill = TRUE, !.todo = todo])
    <2>1. PICK r : r = [NoHandler EXCEPT !.at = "next", !.backfill = TRUE, !.todo = todo]
        OBVIOUS
    <2>2. /\ r.at = "next" /\ r.mine = None /\ r.message = None /\ r.meta = NoMeta
          /\ r.question = None
        BY <2>1 DEF NoHandler
    <2>3. HandlerOK(r)
        BY <1>2, <2>1, <2>2, MetaFacts DEF HandlerOK, InStore, Replied
    <2>4. \A m \in Messages : \A q : ~HClaim(r, m, q)
        BY <2>2, NoneIsNone DEF HClaim
    <2> QED
        BY <2>1, <2>2, <2>3, <2>4 DEF Rested
<1> QED
    BY <1>3, <1>4

LEMMA Ends ==
    ASSUME Shapes, NEW h \in Handlers,
           HandlerEnds(h) \/ handler' = [handler EXCEPT ![h] = NoHandler]
    PROVE  \E r : HandlerBecomes(h, r) /\ Rested(r)
<1>1. handler[h].todo \in SUBSET Questions
    BY DEF Shapes, Handler
<1>2. CASE handler' = [handler EXCEPT ![h] = NoHandler]
    BY <1>1, <1>2, HandlerRests DEF HandlerBecomes
<1>3. CASE HandlerEnds(h)
    <2>1. CASE handler[h].todo = {}
        BY <1>1, <1>3, <2>1, HandlerRests DEF HandlerBecomes, HandlerEnds, Shapes
    <2>2. CASE handler[h].todo # {}
        BY <1>1, <1>3, <2>2, HandlerRests DEF HandlerBecomes, HandlerEnds, Shapes
    <2> QED
        BY <2>1, <2>2
<1> QED
    BY <1>2, <1>3

\* A handler that goes from one stage to another of the same kind.
LEMMA Goes ==
    ASSUME Shapes, Refs, NEW h \in Handlers, NEW stage \in HandlerStages,
           stage \in Replied <=> handler[h].at \in Replied,
           stage \notin {"stamp", "scored"} \/ handler[h].message # None,
           handler[h].at \notin {"idle", "next"}, HandlerGoes(h, stage)
    PROVE  \E r : /\ HandlerBecomes(h, r) /\ HandlerOK(r)
                  /\ \A m \in Messages : \A q : HClaim(r, m, q) => HClaim(handler[h], m, q)
<1>1. PICK s : s = handler[h]
    OBVIOUS
<1>2. HandlerOK(s)
    BY <1>1 DEF Refs
<1>3. s \in Handler
    BY <1>2 DEF HandlerOK
<1>4. PICK r : r = [s EXCEPT !.at = stage]
    OBVIOUS
<1>5. r \in Handler /\ r.at = stage
    BY <1>3, <1>4 DEF Handler
<1>6. r.mine = s.mine /\ r.message = s.message /\ r.meta = s.meta /\ r.question = s.question
    BY <1>3, <1>4 DEF Handler
<1>7. HandlerBecomes(h, r)
    BY <1>1, <1>4 DEF HandlerBecomes, HandlerGoes, Shapes
<1>8. HandlerOK(r)
    BY <1>1, <1>2, <1>5, <1>6 DEF HandlerOK
<1>9. \A m \in Messages : \A q : HClaim(r, m, q) => HClaim(handler[h], m, q)
    BY <1>1, <1>6 DEF HClaim
<1> QED
    BY <1>7, <1>8, <1>9

----------------------------------------------------------------------------
(* Handlers that do not write to the log of messages *)

Kept == Shapes /\ Refs

LEMMA TakenTyped ==
    ASSUME Shapes, NEW q \in Questions, NEW t \in Replies, NEW own, Taken(q, t, own)
    PROVE  given' \in [Questions -> Replies \cup {None}] /\ accepted' \subseteq Questions
BY DEF Taken, Shapes

LEMMA LogKept ==
    ASSUME Shapes, UNCHANGED <<given, accepted, dropped, mishaps>> PROVE LogTyped'
BY DEF Shapes, LogTyped

LEMMA HandlerKept ==
    ASSUME Kept, NEW h \in Handlers
    PROVE  /\ HandlerOK(handler[h]) /\ handler[h] \in Handler
           /\ handler[h].at \notin {"idle", "next"} => handler[h].question \in Questions
           /\ \A n \in Messages : \A q : HClaim(handler[h], n, q) => Claim(n, q)
<1>1. HandlerOK(handler[h]) /\ handler[h] \in Handler
    BY DEF Kept, Refs, HandlerOK
<1>2. handler[h].at \notin {"idle", "next"} => handler[h].question \in Questions
    BY <1>1 DEF HandlerOK, Handler
<1>3. \A n \in Messages : \A q : HClaim(handler[h], n, q) => Claim(n, q)
    BY DEF Claim
<1> QED
    BY <1>1, <1>2, <1>3

LEMMA EndKept ==
    ASSUME Kept, LogTyped', UNCHANGED <<row, newest, panel>>, NEW h \in Handlers,
           HandlerEnds(h) \/ handler' = [handler EXCEPT ![h] = NoHandler]
    PROVE  Kept' /\ NoNewClaim({})
<1>1. PICK r : HandlerBecomes(h, r) /\ Rested(r)
    BY Ends DEF Kept
<1>2. HandlerOK(r) /\ \A n \in Messages : \A q : HClaim(r, n, q) => Claim(n, q)
    BY <1>1 DEF Rested
<1> QED
    BY <1>1, <1>2, HandlerMoves DEF Kept

LEMMA GoKept ==
    ASSUME Kept, LogTyped', UNCHANGED <<row, newest, panel>>, NEW h \in Handlers,
           NEW stage \in HandlerStages, stage \in Replied <=> handler[h].at \in Replied,
           stage \notin {"stamp", "scored"}, handler[h].at \notin {"idle", "next"},
           HandlerGoes(h, stage)
    PROVE  Kept' /\ NoNewClaim({})
<1>1. PICK r : /\ HandlerBecomes(h, r) /\ HandlerOK(r)
               /\ \A n \in Messages : \A q : HClaim(r, n, q) => HClaim(handler[h], n, q)
    BY Goes DEF Kept
<1>2. \A n \in Messages : \A q : HClaim(r, n, q) => Claim(n, q)
    BY <1>1, HandlerKept
<1> QED
    BY <1>1, <1>2, HandlerMoves DEF Kept

LEMMA StartKept ==
    ASSUME Kept, NEW h \in Handlers,
           BackfillLists(h) \/ \E q \in Questions : QuestionArrives(h, q) \/ BackfillNext(h, q)
    PROVE  Kept' /\ NoNewClaim({})
<1>0. LogTyped' /\ UNCHANGED <<row, newest, panel>>
    BY LogKept DEF Kept, BackfillLists, QuestionArrives, BackfillNext
<1>1. CASE BackfillLists(h)
    <2>1. PICK todo \in SUBSET Questions :
              handler' = [handler EXCEPT ![h] =
                             [NoHandler EXCEPT !.at = "next", !.backfill = TRUE, !.todo = todo]]
        BY <1>1 DEF BackfillLists
    <2>2. PICK r : HandlerBecomes(h, r) /\ Rested(r)
        BY <2>1, HandlerRests DEF HandlerBecomes
    <2>3. HandlerOK(r) /\ \A n \in Messages : \A q : HClaim(r, n, q) => Claim(n, q)
        BY <2>2 DEF Rested
    <2> QED
        BY <1>0, <2>2, <2>3, HandlerMoves DEF Kept
<1>2. ASSUME NEW q \in Questions, QuestionArrives(h, q) PROVE Kept' /\ NoNewClaim({})
    <2>1. PICK r : r = [NoHandler EXCEPT !.at = "ai", !.question = q]
        OBVIOUS
    <2>2. HandlerBecomes(h, r)
        BY <1>2, <2>1 DEF QuestionArrives, HandlerBecomes
    <2>3. NoHandler \in Handler
        BY MetaFacts DEF NoHandler, Handler, HandlerStages
    <2>4. /\ r \in Handler /\ r.at = "ai" /\ r.question = q /\ r.mine = None /\ r.message = None
          /\ r.meta = NoMeta
        BY <2>1, <2>3 DEF Handler, HandlerStages, NoHandler
    <2>5. HandlerOK(r)
        BY <2>4, MetaFacts, NoneIsNone DEF HandlerOK, InStore, Replied
    <2>6. \A n \in Messages : \A x : HClaim(r, n, x) => Claim(n, x)
        BY <2>4, NoneIsNone DEF HClaim
    <2> QED
        BY <1>0, <2>2, <2>5, <2>6, HandlerMoves DEF Kept
<1>3. ASSUME NEW q \in Questions, BackfillNext(h, q) PROVE Kept' /\ NoNewClaim({})
    <2>0. PICK s : s = handler[h]
        OBVIOUS
    <2>1. PICK r : r = [s EXCEPT !.at = "ai", !.question = q, !.todo = s.todo \ {q}]
        OBVIOUS
    <2>2. s \in Handler /\ HandlerOK(s) /\ s.at = "next"
        BY <1>3, <2>0, HandlerKept DEF BackfillNext
    <2>3. HandlerBecomes(h, r)
        BY <1>3, <2>0, <2>1 DEF BackfillNext, HandlerBecomes, Kept, Shapes
    <2>4. /\ r \in Handler /\ r.at = "ai" /\ r.question = q /\ r.mine = s.mine
          /\ r.message = s.message /\ r.meta = s.meta
        BY <2>1, <2>2 DEF Handler, HandlerStages
    <2>5. s.mine = None
        BY <2>2 DEF HandlerOK, Replied
    <2>6. HandlerOK(r)
        BY <2>2, <2>4, <2>5, NoneIsNone DEF HandlerOK, InStore, Replied
    <2>7. \A n \in Messages : \A x : HClaim(r, n, x) => HClaim(s, n, x)
        BY <2>4, <2>5, NoneIsNone DEF HClaim
    <2>8. \A n \in Messages : \A x : HClaim(r, n, x) => Claim(n, x)
        BY <2>0, <2>7, HandlerKept
    <2> QED
        BY <1>0, <2>3, <2>6, <2>8, HandlerMoves DEF Kept
<1> QED
    BY <1>1, <1>2, <1>3

LEMMA ModeKept ==
    ASSUME Kept, NEW h \in Handlers,
           HandlerFails(h) \/ ReplyQueued(h) \/ ModeReview(h) \/ ModeSend(h) \/ BackfillKeeps(h)
    PROVE  Kept' /\ NoNewClaim({})
<1>0. LogTyped' /\ UNCHANGED <<row, newest, panel>>
    BY LogKept DEF Kept, HandlerFails, ReplyQueued, ModeReview, ModeSend, BackfillKeeps
<1>1. CASE HandlerFails(h) \/ BackfillKeeps(h)
    BY <1>0, <1>1, EndKept DEF HandlerFails, BackfillKeeps
<1>2. CASE ReplyQueued(h) \/ ModeReview(h) \/ ModeSend(h)
    <2>1. PICK stage \in {"queued", "find", "score", "post"} :
              /\ HandlerGoes(h, stage)
              /\ stage \in Replied <=> handler[h].at \in Replied
              /\ handler[h].at \notin {"idle", "next"}
        BY <1>2 DEF ReplyQueued, ModeReview, ModeSend, Replied
    <2>2. stage \in HandlerStages
        BY DEF HandlerStages
    <2> QED
        BY <1>0, <2>1, <2>2, GoKept
<1> QED
    BY <1>1, <1>2

LEMMA SendKept ==
    ASSUME Kept, NEW h \in Handlers, BatchDelivers(h) \/ PostsReply(h)
    PROVE  Kept' /\ NoNewClaim({})
<1>1. PICK q \in Questions : q = handler[h].question
    BY HandlerKept DEF BatchDelivers, PostsReply
<1>2. [of |-> q, by |-> "ai"] \in Replies
    BY DEF Replies, Authors
<1>3. given' \in [Questions -> Replies \cup {None}] /\ accepted' \subseteq Questions
    BY <1>1, <1>2, TakenTyped DEF BatchDelivers, PostsReply, Kept
<1>4. mishaps' \subseteq Mishaps /\ dropped' = dropped
    BY DEF BatchDelivers, PostsReply, Records, Mishaps, Kept, Shapes
<1>5. LogTyped'
    BY <1>3, <1>4 DEF LogTyped, Kept, Shapes
<1> QED
    BY <1>5, EndKept DEF BatchDelivers, PostsReply

LEMMA FindKept ==
    ASSUME Kept, NEW h \in Handlers, FindsNewest(h)
    PROVE  Kept' /\ NoNewClaim({})
<1>0. LogTyped' /\ UNCHANGED <<row, newest, panel>>
    BY LogKept DEF Kept, FindsNewest
<1>1. PICK s : s = handler[h]
    OBVIOUS
<1>2. s \in Handler /\ HandlerOK(s) /\ s.at \in {"find", "score"}
    BY <1>1, HandlerKept DEF FindsNewest
<1>3. s.mine # None /\ newest \in Messages /\ Stored(newest)
    BY <1>2 DEF HandlerOK, Replied, Kept, Refs, InStore
<1>4. PICK x : x = IF s.at = "find" THEN NoMeta ELSE row[newest].meta
    OBVIOUS
<1>5. GoodMeta(x) /\ (x.question # None => SClaim(newest, x.question))
    BY <1>3, <1>4, MetaFacts DEF Kept, Refs, RowOK, SClaim, Stamp
<1>6. PICK stage : stage = IF s.at = "find" THEN "stamp" ELSE "scored"
    OBVIOUS
<1>7. PICK r : r = [s EXCEPT !.at = stage, !.message = newest, !.meta = x]
    OBVIOUS
<1>8. HandlerBecomes(h, r)
    BY <1>1, <1>4, <1>6, <1>7 DEF FindsNewest, HandlerBecomes, Kept, Shapes
<1>9. stage \in HandlerStages /\ stage \in Replied
    BY <1>6 DEF HandlerStages, Replied
<1>10. /\ r \in Handler /\ r.at = stage /\ r.question = s.question /\ r.mine = s.mine
       /\ r.message = newest /\ r.meta = x
    BY <1>2, <1>3, <1>5, <1>7, <1>9 DEF Handler, GoodMeta
<1>11. HandlerOK(r)
    BY <1>2, <1>3, <1>5, <1>9, <1>10, NoneIsNone DEF HandlerOK, InStore
<1>12. \A n \in Messages : \A q : HClaim(r, n, q) => HClaim(s, n, q) \/ SClaim(n, q)
    BY <1>5, <1>10 DEF HClaim
<1>13. \A n \in Messages : \A q : HClaim(r, n, q) => Claim(n, q)
    BY <1>1, <1>12, HandlerKept DEF Claim
<1> QED
    BY <1>0, <1>8, <1>11, <1>13, HandlerMoves DEF Kept

----------------------------------------------------------------------------
(* Handlers that write to the log of messages *)

LEMMA Unclaimed ==
    ASSUME Kept, NEW m \in Messages, ~Stored(m), NEW q
    PROVE  /\ ~SClaim(m, q)
           /\ \A h \in Handlers : ~HClaim(handler[h], m, q)
           /\ \A p \in Panels : ~PClaim(panel[p], m, q)
<1>1. ~SClaim(m, q)
    BY DEF Kept, Refs, RowOK, SClaim
<1>2. m # None
    BY NoneIsNone
<1>3. ASSUME NEW h \in Handlers PROVE ~HClaim(handler[h], m, q)
    BY <1>2, HandlerKept DEF HandlerOK, InStore, HClaim
<1>4. ASSUME NEW p \in Panels PROVE ~PClaim(panel[p], m, q)
    BY <1>2 DEF Kept, Refs, PanelOK, InStore, PClaim
<1> QED
    BY <1>1, <1>3, <1>4

\* A new message is on one question, and nothing else changes in the log.
Adds(m, q) ==
    /\ ~Stored(m) /\ row'[m].text.of = q
    /\ \A n \in Messages \ {m} : row'[n] = row[n]
    /\ NoNewClaim({m})
    /\ \A x : Claim(m, x)' => x = q

LEMMA StoreKept ==
    ASSUME Kept, NEW h \in Handlers, NEW m \in Messages,
           ReplyStored(h, m) \/ BatchStores(h, m) \/ BatchDrafts(h, m)
    PROVE  Kept' /\ Adds(m, handler[h].question)
<1>0. LogTyped' /\ UNCHANGED panel
    BY LogKept DEF Kept, ReplyStored, BatchStores, BatchDrafts
<1>1. PICK s : s = handler[h]
    OBVIOUS
<1>2. s \in Handler /\ HandlerOK(s) /\ s.at \in {"ai", "queued"}
    BY <1>1, HandlerKept DEF ReplyStored, BatchStores, BatchDrafts
<1>3. PICK q \in Questions : q = s.question /\ q # None
    BY <1>1, <1>2, HandlerKept, NoneIsNone
<1>4. s.mine = None
    BY <1>2 DEF HandlerOK, Replied
<1>5. PICK x : /\ GoodMeta(x) /\ x.question \in {q, None}
               /\ RowBecomes(m, [of |-> q, by |-> "ai"], x)
               /\ ~Stored(m) /\ newest' = m
    BY <1>1, <1>3, MetaFacts, MetaDrafted
    DEF ReplyStored, BatchStores, BatchDrafts, NewRow, RowBecomes
<1>6. PICK t \in Replies : t = [of |-> q, by |-> "ai"]
    BY DEF Replies, Authors
<1>7. t.of = q
    BY <1>6
<1>8. /\ row' \in [Messages -> Row] /\ Grows /\ InStore(newest)'
      /\ \A n \in Messages : RowOK(n)'
      /\ row'[m].text = t /\ row'[m].meta = x /\ Stored(m)'
      /\ \A n \in Messages \ {m} : row'[n] = row[n]
    BY <1>5, <1>6, RowsMove DEF Kept
<1>9. m # None
    BY NoneIsNone
<1>10. PICK r : /\ HandlerBecomes(h, r) /\ HandlerOK(r)'
                /\ \A n \in Messages \ {m} : \A y : HClaim(r, n, y) => Claim(n, y)
                /\ \A y : HClaim(r, m, y) => y = q
    <2>1. CASE ReplyStored(h, m)
        <3>1. PICK r : r = [s EXCEPT !.at = "mode", !.mine = m]
            OBVIOUS
        <3>2. /\ r \in Handler /\ r.at = "mode" /\ r.mine = m /\ r.message = s.message
              /\ r.meta = s.meta /\ r.question = q
            BY <1>2, <1>3, <3>1 DEF Handler, HandlerStages
        <3>3. InStore(m)' /\ InStore(s.message)'
            BY <1>2, <1>8 DEF InStore, HandlerOK, Grows
        <3>4. HandlerOK(r)'
            BY <1>2, <1>3, <1>5, <1>9, <3>2, <3>3 DEF HandlerOK, Replied
        <3>5. HandlerBecomes(h, r)
            BY <1>1, <2>1, <3>1 DEF ReplyStored, HandlerBecomes, Kept, Shapes
        <3>6. \A n \in Messages \ {m} : \A y : HClaim(r, n, y) => HClaim(s, n, y)
            BY <3>2 DEF HClaim
        <3>7. \A n \in Messages \ {m} : \A y : HClaim(r, n, y) => Claim(n, y)
            BY <1>1, <3>6, HandlerKept
        <3>8. s.message # m
            BY <1>2, <1>5, <1>9 DEF HandlerOK, InStore
        <3>9. \A y : HClaim(r, m, y) => y = q
            BY <3>2, <3>8 DEF HClaim
        <3> QED
            BY <3>4, <3>5, <3>7, <3>9
    <2>2. CASE BatchStores(h, m)
        <3>1. HandlerGoes(h, "deliver") /\ "deliver" \in HandlerStages
            BY <2>2 DEF BatchStores, HandlerStages
        <3>2. PICK r : /\ HandlerBecomes(h, r) /\ HandlerOK(r)
                       /\ \A n \in Messages : \A y : HClaim(r, n, y) => HClaim(handler[h], n, y)
            BY <1>1, <1>2, <3>1, Goes DEF Kept, Replied
        <3>3. HandlerOK(r)'
            BY <1>8, <3>2, GrowsRefs
        <3>4. \A n \in Messages : \A y : HClaim(r, n, y) => Claim(n, y)
            BY <3>2, HandlerKept
        <3>5. \A y : ~HClaim(r, m, y)
            BY <1>5, <3>2, Unclaimed
        <3> QED
            BY <3>2, <3>3, <3>4, <3>5
    <2>3. CASE BatchDrafts(h, m)
        <3>1. PICK r : HandlerBecomes(h, r) /\ Rested(r)
            BY <2>3, Ends DEF Kept, BatchDrafts
        <3>2. HandlerOK(r)' /\ \A n \in Messages : \A y : ~HClaim(r, n, y)
            BY <1>8, <3>1, GrowsRefs DEF Rested
        <3> QED
            BY <3>1, <3>2
    <2> QED
        BY <2>1, <2>2, <2>3
<1>11. \A n \in Messages \ {m} : \A y : SClaim(n, y)' => Claim(n, y)
    BY <1>8 DEF SClaim, Stamp, Claim
<1>12. Kept' /\ NoNewClaim({m})
    <2>1. PICK S : S = {m}
        OBVIOUS
    <2>2. Shapes' /\ Refs' /\ NoNewClaim(S)
        BY <1>0, <1>8, <1>10, <1>11, <2>1, HandlerStep DEF Kept
    <2> QED
        BY <2>1, <2>2 DEF Kept
<1>13. ASSUME NEW y, Claim(m, y)' PROVE y = q
    <2>1. SClaim(m, y)' => y = q
        BY <1>5, <1>8 DEF SClaim, Stamp
    <2>2. ASSUME NEW g \in Handlers, HClaim(handler'[g], m, y) PROVE y = q
        <3>1. handler'[g] = IF g = h THEN r ELSE handler[g]
            BY <1>10 DEF HandlerBecomes, Kept, Shapes
        <3> QED
            BY <1>5, <1>10, <2>2, <3>1, Unclaimed
    <2>3. ASSUME NEW p \in Panels PROVE ~PClaim(panel'[p], m, y)
        BY <1>0, <1>5, Unclaimed
    <2> QED
        BY <1>13, <2>1, <2>2, <2>3 DEF Claim, HClaim, PClaim
<1> QED
    BY <1>1, <1>3, <1>5, <1>7, <1>8, <1>12, <1>13 DEF Adds

\* What nothing went wrong with yet.
Quiet == mishaps \cap {"crossed", "outdated"} = {}

\* A message that is there goes on being about its question.
KeepsTopics ==
    \A n \in Messages : Stored(n) => /\ row'[n].text.of = row[n].text.of
                                     /\ Stamp(n) # None => row'[n].meta.question # None

LEMMA TextKept ==
    ASSUME Kept, NEW m \in Messages, NEW t \in Replies, NEW x, RowBecomes(m, t, x), x \in Meta,
           t.of = row[m].text.of, Stamp(m) # None => x.question # None
    PROVE  KeepsTopics
<1>1. [text |-> t, meta |-> x] \in Row
    BY DEF Row
<1>2. ASSUME NEW n \in Messages
      PROVE  row'[n] = IF n = m THEN [text |-> t, meta |-> x] ELSE row[n]
    BY DEF RowBecomes, Kept, Shapes
<1> QED
    BY <1>2 DEF KeepsTopics, Stamp

LEMMA StampKept ==
    ASSUME Kept, NEW h \in Handlers, StampsDraft(h)
    PROVE  Kept' /\ KeepsTopics /\ ("crossed" \notin mishaps' => NoNewClaim({}))
<1>0. LogTyped' /\ UNCHANGED <<panel, newest>>
    BY DEF Kept, Shapes, LogTyped, StampsDraft, Records, Mishaps
<1>1. PICK s : s = handler[h]
    OBVIOUS
<1>2. s \in Handler /\ HandlerOK(s) /\ s.at = "stamp"
    BY <1>1, HandlerKept DEF StampsDraft
<1>3. PICK q \in Questions : q = s.question /\ q # None
    BY <1>1, <1>2, HandlerKept, NoneIsNone
<1>4. PICK m \in Messages : m = s.message /\ Stored(m)
    BY <1>2 DEF HandlerOK, InStore
<1>5. PICK t \in Replies : t = row[m].text
    BY <1>4 DEF Stored, Kept, Shapes, Row
<1>6. PICK x : /\ \E a \in BOOLEAN : x = [question |-> q, pending |-> TRUE, account |-> a]
               /\ row' = [row EXCEPT ![m].meta = x]
    BY <1>1, <1>3, <1>4 DEF StampsDraft
<1>7. GoodMeta(x) /\ x.question = q
    BY <1>6, MetaDrafted
<1>8. RowBecomes(m, t, x)
    <2>1. row[m] \in Row
        BY DEF Kept, Shapes
    <2>2. [row[m] EXCEPT !.meta = x] = [text |-> t, meta |-> x]
        BY <1>5, <2>1 DEF Row
    <2> QED
        BY <1>6, <2>2 DEF RowBecomes, Kept, Shapes
<1>9. /\ row' \in [Messages -> Row] /\ Grows /\ InStore(newest)'
      /\ \A n \in Messages : RowOK(n)'
      /\ row'[m].meta = x
      /\ \A n \in Messages \ {m} : row'[n] = row[n]
    BY <1>0, <1>7, <1>8, RowsMove DEF Kept
<1>10. PICK r : HandlerBecomes(h, r) /\ Rested(r)
    BY Ends DEF Kept, StampsDraft
<1>11. HandlerOK(r)' /\ \A n \in Messages : \A y : ~HClaim(r, n, y)
    BY <1>9, <1>10, GrowsRefs DEF Rested
<1>12. \A n \in Messages \ {m} : \A y : SClaim(n, y)' => Claim(n, y)
    BY <1>9 DEF SClaim, Stamp, Claim
<1>13. KeepsTopics
    BY <1>3, <1>5, <1>7, <1>8, TextKept DEF GoodMeta
<1>14. CASE m = s.mine
    <2>1. \A y : SClaim(m, y)' => y = q
        BY <1>7, <1>9 DEF SClaim, Stamp
    <2>2. Claim(m, q)
        BY <1>1, <1>3, <1>14 DEF Claim, HClaim
    <2>3. \A n \in Messages : \A y : SClaim(n, y)' => Claim(n, y)
        BY <1>12, <2>1, <2>2
    <2>4. PICK S : S = {}
        OBVIOUS
    <2>5. Shapes' /\ Refs' /\ NoNewClaim(S)
        BY <1>0, <1>9, <1>10, <1>11, <2>3, <2>4, HandlerStep DEF Kept
    <2> QED
        BY <1>13, <2>4, <2>5 DEF Kept
<1>15. CASE m # s.mine
    <2>1. "crossed" \in mishaps'
        BY <1>1, <1>4, <1>15 DEF StampsDraft, Records
    <2>2. PICK S : S = {m}
        OBVIOUS
    <2>3. Shapes' /\ Refs' /\ NoNewClaim(S)
        BY <1>0, <1>9, <1>10, <1>11, <1>12, <2>2, HandlerStep DEF Kept
    <2> QED
        BY <1>13, <2>1, <2>3 DEF Kept
<1> QED
    BY <1>14, <1>15

LEMMA ScoreKept ==
    ASSUME Kept, NEW h \in Handlers, StampsScore(h)
    PROVE  Kept' /\ NoNewClaim({}) /\ (Quiet' => KeepsTopics)
<1>0. LogTyped' /\ UNCHANGED <<panel, newest>>
    BY DEF Kept, Shapes, LogTyped, StampsScore, Records, Mishaps
<1>1. PICK s : s = handler[h]
    OBVIOUS
<1>2. s \in Handler /\ HandlerOK(s) /\ s.at = "scored" /\ s.message # None /\ GoodMeta(s.meta)
    BY <1>1, HandlerKept DEF StampsScore, HandlerOK
<1>4. PICK m \in Messages : m = s.message /\ Stored(m)
    BY <1>2 DEF HandlerOK, InStore
<1>5. PICK t \in Replies : t = row[m].text
    BY <1>4 DEF Stored, Kept, Shapes, Row
<1>6. PICK x : /\ \E a \in BOOLEAN : x = [s.meta EXCEPT !.account = a]
               /\ row' = [row EXCEPT ![m].meta = x]
    BY <1>1, <1>2, <1>4 DEF StampsScore, GoodMeta, Meta
<1>7. GoodMeta(x) /\ x.question = s.meta.question
    BY <1>2, <1>6, MetaScored
<1>8. RowBecomes(m, t, x)
    <2>1. row[m] \in Row
        BY DEF Kept, Shapes
    <2>2. [row[m] EXCEPT !.meta = x] = [text |-> t, meta |-> x]
        BY <1>5, <2>1 DEF Row
    <2> QED
        BY <1>6, <2>2 DEF RowBecomes, Kept, Shapes
<1>9. /\ row' \in [Messages -> Row] /\ Grows /\ InStore(newest)'
      /\ \A n \in Messages : RowOK(n)'
      /\ row'[m].meta = x
      /\ \A n \in Messages \ {m} : row'[n] = row[n]
    BY <1>0, <1>7, <1>8, RowsMove DEF Kept
<1>10. PICK r : /\ HandlerBecomes(h, r) /\ HandlerOK(r)
                /\ \A n \in Messages : \A y : HClaim(r, n, y) => HClaim(handler[h], n, y)
    <2>1. HandlerGoes(h, "post") /\ "post" \in HandlerStages
        BY DEF StampsScore, HandlerStages
    <2> QED
        BY <1>1, <1>2, <2>1, Goes DEF Kept, Replied
<1>11. HandlerOK(r)' /\ \A n \in Messages : \A y : HClaim(r, n, y) => Claim(n, y)
    BY <1>9, <1>10, GrowsRefs, HandlerKept
<1>12. \A n \in Messages : \A y : SClaim(n, y)' => Claim(n, y)
    <2>1. \A y : SClaim(m, y)' => HClaim(handler[h], m, y)
        BY <1>1, <1>4, <1>7, <1>9 DEF SClaim, Stamp, HClaim
    <2>2. \A y : SClaim(m, y)' => Claim(m, y)
        BY <2>1, HandlerKept
    <2>3. \A n \in Messages \ {m} : \A y : SClaim(n, y)' => Claim(n, y)
        BY <1>9 DEF SClaim, Stamp, Claim
    <2> QED
        BY <2>2, <2>3
<1>13. Quiet' => KeepsTopics
    <2>1. Quiet' => row[m].meta = s.meta
        BY <1>1, <1>4 DEF StampsScore, Records, Quiet
    <2>2. Quiet' => (Stamp(m) # None => x.question # None)
        BY <1>7, <2>1 DEF Stamp
    <2> QED
        BY <1>5, <1>7, <1>8, <2>2, TextKept DEF GoodMeta
<1>14. PICK S : S = {}
    OBVIOUS
<1>15. Shapes' /\ Refs' /\ NoNewClaim(S)
    BY <1>0, <1>9, <1>10, <1>11, <1>12, <1>14, HandlerStep DEF Kept
<1> QED
    BY <1>13, <1>14, <1>15 DEF Kept

----------------------------------------------------------------------------
(* The panel *)

LEMMA PanelKept ==
    ASSUME Kept, NEW p \in Panels
    PROVE  /\ PanelOK(panel[p]) /\ panel[p] \in Panel
           /\ panel[p].at \in OnMessage => panel[p].message \in Messages /\ Stored(panel[p].message)
           /\ \A n \in Messages : \A q : PClaim(panel[p], n, q) => Claim(n, q)
<1>1. PanelOK(panel[p]) /\ panel[p] \in Panel
    BY DEF Kept, Refs, PanelOK
<1>2. panel[p].at \in OnMessage => panel[p].message \in Messages /\ Stored(panel[p].message)
    BY <1>1 DEF PanelOK, InStore
<1>3. \A n \in Messages : \A q : PClaim(panel[p], n, q) => Claim(n, q)
    BY DEF Claim
<1> QED
    BY <1>1, <1>2, <1>3

LEMMA DraftsStored ==
    ASSUME Kept, NEW m \in Messages
    PROVE  /\ row[m] \in Row /\ GoodMeta(row[m].meta) /\ row[m].meta \in Meta
           /\ Stored(m) => row[m].text \in Replies
           /\ Pending(m) => Stored(m) /\ Stamp(m) \in Questions
           /\ Stamp(m) # None => SClaim(m, Stamp(m)) /\ Claim(m, Stamp(m))
<1>1. row[m] \in Row /\ GoodMeta(row[m].meta) /\ row[m].meta \in Meta /\ (Stamp(m) # None => Stored(m))
    BY DEF Kept, Refs, RowOK, GoodMeta
<1>2. Stored(m) => row[m].text \in Replies
    BY <1>1 DEF Stored, Row
<1>3. Pending(m) => Stamp(m) # None
    BY <1>1 DEF Pending, Stamp, GoodMeta, Flagged
<1>4. Stamp(m) # None => Stamp(m) \in Questions
    BY <1>1 DEF Stamp, Meta
<1>5. Stamp(m) # None => SClaim(m, Stamp(m)) /\ Claim(m, Stamp(m))
    BY DEF SClaim, Claim
<1> QED
    BY <1>1, <1>2, <1>3, <1>4, <1>5

\* A request holds the text it held, or one on the same question.
Follows(r, s) ==
    r.text # None => r.message = s.message /\ s.text # None /\ r.text.of = s.text.of

PanelsFollow == \A p \in Panels : Follows(panel'[p], panel[p])

LEMMA PanelFollows ==
    ASSUME Shapes, NEW p \in Panels, NEW r, PanelBecomes(p, r), Follows(r, panel[p])
    PROVE  PanelsFollow
BY DEF PanelsFollow, Follows, PanelBecomes, Shapes

\* A request that ends has no claim left; a sweep goes on.
Closed(r) == PanelOK(r) /\ r.text = None /\ \A m \in Messages : \A q : ~PClaim(r, m, q)

LEMMA PanelRest ==
    /\ NoPanel \in Panel
    /\ Kept => Closed(NoPanel)
<1>1. NoPanel \in Panel
    BY MetaFacts DEF NoPanel, Panel, PanelStages
<1>2. ASSUME Kept PROVE Closed(NoPanel)
    <2>1. PICK r : r = NoPanel
        OBVIOUS
    <2>2. /\ r.at = "idle" /\ r.message = None /\ r.question = None
          /\ r.text = None /\ r.meta = NoMeta /\ r.todo = {}
        BY <2>1 DEF NoPanel
    <2>3. PanelOK(r)
        BY <1>1, <2>1, <2>2, MetaFacts DEF PanelOK, InStore, OnMessage
    <2>4. \A m \in Messages : \A q : ~PClaim(r, m, q)
        BY <2>2, NoneIsNone DEF PClaim
    <2> QED
        BY <2>1, <2>2, <2>3, <2>4 DEF Closed
<1> QED
    BY <1>1, <1>2

LEMMA PanelRests ==
    ASSUME Kept, NEW todo \in SUBSET Messages, \A m \in todo : Stored(m)
    PROVE  Closed([NoPanel EXCEPT !.at = "sweep", !.todo = todo])
<1>3. PICK r : r = [NoPanel EXCEPT !.at = "sweep", !.todo = todo]
    OBVIOUS
<1>4. /\ r \in Panel /\ r.at = "sweep" /\ r.message = None /\ r.question = None
      /\ r.text = None /\ r.meta = NoMeta /\ r.todo = todo
    BY <1>3, PanelRest DEF Panel, PanelStages, NoPanel
<1>5. PanelOK(r)
    BY <1>4, MetaFacts DEF PanelOK, InStore, OnMessage
<1>6. \A m \in Messages : \A q : ~PClaim(r, m, q)
    BY <1>4, NoneIsNone DEF PClaim
<1> QED
    BY <1>3, <1>4, <1>5, <1>6 DEF Closed

LEMMA PanelCloses ==
    ASSUME Kept, LogTyped', UNCHANGED <<row, newest, handler>>, NEW p \in Panels,
           NEW r, PanelBecomes(p, r), Closed(r)
    PROVE  Kept' /\ NoNewClaim({}) /\ PanelsFollow
<1>1. PanelOK(r) /\ \A n \in Messages : \A q : PClaim(r, n, q) => Claim(n, q)
    BY DEF Closed
<1>2. PanelsFollow
    BY PanelFollows DEF Closed, Follows, Kept
<1> QED
    BY <1>1, <1>2, PanelMoves DEF Kept

LEMMA FailsKept ==
    ASSUME Kept, NEW p \in Panels, PanelFails(p) \/ DiscardsAll(p)
    PROVE  Kept' /\ NoNewClaim({}) /\ PanelsFollow
<1>1. CASE PanelFails(p)
    <2>1. LogTyped' /\ UNCHANGED <<row, newest, handler>>
        BY <1>1 DEF Kept, Shapes, LogTyped, PanelFails, Records, Mishaps
    <2>2. PanelBecomes(p, NoPanel)
        BY <1>1 DEF PanelFails, PanelEnds, PanelBecomes
    <2>3. Closed(NoPanel)
        BY PanelRest
    <2> QED
        BY <2>1, <2>2, <2>3, PanelCloses
<1>2. CASE DiscardsAll(p)
    <2>1. PICK old \in SUBSET Messages :
              /\ \A m \in old : Pending(m)
              /\ panel' = [panel EXCEPT ![p] = [NoPanel EXCEPT !.at = "sweep", !.todo = old]]
              /\ dropped' = dropped \cup {Stamp(m) : m \in old}
        BY <1>2 DEF DiscardsAll
    <2>2. \A m \in old : Stored(m) /\ Stamp(m) \in Questions
        BY <2>1, DraftsStored
    <2>3. LogTyped' /\ UNCHANGED <<row, newest, handler>>
        BY <1>2, <2>1, <2>2 DEF Kept, Shapes, LogTyped, DiscardsAll
    <2>4. Closed([NoPanel EXCEPT !.at = "sweep", !.todo = old])
        BY <2>2, PanelRests
    <2> QED
        BY <2>1, <2>3, <2>4, PanelCloses DEF PanelBecomes
<1> QED
    BY <1>1, <1>2

LEMMA SweepKept ==
    ASSUME Kept, NEW p \in Panels, NEW m \in Messages, DiscardsNext(p, m)
    PROVE  Kept' /\ NoNewClaim({}) /\ PanelsFollow
<1>0. LogTyped' /\ UNCHANGED <<row, newest, handler>>
    BY LogKept DEF Kept, DiscardsNext
<1>1. PICK s : s = panel[p]
    OBVIOUS
<1>2. s \in Panel /\ PanelOK(s) /\ s.at = "sweep" /\ m \in s.todo
    BY <1>1, PanelKept DEF DiscardsNext
<1>3. PICK r : r = [s EXCEPT !.at = "clear", !.message = m, !.todo = s.todo \ {m}]
    OBVIOUS
<1>4. PanelBecomes(p, r)
    BY <1>1, <1>3 DEF DiscardsNext, PanelBecomes, Kept, Shapes
<1>5. /\ s.question = None /\ s.text = None /\ s.meta = NoMeta
      /\ \A n \in s.todo : Stored(n)
    BY <1>2 DEF PanelOK
<1>6. /\ r \in Panel /\ r.at = "clear" /\ r.message = m /\ r.todo = s.todo \ {m}
      /\ r.question = None /\ r.text = None /\ r.meta = NoMeta
    BY <1>2, <1>3, <1>5 DEF Panel, PanelStages
<1>7. PanelOK(r)
    BY <1>2, <1>5, <1>6, MetaFacts, NoneIsNone DEF PanelOK, InStore, OnMessage
<1>8. \A n \in Messages : \A q : ~PClaim(r, n, q)
    BY <1>6, MetaFacts DEF PClaim
<1> QED
    BY <1>0, <1>4, <1>6, <1>7, <1>8, PanelCloses DEF Closed

\* A request goes on to another stage, with its text and what it read last.
LEMMA Advances ==
    ASSUME Kept, LogTyped', UNCHANGED <<row, newest, handler>>, NEW p \in Panels,
           panel[p].at \in {"look", "send", "clear"},
           NEW stage \in OnMessage \ {"look"}, NEW t \in Replies \cup {None}, NEW x,
           x = panel[p].meta \/ x = row[panel[p].message].meta,
           stage \in {"send", "edit", "regenerate"} => t # None,
           stage = "send" => x.question # None /\ panel[p].at = "look",
           t # None => panel[p].text # None /\ t.of = panel[p].text.of,
           panel' = [panel EXCEPT ![p] = [@ EXCEPT !.at = stage, !.text = t, !.meta = x]]
    PROVE  Kept' /\ NoNewClaim({}) /\ PanelsFollow
<1>1. PICK s : s = panel[p]
    OBVIOUS
<1>2. s \in Panel /\ PanelOK(s) /\ s.at \in OnMessage /\ s.message \in Messages
    BY <1>1, PanelKept DEF OnMessage
<1>3. PICK r : r = [s EXCEPT !.at = stage, !.text = t, !.meta = x]
    OBVIOUS
<1>4. PanelBecomes(p, r)
    BY <1>1, <1>3 DEF PanelBecomes, Kept, Shapes
<1>5. GoodMeta(x)
    BY <1>1, <1>2, DraftsStored DEF PanelOK
<1>6. x \in Meta /\ stage \in PanelStages
    BY <1>5 DEF GoodMeta, OnMessage, PanelStages
<1>7. /\ r \in Panel /\ r.at = stage /\ r.text = t /\ r.meta = x
      /\ r.message = s.message /\ r.question = s.question /\ r.todo = s.todo
    BY <1>2, <1>3, <1>6 DEF Panel
<1>8. PanelOK(r)
    <2>1. stage = "send" => s.question # None
        BY <1>1, <1>2 DEF PanelOK
    <2>2. stage # "look" /\ stage # "sweep"
        BY DEF OnMessage
    <2> QED
        BY <1>1, <1>2, <1>5, <1>7, <2>1, <2>2, NoneIsNone DEF PanelOK
<1>9. \A n \in Messages : \A q : PClaim(r, n, q) => PClaim(s, n, q) \/ SClaim(n, q)
    BY <1>1, <1>7 DEF PClaim, SClaim, Stamp
<1>10. \A n \in Messages : \A q : PClaim(r, n, q) => Claim(n, q)
    BY <1>1, <1>9, PanelKept DEF Claim
<1>11. PanelsFollow
    BY <1>1, <1>4, <1>7, PanelFollows DEF Follows, Kept
<1> QED
    BY <1>4, <1>8, <1>10, <1>11, PanelMoves DEF Kept

LEMMA RequestKept ==
    ASSUME Kept, NEW p \in Panels,
           Releases(p) \/ Discards(p) \/ ClearReads(p) \/ AutosaveReads(p) \/ RegenerateReads(p)
    PROVE  Kept' /\ NoNewClaim({}) /\ PanelsFollow
<1>1. PICK s : s = panel[p]
    OBVIOUS
<1>2. s \in Panel /\ PanelOK(s) /\ s.at \in {"look", "clear"} /\ s.message \in Messages
    BY <1>1, PanelKept DEF Releases, Discards, ClearReads, AutosaveReads, RegenerateReads, OnMessage
<1>3. s.text \in Replies \cup {None} /\ (s.at = "look" => s.text \in Replies)
    BY <1>2, NoneIsNone DEF Panel, PanelOK
<1>4. s.at = "look" => s.question \in Questions
    BY <1>2 DEF Panel, PanelOK
<1>5. LogTyped' /\ UNCHANGED <<row, newest, handler>>
    BY <1>1, <1>4, LogKept
    DEF Releases, Discards, ClearReads, AutosaveReads, RegenerateReads, Kept, Shapes, LogTyped
<1>6. PICK stage \in OnMessage \ {"look"}, t \in Replies \cup {None},
           x \in {s.meta, row[s.message].meta} :
          /\ panel' = [panel EXCEPT ![p] = [@ EXCEPT !.at = stage, !.text = t, !.meta = x]]
          /\ stage \in {"send", "edit", "regenerate"} => t # None
          /\ stage = "send" => x.question # None /\ s.at = "look"
          /\ t # None => s.text # None /\ t.of = s.text.of
    <2>0. /\ "send" \in OnMessage \ {"look"} /\ "edit" \in OnMessage \ {"look"}
          /\ "regenerate" \in OnMessage \ {"look"}
          /\ "clear" \in OnMessage \ {"look"} /\ "cleared" \in OnMessage \ {"look"}
        BY DEF OnMessage
    <2>a. panel \in [Panels -> Panel]
        BY DEF Kept, Shapes
    <2>1. CASE Releases(p)
        <3>1. PICK t \in {s.text, Edited(s.text)} :
                  /\ panel' = [panel EXCEPT ![p].at = "send", ![p].text = t,
                                            ![p].meta = row[s.message].meta]
                  /\ s.at = "look" /\ Stamp(s.message) # None
            BY <1>1, <2>1 DEF Releases
        <3>2. t \in Replies /\ t # None /\ t.of = s.text.of /\ s.text # None
            BY <1>3, <3>1, EditedTyped, NoneIsNone
        <3>3. row[s.message].meta.question # None
            BY <3>1 DEF Stamp
        <3>4. panel' = [panel EXCEPT ![p] = [@ EXCEPT !.at = "send", !.text = t,
                                                       !.meta = row[s.message].meta]]
            BY <2>a, <3>1
        <3> QED
            BY <2>0, <3>1, <3>2, <3>3, <3>4
    <2>2. CASE Discards(p)
        <3>1. panel' = [panel EXCEPT ![p].at = "clear", ![p].text = None]
            BY <2>2 DEF Discards
        <3>2. panel' = [panel EXCEPT ![p] = [@ EXCEPT !.at = "clear", !.text = None,
                                                       !.meta = s.meta]]
            BY <1>1, <1>2, <2>a, <3>1 DEF Panel
        <3> QED
            BY <2>0, <3>2
    <2>3. CASE ClearReads(p)
        <3>1. panel' = [panel EXCEPT ![p].at = "cleared", ![p].meta = row[s.message].meta]
            BY <1>1, <2>3 DEF ClearReads
        <3>2. panel' = [panel EXCEPT ![p] = [@ EXCEPT !.at = "cleared", !.text = s.text,
                                                       !.meta = row[s.message].meta]]
            BY <1>1, <1>2, <2>a, <3>1 DEF Panel
        <3> QED
            BY <1>3, <2>0, <3>2
    <2>4. CASE AutosaveReads(p)
        <3>1. /\ s.at = "look"
              /\ panel' = [panel EXCEPT ![p].at = "edit", ![p].text = Edited(s.text),
                                        ![p].meta = row[s.message].meta]
            BY <1>1, <2>4 DEF AutosaveReads
        <3>2. panel' = [panel EXCEPT ![p] = [@ EXCEPT !.at = "edit", !.text = Edited(s.text),
                                                       !.meta = row[s.message].meta]]
            BY <2>a, <3>1
        <3>3. /\ Edited(s.text) \in Replies /\ Edited(s.text) # None
              /\ Edited(s.text).of = s.text.of /\ s.text # None
            BY <1>3, <3>1, EditedTyped, NoneIsNone
        <3> QED
            BY <2>0, <3>2, <3>3
    <2>5. CASE RegenerateReads(p)
        <3>1. /\ s.at = "look"
              /\ panel' = [panel EXCEPT ![p].at = "regenerate", ![p].meta = row[s.message].meta]
            BY <1>1, <2>5 DEF RegenerateReads
        <3>2. panel' = [panel EXCEPT ![p] = [@ EXCEPT !.at = "regenerate", !.text = s.text,
                                                       !.meta = row[s.message].meta]]
            BY <1>1, <1>2, <2>a, <3>1 DEF Panel
        <3>3. s.text # None
            BY <1>3, <3>1, NoneIsNone
        <3> QED
            BY <1>3, <2>0, <3>2, <3>3
    <2> QED
        BY <2>1, <2>2, <2>3, <2>4, <2>5
<1> QED
    BY <1>1, <1>2, <1>5, <1>6, Advances

LEMMA LooksKept ==
    ASSUME Kept, NEW p \in Panels, NEW m \in Messages, Looks(p, m)
    PROVE  /\ Kept' /\ NoNewClaim({})
           /\ panel'[p].message = m /\ panel'[p].text = row[m].text /\ Stamp(m) # None
           /\ \A g \in Panels \ {p} : Follows(panel'[g], panel[g])
<1>0. LogTyped' /\ UNCHANGED <<row, newest, handler>>
    BY LogKept DEF Kept, Looks
<1>1. /\ Stored(m) /\ Stamp(m) \in Questions /\ row[m].text \in Replies
      /\ Claim(m, Stamp(m)) /\ Stamp(m) # None
    BY DraftsStored, NoneIsNone DEF Looks
<1>2. PICK r : r = [NoPanel EXCEPT !.at = "look", !.message = m, !.question = Stamp(m),
                                   !.text = row[m].text]
    OBVIOUS
<1>3. PanelBecomes(p, r)
    BY <1>2 DEF Looks, PanelBecomes
<1>4. NoPanel \in Panel
    BY MetaFacts DEF NoPanel, Panel, PanelStages
<1>5. /\ r \in Panel /\ r.at = "look" /\ r.message = m /\ r.question = Stamp(m)
      /\ r.text = row[m].text /\ r.meta = NoMeta /\ r.todo = {}
    BY <1>1, <1>2, <1>4 DEF Panel, PanelStages, NoPanel
<1>6. PanelOK(r)
    BY <1>1, <1>5, MetaFacts, NoneIsNone DEF PanelOK, InStore, OnMessage
<1>7. \A n \in Messages : \A q : PClaim(r, n, q) => Claim(n, q)
    BY <1>1, <1>5, MetaFacts DEF PClaim
<1>8. Kept' /\ NoNewClaim({})
    BY <1>0, <1>3, <1>6, <1>7, PanelMoves DEF Kept
<1>9. panel'[p] = r /\ \A g \in Panels \ {p} : panel'[g] = panel[g]
    BY <1>3 DEF PanelBecomes, Kept, Shapes
<1> QED
    BY <1>1, <1>5, <1>8, <1>9 DEF Follows

LEMMA ReleaseKept ==
    ASSUME Kept, NEW p \in Panels, ReleaseSends(p)
    PROVE  Kept' /\ NoNewClaim({}) /\ PanelsFollow
<1>1. PICK s : s = panel[p]
    OBVIOUS
<1>2. s \in Panel /\ PanelOK(s) /\ s.at = "send" /\ s.message \in Messages
    BY <1>1, PanelKept DEF ReleaseSends, OnMessage
<1>3. s.text \in Replies /\ s.meta.question \in Questions
    BY <1>2 DEF Panel, PanelOK, Meta
<1>4. given' \in [Questions -> Replies \cup {None}] /\ accepted' \subseteq Questions
    BY <1>1, <1>3, TakenTyped DEF ReleaseSends, Kept
<1>5. mishaps' \subseteq Mishaps /\ dropped' = dropped
    BY DEF ReleaseSends, Mishaps, Kept, Shapes
<1>6. LogTyped' /\ UNCHANGED <<row, newest, handler>>
    BY <1>4, <1>5 DEF LogTyped, Kept, Shapes, ReleaseSends
<1>7. CASE PanelEnds(p)
    BY <1>6, <1>7, PanelRest, PanelCloses DEF PanelEnds, PanelBecomes
<1>8. CASE panel' = [panel EXCEPT ![p].at = "clear"]
    <2>1. panel' = [panel EXCEPT ![p] = [@ EXCEPT !.at = "clear", !.text = s.text,
                                                   !.meta = s.meta]]
        BY <1>1, <1>2, <1>8 DEF Panel, Kept, Shapes
    <2>2. PICK stage \in OnMessage \ {"look"}, t \in Replies \cup {None}, x \in {s.meta} :
              stage = "clear" /\ t = s.text
        BY <1>3 DEF OnMessage
    <2>3. panel' = [panel EXCEPT ![p] = [@ EXCEPT !.at = stage, !.text = t, !.meta = x]]
        BY <2>1, <2>2
    <2>4. /\ stage \in {"send", "edit", "regenerate"} => t # None
          /\ stage = "send" => x.question # None /\ panel[p].at = "look"
          /\ t # None => panel[p].text # None /\ t.of = panel[p].text.of
          /\ x = panel[p].meta /\ panel[p].at \in {"look", "send", "clear"}
        BY <1>1, <1>2, <2>2
    <2> QED
        BY <1>6, <2>3, <2>4, Advances
<1> QED
    BY <1>7, <1>8 DEF ReleaseSends

----------------------------------------------------------------------------
(* As long as everything is quiet, a text is about what refers to it *)

Fits == \A m \in Messages : \A q : Claim(m, q) => row[m].text.of = q

Apt(p) == panel[p].text # None /\ panel[p].message # None
             => Stamp(panel[p].message) = panel[p].text.of

Settled == Quiet => Fits /\ \A p \in Panels : Apt(p)

LEMMA AptText ==
    ASSUME Kept, Fits, NEW p \in Panels, Apt(p), panel[p].at \in OnMessage, panel[p].text # None
    PROVE  /\ Stamp(panel[p].message) \in Questions /\ Stamp(panel[p].message) # None
           /\ Stamp(panel[p].message) = panel[p].text.of
           /\ row[panel[p].message].text.of = panel[p].text.of
<1>1. PICK s : s = panel[p]
    OBVIOUS
<1>2. s \in Panel /\ s.message \in Messages /\ s.text \in Replies /\ s.text.of \in Questions
    BY <1>1, PanelKept DEF Panel, Replies
<1>3. Stamp(s.message) = s.text.of
    BY <1>1, <1>2, NoneIsNone DEF Apt
<1>4. Stamp(s.message) # None
    BY <1>2, <1>3, NoneIsNone
<1>5. row[s.message].text.of = Stamp(s.message)
    BY <1>2, <1>4, DraftsStored DEF Fits
<1> QED
    BY <1>1, <1>2, <1>3, <1>4, <1>5

\* A request writes its message and closes.
LEMMA PanelWrites ==
    ASSUME Kept, LogTyped', handler' = handler, NEW p \in Panels, panel[p].at \in OnMessage,
           NEW t \in Replies, NEW x, GoodMeta(x), x.question = panel[p].meta.question,
           RowBecomes(panel[p].message, t, x), newest' \in {newest, panel[p].message},
           NEW r, PanelBecomes(p, r), Closed(r)
    PROVE  Kept' /\ NoNewClaim({}) /\ PanelsFollow
<1>1. PICK m \in Messages : m = panel[p].message
    BY PanelKept
<1>2. /\ row' \in [Messages -> Row] /\ Grows /\ InStore(newest)'
      /\ \A n \in Messages : RowOK(n)'
      /\ row'[m].meta = x
      /\ \A n \in Messages \ {m} : row'[n] = row[n]
    BY <1>1, RowsMove DEF Kept
<1>3. PanelOK(r)' /\ \A n \in Messages : \A q : PClaim(r, n, q) => Claim(n, q)
    BY <1>2, GrowsRefs DEF Closed
<1>4. ASSUME NEW n \in Messages, NEW q, SClaim(n, q)' PROVE Claim(n, q)
    <2>1. CASE n = m
        <3>1. PClaim(panel[p], m, q)
            BY <1>1, <1>2, <1>4, <2>1 DEF SClaim, Stamp, PClaim
        <3> QED
            BY <2>1, <3>1, PanelKept
    <2>2. CASE n # m
        BY <1>2, <1>4, <2>2 DEF SClaim, Stamp, Claim
    <2> QED
        BY <2>1, <2>2
<1>5. Shapes' /\ Refs' /\ NoNewClaim({})
    BY <1>2, <1>3, <1>4, PanelStep DEF Kept
<1>6. PanelsFollow
    BY PanelFollows DEF Closed, Follows, Kept
<1> QED
    BY <1>5, <1>6 DEF Kept

LEMMA WriteKept ==
    ASSUME Kept, Settled, NEW p \in Panels, ClearWrites(p) \/ AutosaveWrites(p) \/ RegenerateWrites(p)
    PROVE  Kept' /\ NoNewClaim({}) /\ PanelsFollow /\ (Quiet' => KeepsTopics)
<1>0. LogTyped' /\ UNCHANGED handler
    BY DEF Kept, Shapes, LogTyped, ClearWrites, AutosaveWrites, RegenerateWrites, Records, Mishaps
<1>1. PICK s : s = panel[p]
    OBVIOUS
<1>2. /\ s \in Panel /\ PanelOK(s) /\ s.at \in OnMessage
      /\ s.message \in Messages /\ Stored(s.message)
    BY <1>1, PanelKept DEF ClearWrites, AutosaveWrites, RegenerateWrites, OnMessage
<1>3. PICK m \in Messages : m = s.message /\ row[m].text \in Replies /\ row[m] \in Row
    BY <1>2, DraftsStored
<1>4. s.meta \in Meta /\ GoodMeta(s.meta) /\ s.meta.question \in Questions \cup {None}
    BY <1>2 DEF PanelOK, GoodMeta, Meta
<1>5. Quiet' => Quiet /\ row[m].meta = s.meta
    BY <1>1, <1>3
    DEF ClearWrites, AutosaveWrites, RegenerateWrites, Records, Outdated, Quiet
<1>6. Quiet' /\ s.text # None => /\ Stamp(m) = s.text.of /\ Stamp(m) \in Questions
                                 /\ row[m].text.of = s.text.of
    BY <1>1, <1>2, <1>3, <1>5, AptText DEF Settled
<1>7. PICK t, x, r :
          /\ t \in Replies /\ GoodMeta(x) /\ x.question = s.meta.question
          /\ RowBecomes(m, t, x) /\ newest' \in {newest, m}
          /\ PanelBecomes(p, r) /\ Closed(r)
          /\ Quiet' => t.of = row[m].text.of
    <2>1. CASE ClearWrites(p)
        <3>1. PICK x : x = [s.meta EXCEPT !.pending = FALSE]
            OBVIOUS
        <3>2. GoodMeta(x) /\ x.question = s.meta.question
            BY <1>4, <3>1, MetaUnflagged
        <3>3. PICK t \in Replies : t = IF s.text = None THEN row[m].text ELSE s.text
            BY <1>2, <1>3 DEF Panel
        <3>4. RowBecomes(m, t, x)
            BY <1>1, <1>3, <2>1, <3>1, <3>3 DEF ClearWrites, RowBecomes, Kept, Shapes
        <3>5. Quiet' => t.of = row[m].text.of
            BY <1>6, <3>3
        <3>6. s.todo \in SUBSET Messages /\ \A n \in s.todo : Stored(n)
            BY <1>2 DEF Panel, PanelOK
        <3>7. PICK r : PanelBecomes(p, r) /\ Closed(r)
            BY <1>1, <2>1, <3>6, PanelRest, PanelRests DEF ClearWrites, PanelEnds, PanelBecomes
        <3> QED
            BY <2>1, <3>2, <3>4, <3>5, <3>7 DEF ClearWrites
    <2>2. CASE AutosaveWrites(p)
        <3>1. s.text \in Replies
            BY <1>1, <1>2, <2>2 DEF Panel, PanelOK, AutosaveWrites
        <3>2. RowBecomes(m, s.text, s.meta) /\ newest' = newest
            BY <1>1, <1>3, <2>2 DEF AutosaveWrites, RowBecomes
        <3>3. Quiet' => s.text.of = row[m].text.of
            BY <1>6, <3>1, NoneIsNone
        <3>4. PanelBecomes(p, NoPanel) /\ Closed(NoPanel)
            BY <2>2, PanelRest DEF AutosaveWrites, PanelEnds, PanelBecomes
        <3> QED
            BY <1>4, <3>1, <3>2, <3>3, <3>4
    <2>3. CASE RegenerateWrites(p)
        <3>1. PICK q \in Questions :
                  /\ s.meta.question \in {q, None}
                  /\ row' = [row EXCEPT ![m] = [text |-> [of |-> q, by |-> "again"],
                                                 meta |-> s.meta]]
            BY <1>1, <1>3, <2>3 DEF RegenerateWrites
        <3>2. PICK t \in Replies : t = [of |-> q, by |-> "again"]
            BY DEF Replies, Authors
        <3>3. t.of = q /\ RowBecomes(m, t, s.meta)
            BY <3>1, <3>2 DEF RowBecomes
        <3>4. s.text # None
            BY <1>1, <1>2, <2>3 DEF PanelOK, RegenerateWrites
        <3>5. Quiet' => t.of = row[m].text.of
            BY <1>5, <1>6, <3>1, <3>3, <3>4, NoneIsNone DEF Stamp
        <3>6. PanelBecomes(p, NoPanel) /\ Closed(NoPanel) /\ newest' = m
            BY <1>1, <1>3, <2>3, PanelRest DEF RegenerateWrites, PanelEnds, PanelBecomes
        <3> QED
            BY <1>4, <3>3, <3>5, <3>6
    <2> QED
        BY <2>1, <2>2, <2>3
<1>8. Kept' /\ NoNewClaim({}) /\ PanelsFollow
    BY <1>0, <1>1, <1>2, <1>3, <1>7, PanelWrites
<1>9. Quiet' => (Stamp(m) # None => x.question # None)
    BY <1>5, <1>7 DEF Stamp
<1>10. Quiet' => KeepsTopics
    BY <1>7, <1>9, TextKept DEF GoodMeta
<1> QED
    BY <1>8, <1>10

\* Unless a mark has met another message, one question refers to a message.
NoClash ==
    "crossed" \notin mishaps =>
        \A m \in Messages : \A q, x : Claim(m, q) /\ Claim(m, x) => q = x

IInv == Kept /\ NoClash /\ Settled

LEMMA SameTopics ==
    ASSUME row' = row PROVE KeepsTopics
BY DEF KeepsTopics, Stamp

LEMMA QuietBefore ==
    ASSUME mishaps \subseteq mishaps'
    PROVE  /\ Quiet' => Quiet /\ "crossed" \notin mishaps'
           /\ "crossed" \notin mishaps' => "crossed" \notin mishaps
BY DEF Quiet

\* No new claim: the steps of everyone but a new message.
LEMMA QuietFits ==
    ASSUME Kept, Kept', Fits, NoNewClaim({}), KeepsTopics PROVE Fits'
<1> SUFFICES ASSUME NEW m \in Messages, NEW q, Claim(m, q)' PROVE row'[m].text.of = q
    BY DEF Fits
<1>1. Claim(m, q)
    BY DEF NoNewClaim
<1>2. Stored(m)
    BY <1>1, Unclaimed DEF Claim
<1> QED
    BY <1>1, <1>2 DEF Fits, KeepsTopics

LEMMA QuietApt ==
    ASSUME Kept, Kept', Fits, Fits', KeepsTopics, NEW p \in Panels, Apt(p),
           Follows(panel'[p], panel[p])
    PROVE  Apt(p)'
<1>1. PICK r, s : r = panel'[p] /\ s = panel[p]
    OBVIOUS
<1>2. SUFFICES ASSUME r.text # None, r.message # None PROVE row'[r.message].meta.question = r.text.of
    BY <1>1 DEF Apt, Stamp
<1>3. r.message = s.message /\ s.text # None /\ r.text.of = s.text.of
    BY <1>1, <1>2 DEF Follows
<1>4. PICK m \in Messages : m = s.message /\ Stored(m)
    BY <1>1, <1>2, <1>3, PanelKept DEF PanelOK, InStore
<1>5. Stamp(m) = s.text.of /\ s.text \in Replies
    BY <1>1, <1>2, <1>3, <1>4, PanelKept DEF Apt, Panel
<1>6. Stamp(m) # None
    BY <1>5, NoneIsNone DEF Replies
<1>7. row[m].text.of = Stamp(m)
    BY <1>6, DraftsStored DEF Fits
<1>8. row'[m].meta.question # None /\ row'[m].text.of = row[m].text.of
    BY <1>4, <1>6 DEF KeepsTopics
<1>9. PICK y : y = row'[m].meta.question
    OBVIOUS
<1>10. SClaim(m, y)'
    BY <1>8, <1>9 DEF SClaim, Stamp
<1>11. Claim(m, y)'
    BY <1>10 DEF Claim
<1>12. row'[m].text.of = y
    BY <1>11 DEF Fits
<1> QED
    BY <1>3, <1>4, <1>5, <1>7, <1>8, <1>9, <1>12

LEMMA QuietStep ==
    ASSUME IInv, Kept', mishaps \subseteq mishaps',
           "crossed" \notin mishaps' => NoNewClaim({}),
           Quiet' => KeepsTopics, PanelsFollow
    PROVE  IInv'
<1>1. NoClash'
    <2> SUFFICES ASSUME "crossed" \notin mishaps', NEW m \in Messages, NEW q, NEW x,
                        Claim(m, q)', Claim(m, x)'
                 PROVE  q = x
        BY DEF NoClash
    <2>1. Claim(m, q) /\ Claim(m, x)
        BY DEF NoNewClaim
    <2> QED
        BY <2>1, QuietBefore DEF IInv, NoClash
<1>2. ASSUME Quiet' PROVE Fits' /\ \A p \in Panels : Apt(p)'
    <2>1. Fits /\ (\A p \in Panels : Apt(p)) /\ NoNewClaim({}) /\ KeepsTopics
        BY <1>2, QuietBefore DEF IInv, Settled
    <2>2. Fits'
        BY <2>1, QuietFits DEF IInv
    <2> QED
        BY <2>1, <2>2, QuietApt DEF IInv, PanelsFollow
<1> QED
    BY <1>1, <1>2 DEF IInv, Settled

LEMMA AddStep ==
    ASSUME IInv, Kept', mishaps' = mishaps, panel' = panel,
           NEW m \in Messages, NEW q, Adds(m, q)
    PROVE  IInv'
<1>1. ASSUME NEW n \in Messages \ {m}, NEW x, Claim(n, x)' PROVE Claim(n, x)
    BY <1>1 DEF Adds, NoNewClaim
<1>2. NoClash'
    <2> SUFFICES ASSUME "crossed" \notin mishaps', NEW n \in Messages, NEW y, NEW x,
                        Claim(n, y)', Claim(n, x)'
                 PROVE  y = x
        BY DEF NoClash
    <2>1. CASE n = m
        BY <2>1 DEF Adds
    <2>2. CASE n # m
        BY <1>1, <2>2 DEF IInv, NoClash
    <2> QED
        BY <2>1, <2>2
<1>3. ASSUME Quiet' PROVE Fits'
    <2>0. Fits
        BY <1>3 DEF IInv, Settled, Quiet
    <2> SUFFICES ASSUME NEW n \in Messages, NEW x, Claim(n, x)' PROVE row'[n].text.of = x
        BY DEF Fits
    <2>1. CASE n = m
        BY <2>1 DEF Adds
    <2>2. CASE n # m
        BY <1>1, <2>0, <2>2 DEF Fits, Adds
    <2> QED
        BY <2>1, <2>2
<1>4. ASSUME Quiet', NEW p \in Panels PROVE Apt(p)'
    <2>1. Apt(p) /\ PanelOK(panel[p])
        BY <1>4, PanelKept DEF IInv, Settled, Quiet
    <2>2. panel[p].message # m
        BY <2>1, NoneIsNone DEF PanelOK, InStore, Adds
    <2>3. panel[p].message # None => row'[panel[p].message] = row[panel[p].message]
        BY <2>1, <2>2 DEF PanelOK, InStore, Adds
    <2> QED
        BY <2>1, <2>3 DEF Apt, Stamp
<1> QED
    BY <1>2, <1>3, <1>4 DEF IInv, Settled

LEMMA LookStep ==
    ASSUME IInv, NEW p \in Panels, NEW m \in Messages, Looks(p, m)
    PROVE  IInv'
<1>0. UNCHANGED <<row, mishaps>>
    BY DEF Looks
<1>1. /\ Kept' /\ NoNewClaim({})
      /\ panel'[p].message = m /\ panel'[p].text = row[m].text /\ Stamp(m) # None
      /\ \A g \in Panels \ {p} : Follows(panel'[g], panel[g])
    BY LooksKept DEF IInv
<1>2. NoClash'
    BY <1>0, <1>1 DEF IInv, NoClash, NoNewClaim
<1>3. ASSUME Quiet' PROVE Fits' /\ \A g \in Panels : Apt(g)'
    <2>1. Fits /\ (\A g \in Panels : Apt(g)) /\ KeepsTopics
        BY <1>0, <1>3, SameTopics DEF IInv, Settled, Quiet
    <2>2. Fits'
        BY <1>1, <2>1, QuietFits DEF IInv
    <2>3. ASSUME NEW g \in Panels \ {p} PROVE Apt(g)'
        BY <1>1, <2>1, <2>2, QuietApt DEF IInv
    <2>4. row[m].text.of = Stamp(m)
        BY <1>1, <2>1, DraftsStored DEF IInv, Fits
    <2>5. Apt(p)'
        BY <1>0, <1>1, <2>4 DEF Apt, Stamp
    <2> QED
        BY <2>2, <2>3, <2>5
<1> QED
    BY <1>1, <1>2, <1>3 DEF IInv, Settled

----------------------------------------------------------------------------
(* The invariant *)

LEMMA InitInv == ReviewInit => IInv
<1> SUFFICES ASSUME ReviewInit PROVE IInv
    OBVIOUS
<1>1. /\ \A m \in Messages : row[m] = [text |-> None, meta |-> NoMeta]
      /\ \A h \in Handlers : handler[h] = NoHandler
      /\ \A p \in Panels : panel[p] = NoPanel
      /\ newest = None /\ mishaps = {}
    BY DEF ReviewInit
<1>2. ASSUME NEW m \in Messages PROVE row[m] \in Row /\ RowOK(m) /\ Stamp(m) = None
    <2>1. row[m].text = None /\ row[m].meta = NoMeta
        BY <1>1
    <2>2. row[m] \in Row
        BY <1>1, MetaFacts DEF Row
    <2> QED
        BY <2>1, <2>2, MetaFacts DEF RowOK, Stamp
<1>3. Rested(NoHandler) /\ NoHandler \in Handler
    BY HandlerRests DEF Rested, HandlerOK
<1>4. PanelOK(NoPanel)
    <2>1. PICK r : r = NoPanel
        OBVIOUS
    <2>2. /\ r.at = "idle" /\ r.message = None /\ r.meta = NoMeta /\ r.todo = {}
        BY <2>1 DEF NoPanel
    <2> QED
        BY <2>1, <2>2, PanelRest, MetaFacts DEF PanelOK, InStore, OnMessage
<1>5. Shapes
    BY <1>2, <1>3, PanelRest DEF ReviewInit, Shapes, Mishaps
<1>6. Refs
    BY <1>1, <1>2, <1>3, <1>4 DEF Refs, Rested, InStore
<1>7. \A m \in Messages : \A q : ~Claim(m, q)
    <2>1. \A m \in Messages : \A q : ~SClaim(m, q)
        BY <1>2 DEF SClaim
    <2>2. \A h \in Handlers : \A m \in Messages : \A q : ~HClaim(handler[h], m, q)
        BY <1>1, <1>3 DEF Rested
    <2>3. NoPanel.message = None
        BY DEF NoPanel
    <2>4. \A p \in Panels : \A m \in Messages : \A q : ~PClaim(panel[p], m, q)
        BY <1>1, <2>3, NoneIsNone DEF PClaim
    <2> QED
        BY <2>1, <2>2, <2>4 DEF Claim
<1>8. \A p \in Panels : Apt(p)
    <2>1. NoPanel.message = None
        BY DEF NoPanel
    <2> QED
        BY <1>1, <2>1 DEF Apt
<1> QED
    BY <1>5, <1>6, <1>7, <1>8 DEF IInv, Kept, NoClash, Settled, Fits

LEMMA StillPanels ==
    ASSUME panel' = panel PROVE PanelsFollow
BY DEF PanelsFollow, Follows

LEMMA HandlerInv ==
    ASSUME IInv, NEW h \in Handlers,
           \/ \E q \in Questions : QuestionArrives(h, q) \/ BackfillNext(h, q)
           \/ BackfillLists(h) \/ HandlerFails(h) \/ ReplyQueued(h) \/ BatchDelivers(h)
           \/ ModeReview(h) \/ ModeSend(h) \/ BackfillKeeps(h) \/ FindsNewest(h)
           \/ StampsDraft(h) \/ StampsScore(h) \/ PostsReply(h)
    PROVE  IInv'
<1>0. Kept
    BY DEF IInv
<1>1. /\ Kept'
      /\ "crossed" \notin mishaps' => NoNewClaim({})
      /\ Quiet' => KeepsTopics
      /\ mishaps \subseteq mishaps' /\ panel' = panel
    <2>1. CASE \/ \E q \in Questions : QuestionArrives(h, q) \/ BackfillNext(h, q)
               \/ BackfillLists(h)
        <3>1. UNCHANGED <<row, panel, mishaps>>
            BY <2>1 DEF QuestionArrives, BackfillNext, BackfillLists
        <3> QED
            BY <1>0, <2>1, <3>1, StartKept, SameTopics
    <2>2. CASE HandlerFails(h) \/ ReplyQueued(h) \/ ModeReview(h) \/ ModeSend(h) \/ BackfillKeeps(h)
        <3>1. UNCHANGED <<row, panel, mishaps>>
            BY <2>2 DEF HandlerFails, ReplyQueued, ModeReview, ModeSend, BackfillKeeps
        <3> QED
            BY <1>0, <2>2, <3>1, ModeKept, SameTopics
    <2>3. CASE BatchDelivers(h) \/ PostsReply(h)
        <3>1. UNCHANGED <<row, panel>> /\ mishaps \subseteq mishaps'
            BY <2>3 DEF BatchDelivers, PostsReply, Records
        <3> QED
            BY <1>0, <2>3, <3>1, SendKept, SameTopics
    <2>4. CASE FindsNewest(h)
        <3>1. UNCHANGED <<row, panel, mishaps>>
            BY <2>4 DEF FindsNewest
        <3> QED
            BY <1>0, <2>4, <3>1, FindKept, SameTopics
    <2>5. CASE StampsDraft(h)
        BY <1>0, <2>5, StampKept DEF StampsDraft, Records
    <2>6. CASE StampsScore(h)
        BY <1>0, <2>6, ScoreKept DEF StampsScore, Records
    <2> QED
        BY <2>1, <2>2, <2>3, <2>4, <2>5, <2>6
<1> QED
    BY <1>1, StillPanels, QuietStep

LEMMA PanelInv ==
    ASSUME IInv, NEW p \in Panels,
           \/ \E m \in Messages : DiscardsNext(p, m)
           \/ PanelFails(p) \/ Releases(p) \/ ReleaseSends(p)
           \/ Discards(p) \/ DiscardsAll(p) \/ ClearReads(p) \/ ClearWrites(p)
           \/ AutosaveReads(p) \/ AutosaveWrites(p) \/ RegenerateReads(p) \/ RegenerateWrites(p)
    PROVE  IInv'
<1>0. Kept /\ Settled
    BY DEF IInv
<1>1. /\ Kept' /\ NoNewClaim({}) /\ PanelsFollow
      /\ Quiet' => KeepsTopics
      /\ mishaps \subseteq mishaps'
    <2>1. CASE \E m \in Messages : DiscardsNext(p, m)
        BY <1>0, <2>1, SweepKept, SameTopics DEF DiscardsNext
    <2>2. CASE PanelFails(p) \/ DiscardsAll(p)
        <3>1. row' = row /\ mishaps \subseteq mishaps'
            BY <2>2 DEF PanelFails, DiscardsAll, Records
        <3> QED
            BY <1>0, <2>2, <3>1, FailsKept, SameTopics
    <2>3. CASE Releases(p) \/ Discards(p) \/ ClearReads(p) \/ AutosaveReads(p) \/ RegenerateReads(p)
        <3>1. UNCHANGED <<row, mishaps>>
            BY <2>3 DEF Releases, Discards, ClearReads, AutosaveReads, RegenerateReads
        <3> QED
            BY <1>0, <2>3, <3>1, RequestKept, SameTopics
    <2>4. CASE ReleaseSends(p)
        <3>1. row' = row /\ mishaps \subseteq mishaps'
            BY <2>4 DEF ReleaseSends
        <3> QED
            BY <1>0, <2>4, <3>1, ReleaseKept, SameTopics
    <2>5. CASE ClearWrites(p) \/ AutosaveWrites(p) \/ RegenerateWrites(p)
        <3>1. mishaps \subseteq mishaps'
            BY <2>5 DEF ClearWrites, AutosaveWrites, RegenerateWrites, Records
        <3> QED
            BY <1>0, <2>5, <3>1, WriteKept
    <2> QED
        BY <2>1, <2>2, <2>3, <2>4, <2>5
<1> QED
    BY <1>1, QuietStep

LEMMA NextInv == IInv /\ [ReviewNext]_reviewVars => IInv'
<1> SUFFICES ASSUME IInv, [ReviewNext]_reviewVars PROVE IInv'
    OBVIOUS
<1>1. ASSUME NEW h \in Handlers, NEW m \in Messages,
             ReplyStored(h, m) \/ BatchDrafts(h, m) \/ BatchStores(h, m)
      PROVE  IInv'
    <2>1. mishaps' = mishaps /\ panel' = panel
        BY <1>1 DEF ReplyStored, BatchDrafts, BatchStores
    <2>2. Kept' /\ Adds(m, handler[h].question)
        BY <1>1, StoreKept DEF IInv
    <2> QED
        BY <2>1, <2>2, AddStep
<1>2. CASE UNCHANGED reviewVars
    <2>1. Kept' /\ (\A m \in Messages : \A q : Claim(m, q)' <=> Claim(m, q))
        BY <1>2 DEF reviewVars, IInv, Kept, Shapes, Refs, RowOK, Stamp, Stored, InStore,
                    HandlerOK, PanelOK, Claim, SClaim
    <2>2. NoNewClaim({})
        BY <2>1 DEF NoNewClaim
    <2> QED
        BY <1>2, <2>1, <2>2, SameTopics, StillPanels, QuietStep DEF reviewVars
<1> QED
    BY <1>1, <1>2, HandlerInv, PanelInv, LookStep DEF ReviewNext

THEOREM Inductive == ReviewSpec => []IInv
BY InitInv, NextInv, PTL DEF ReviewSpec

LEMMA InvTyped == IInv => ReviewTypeOK
<1> SUFFICES ASSUME IInv PROVE ReviewTypeOK
    OBVIOUS
<1>1. Kept
    BY DEF IInv
<1>2. newest \in Messages \cup {None}
    BY <1>1 DEF Kept, Refs, InStore
<1>3. ASSUME NEW h \in Handlers, handler[h].at \in Replied
      PROVE  Stored(handler[h].mine) /\ newest # None
    BY <1>1, <1>3, HandlerKept DEF HandlerOK, InStore
<1> QED
    BY <1>1, <1>2, <1>3 DEF ReviewTypeOK, Kept, Shapes

\* The state has its type; a handler with a reply has it in the log, where the
\* newest AI message is then found.
THEOREM ReviewTyped == ReviewSpec => []ReviewTypeOK
BY Inductive, InvTyped, PTL

LEMMA InvFits == IInv => DraftFitsQuestion
<1> SUFFICES ASSUME IInv, Quiet, NEW m \in Messages, Pending(m)
             PROVE  row[m].text.of = Stamp(m)
    BY DEF DraftFitsQuestion, Quiet
<1>1. Fits /\ Kept
    BY DEF IInv, Settled
<1>2. Claim(m, Stamp(m))
    BY <1>1, DraftsStored, NoneIsNone
<1> QED
    BY <1>1, <1>2 DEF Fits

\* The draft of a question carries the text written for it, unless a mark met a
\* newer message, or metadata was written over newer metadata.
THEOREM DraftsFit == ReviewSpec => []DraftFitsQuestion
BY Inductive, InvFits, PTL

----------------------------------------------------------------------------
(* What was released or discarded stays out of the panel *)

Returns(m) ==
    Stamp(m) # None /\ ~Pending(m) /\ Pending(m)' =>
        \/ "outdated" \in mishaps'
        \/ \E h \in Handlers : handler[h].at = "stamp" /\ handler[h].message = m

LEMMA SamePending ==
    ASSUME NEW m, row'[m].meta = row[m].meta PROVE Returns(m)
BY DEF Returns, Pending

LEMMA HandlerReturns ==
    ASSUME IInv, NEW h \in Handlers, NEW m \in Messages,
           \/ \E n \in Messages : ReplyStored(h, n) \/ BatchDrafts(h, n) \/ BatchStores(h, n)
           \/ StampsDraft(h) \/ StampsScore(h)
    PROVE  Returns(m)
<1>0. Kept /\ row \in [Messages -> Row]
    BY DEF IInv, Kept, Shapes
<1>1. ASSUME NEW n \in Messages, ReplyStored(h, n) \/ BatchDrafts(h, n) \/ BatchStores(h, n)
      PROVE  Returns(m)
    <2>1. ~Stored(n) /\ (m # n => row'[m] = row[m])
        BY <1>0, <1>1 DEF ReplyStored, BatchDrafts, BatchStores, NewRow
    <2>2. CASE m = n
        BY <1>0, <2>1, <2>2, DraftsStored, Unclaimed DEF Returns
    <2>3. CASE m # n
        BY <2>1, <2>3, SamePending
    <2> QED
        BY <2>2, <2>3
<1>2. CASE StampsDraft(h)
    <2>1. handler[h].message # m => row'[m] = row[m]
        BY <1>0, <1>2 DEF StampsDraft
    <2> QED
        BY <1>2, <2>1, SamePending DEF Returns, StampsDraft
<1>3. CASE StampsScore(h)
    <2>1. handler[h].message # m => row'[m] = row[m]
        BY <1>0, <1>3 DEF StampsScore
    <2>2. CASE handler[h].message = m /\ "outdated" \notin mishaps'
        <3>1. row[m].meta = handler[h].meta
            BY <1>3, <2>2 DEF StampsScore, Records
        <3>2. GoodMeta(row[m].meta)
            BY <1>0, DraftsStored
        <3>3. PICK a \in BOOLEAN : row'[m].meta = [row[m].meta EXCEPT !.account = a]
            <4>1. PICK a \in {TRUE, row[m].meta.account} :
                      row' = [row EXCEPT ![m].meta = [row[m].meta EXCEPT !.account = a]]
                BY <1>3, <2>2, <3>1 DEF StampsScore
            <4>2. a \in BOOLEAN
                BY <3>2 DEF GoodMeta, Meta
            <4> QED
                BY <1>0, <4>1, <4>2 DEF Row
        <3>4. Flagged(row'[m].meta) <=> Flagged(row[m].meta)
            BY <3>2, <3>3, MetaScored
        <3> QED
            BY <3>4 DEF Returns, Pending, Flagged
    <2> QED
        BY <2>1, <2>2, SamePending DEF Returns
<1> QED
    BY <1>1, <1>2, <1>3

LEMMA PanelReturns ==
    ASSUME IInv, NEW p \in Panels, NEW m \in Messages,
           ClearWrites(p) \/ AutosaveWrites(p) \/ RegenerateWrites(p)
    PROVE  Returns(m)
<1>0. row \in [Messages -> Row] /\ panel[p].meta \in Meta
    BY PanelKept DEF IInv, Kept, Shapes, Panel
<1>1. panel[p].message # m => row'[m] = row[m]
    BY <1>0 DEF ClearWrites, AutosaveWrites, RegenerateWrites
<1>2. CASE panel[p].message = m /\ "outdated" \notin mishaps'
    <2>1. row[m].meta = panel[p].meta
        BY <1>2 DEF ClearWrites, AutosaveWrites, RegenerateWrites, Records, Outdated
    <2>2. CASE ClearWrites(p)
        <3>1. row'[m].meta = [panel[p].meta EXCEPT !.pending = FALSE]
            BY <1>0, <1>2, <2>2 DEF ClearWrites
        <3>2. ~Flagged(row'[m].meta)
            BY <1>0, <3>1, MetaUnflagged
        <3> QED
            BY <3>2 DEF Returns, Pending, Flagged
    <2>3. CASE AutosaveWrites(p) \/ RegenerateWrites(p)
        <3>1. row'[m].meta = panel[p].meta
            BY <1>0, <1>2, <2>3 DEF AutosaveWrites, RegenerateWrites
        <3> QED
            BY <2>1, <3>1, SamePending
    <2> QED
        BY <2>2, <2>3
<1> QED
    BY <1>1, <1>2, SamePending DEF Returns

LEMMA StillReturns ==
    ASSUME row' = row, NEW m PROVE Returns(m)
BY DEF Returns, Pending

LEMMA NextReturns ==
    ASSUME IInv, [ReviewNext]_reviewVars, NEW m \in Messages
    PROVE  Returns(m)
<1>1. \/ row' = row
      \/ \E h \in Handlers :
            \/ \E n \in Messages : ReplyStored(h, n) \/ BatchDrafts(h, n) \/ BatchStores(h, n)
            \/ StampsDraft(h) \/ StampsScore(h)
      \/ \E p \in Panels : ClearWrites(p) \/ AutosaveWrites(p) \/ RegenerateWrites(p)
    BY DEF ReviewNext, reviewVars, QuestionArrives, BackfillNext, BackfillLists, HandlerFails,
           ReplyQueued, BatchDelivers, ModeReview, ModeSend, BackfillKeeps, FindsNewest,
           PostsReply, Looks, DiscardsNext, PanelFails, Releases, ReleaseSends, Discards,
           DiscardsAll, ClearReads, AutosaveReads, RegenerateReads
<1> QED
    BY <1>1, StillReturns, HandlerReturns, PanelReturns

\* A draft that was released or discarded is back in the panel only if a handler
\* marks it, or by a write of metadata read before.
THEOREM ReleasedStayOut == ReviewSpec => ReleasedStaysOut
<1>1. IInv /\ [ReviewNext]_reviewVars
        => [\A m \in Messages :
              Stamp(m) # None /\ ~Pending(m) /\ Pending(m)' =>
                  \/ "outdated" \in mishaps'
                  \/ \E h \in Handlers : handler[h].at = "stamp" /\ handler[h].message = m]_reviewVars
    BY NextReturns DEF Returns
<1> QED
    BY <1>1, Inductive, PTL DEF ReviewSpec, ReleasedStaysOut

----------------------------------------------------------------------------
(* The buyer reads what was approved for the question, once *)

Sending == {"score", "scored", "post", "deliver"}
Automatic(q) == [of |-> q, by |-> "ai"]

LEMMA WhoApproves ==
    \A a : a \in Approvals <=>
        \/ \E p \in Panels : panel[p].at = "send" /\ a = <<panel[p].question, panel[p].text>>
        \/ \E h \in Handlers : handler[h].at \in Sending
                                 /\ a = <<handler[h].question, Automatic(handler[h].question)>>
BY DEF Approvals, Sending, Automatic

ApprovalsFit == Approvals \subseteq Questions \X Replies

LEMMA ApprovalsTyped == IInv => ApprovalsFit
<1> SUFFICES ASSUME IInv PROVE Approvals \subseteq Questions \X Replies
    BY DEF ApprovalsFit
<1>1. ASSUME NEW p \in Panels, panel[p].at = "send"
      PROVE  <<panel[p].question, panel[p].text>> \in Questions \X Replies
    BY <1>1, PanelKept DEF IInv, PanelOK, Panel
<1>2. ASSUME NEW h \in Handlers, handler[h].at \in Sending
      PROVE  <<handler[h].question, Automatic(handler[h].question)>> \in Questions \X Replies
    BY <1>2, HandlerKept DEF IInv, Sending, Automatic, Replies, Authors
<1> QED
    BY <1>1, <1>2, WhoApproves

LEMMA Mixes ==
    ASSUME mishaps \subseteq mishaps'
    PROVE  /\ ("crossed" \in mishaps)' \in BOOLEAN
           /\ "crossed" \in mishaps => ("crossed" \in mishaps)'
<1>1. ("crossed" \in mishaps)' \in BOOLEAN
    OBVIOUS
<1> QED
    BY <1>1

LEMMA DeliberateStep ==
    ASSUME ApprovalsFit', given' = given, mishaps \subseteq mishaps'
    PROVE  Promise!Deliberate
BY Mixes DEF Promise!Deliberate, ApprovalsFit

\* An answer on the question it was approved for.
LEMMA AnswerStep ==
    ASSUME NEW q \in Questions, NEW t \in Replies, given[q] = None,
           given' = [given EXCEPT ![q] = t],
           <<q, t>> \in Approvals \/ "crossed" \in mishaps,
           Approvals' \subseteq Approvals, mishaps \subseteq mishaps'
    PROVE  Promise!Answer(q)
<1>1. \E u \in Replies : /\ <<q, u>> \in Approvals \/ "crossed" \in mishaps
                         /\ given' = [given EXCEPT ![q] = u]
    OBVIOUS
<1> QED
    BY <1>1, Mixes DEF Promise!Answer

\* Who stops sending takes an approval away and brings none.
LEMMA HandlerStops ==
    ASSUME Shapes, NEW h \in Handlers, HandlerEnds(h), panel' = panel
    PROVE  Approvals' \subseteq Approvals
<1>1. PICK r : HandlerBecomes(h, r) /\ Rested(r)
    BY Ends
<1>2. r.at \notin Sending
    BY <1>1 DEF Rested, Sending
<1>3. \A g \in Handlers : handler'[g] = IF g = h THEN r ELSE handler[g]
    BY <1>1 DEF HandlerBecomes, Shapes
<1>4. ASSUME NEW a, a \in Approvals' PROVE a \in Approvals
    <2>1. \/ \E p \in Panels : panel[p].at = "send" /\ a = <<panel[p].question, panel[p].text>>
          \/ \E g \in Handlers : handler'[g].at \in Sending
                               /\ a = <<handler'[g].question, Automatic(handler'[g].question)>>
        BY <1>4 DEF Approvals, Sending, Automatic
    <2>2. \/ \E p \in Panels : panel[p].at = "send" /\ a = <<panel[p].question, panel[p].text>>
          \/ \E g \in Handlers : handler[g].at \in Sending
                               /\ a = <<handler[g].question, Automatic(handler[g].question)>>
        BY <1>2, <1>3, <2>1
    <2> QED
        BY <2>2, WhoApproves
<1> QED
    BY <1>4

LEMMA PanelStops ==
    ASSUME Shapes, NEW p \in Panels, panel[p].at = "send", handler' = handler,
           panel' = [panel EXCEPT ![p].at = "clear"] \/ PanelEnds(p)
    PROVE  Approvals' \subseteq Approvals
<1>1. PICK r : PanelBecomes(p, r) /\ r.at # "send"
    <2>1. CASE panel' = [panel EXCEPT ![p].at = "clear"]
        <3>1. PICK r : r = [panel[p] EXCEPT !.at = "clear"]
            OBVIOUS
        <3>2. r.at = "clear" /\ PanelBecomes(p, r)
            BY <2>1, <3>1 DEF PanelBecomes, Shapes, Panel
        <3> QED
            BY <3>2
    <2>2. CASE PanelEnds(p)
        <3>1. NoPanel.at # "send"
            BY DEF NoPanel
        <3>2. PanelBecomes(p, NoPanel)
            BY <2>2 DEF PanelEnds, PanelBecomes
        <3> QED
            BY <3>1, <3>2
    <2> QED
        BY <2>1, <2>2
<1>2. \A g \in Panels : panel'[g] = IF g = p THEN r ELSE panel[g]
    BY <1>1 DEF PanelBecomes, Shapes
<1>3. ASSUME NEW a, a \in Approvals' PROVE a \in Approvals
    <2>1. \/ \E g \in Panels : panel'[g].at = "send" /\ a = <<panel'[g].question, panel'[g].text>>
          \/ \E g \in Handlers : handler[g].at \in Sending
                               /\ a = <<handler[g].question, Automatic(handler[g].question)>>
        BY <1>3 DEF Approvals, Sending, Automatic
    <2>2. \/ \E g \in Panels : panel[g].at = "send" /\ a = <<panel[g].question, panel[g].text>>
          \/ \E g \in Handlers : handler[g].at \in Sending
                               /\ a = <<handler[g].question, Automatic(handler[g].question)>>
        BY <1>1, <1>2, <2>1
    <2> QED
        BY <2>2, WhoApproves
<1> QED
    BY <1>3

LEMMA HandlerAnswers ==
    ASSUME IInv, ApprovalsFit', NEW h \in Handlers, BatchDelivers(h) \/ PostsReply(h)
    PROVE  Promise!ApprovalNext
<1>1. PICK q \in Questions : q = handler[h].question
    BY HandlerKept DEF IInv, BatchDelivers, PostsReply
<1>2. PICK t \in Replies : t = Automatic(q)
    BY DEF Automatic, Replies, Authors
<1>3. mishaps \subseteq mishaps'
    BY DEF BatchDelivers, PostsReply, Records
<1>4. given[q] = None /\ given' \in {given, [given EXCEPT ![q] = t]}
    BY <1>1, <1>2 DEF BatchDelivers, PostsReply, Taken, Automatic
<1>5. CASE given' = given
    BY <1>3, <1>5, DeliberateStep DEF Promise!ApprovalNext
<1>6. CASE given' = [given EXCEPT ![q] = t]
    <2>1. <<q, t>> \in Approvals
        <3>1. handler[h].at \in Sending
            BY DEF BatchDelivers, PostsReply, Sending
        <3> QED
            BY <1>1, <1>2, <3>1, WhoApproves
    <2>2. Approvals' \subseteq Approvals
        BY HandlerStops DEF IInv, Kept, BatchDelivers, PostsReply
    <2> QED
        BY <1>3, <1>4, <1>6, <2>1, <2>2, AnswerStep DEF Promise!ApprovalNext
<1> QED
    BY <1>4, <1>5, <1>6

LEMMA PanelAnswers ==
    ASSUME IInv, ApprovalsFit', NEW p \in Panels, ReleaseSends(p)
    PROVE  Promise!ApprovalNext
<1>1. PICK s : s = panel[p]
    OBVIOUS
<1>2. s \in Panel /\ PanelOK(s) /\ s.at = "send" /\ s.message \in Messages
    BY <1>1, PanelKept DEF IInv, ReleaseSends, OnMessage
<1>3. PICK t \in Replies, q \in Questions, x \in Questions :
          /\ t = s.text /\ q = s.meta.question /\ x = s.question
          /\ q # None /\ x # None
    BY <1>2, NoneIsNone DEF Panel, PanelOK, Meta
<1>4. mishaps \subseteq mishaps'
    BY DEF ReleaseSends
<1>5. given[q] = None /\ given' \in {given, [given EXCEPT ![q] = t]}
    BY <1>1, <1>3 DEF ReleaseSends, Taken
<1>6. CASE given' = given
    BY <1>4, <1>6, DeliberateStep DEF Promise!ApprovalNext
<1>7. CASE given' = [given EXCEPT ![q] = t]
    <2>1. <<x, t>> \in Approvals
        BY <1>1, <1>2, <1>3, WhoApproves
    <2>2. Claim(s.message, q) /\ Claim(s.message, x)
        BY <1>1, <1>2, <1>3, PanelKept DEF IInv, PClaim
    <2>3. "crossed" \notin mishaps => q = x
        BY <1>2, <2>2 DEF IInv, NoClash
    <2>4. Approvals' \subseteq Approvals
        BY <1>1, <1>2, PanelStops DEF IInv, Kept, ReleaseSends
    <2> QED
        BY <1>4, <1>5, <1>7, <2>1, <2>3, <2>4, AnswerStep DEF Promise!ApprovalNext
<1> QED
    BY <1>5, <1>6, <1>7

LEMMA NextPromised ==
    IInv /\ ApprovalsFit' /\ [ReviewNext]_reviewVars => [Promise!ApprovalNext]_(Promise!approvalVars)
<1> SUFFICES ASSUME IInv, ApprovalsFit', [ReviewNext]_reviewVars
             PROVE  [Promise!ApprovalNext]_(Promise!approvalVars)
    OBVIOUS
<1>1. \/ given' = given /\ mishaps \subseteq mishaps'
      \/ \E h \in Handlers : BatchDelivers(h) \/ PostsReply(h)
      \/ \E p \in Panels : ReleaseSends(p)
    BY DEF ReviewNext, reviewVars, QuestionArrives, BackfillNext, BackfillLists, HandlerFails,
           ReplyStored, BatchDrafts, BatchStores, StampsDraft, StampsScore,
           ReplyQueued, ModeReview, ModeSend, BackfillKeeps, FindsNewest, Records,
           Looks, DiscardsNext, PanelFails, Releases, Discards, ClearWrites,
           DiscardsAll, ClearReads, AutosaveReads, AutosaveWrites, RegenerateReads, RegenerateWrites
<1> QED
    BY <1>1, DeliberateStep, HandlerAnswers, PanelAnswers DEF Promise!ApprovalNext

\* The buyer reads what an operator released or the automatic mode approved for
\* the question, and once: the review implements the promise of Approval.
THEOREM BuyersReadApproved == ReviewSpec => BuyerReadsApproved
<1>1. ReviewInit => Promise!ApprovalInit
    <2>1. ReviewInit => Approvals = {}
        BY DEF ReviewInit, Approvals, NoPanel, NoHandler
    <2> QED
        BY <2>1 DEF ReviewInit, Promise!ApprovalInit
<1> QED
    BY <1>1, NextPromised, ApprovalsTyped, Inductive, PTL
    DEF ReviewSpec, BuyerReadsApproved, Promise!ApprovalSpec

----------------------------------------------------------------------------
(* What a question without mishaps leaves behind: a draft in the panel until  *)
(* it is done with, and its answer in the log of the conversation.            *)

Done(q) == given[q] # None \/ q \in dropped
Clears == {"clear", "cleared"}

\* A reply in hand has no flag yet, nobody has touched its text, and no other
\* handler holds it.
FreshReplies ==
    \A h \in Handlers : handler[h].mine # None =>
        /\ Stamp(handler[h].mine) = None
        /\ row[handler[h].mine].text = Automatic(handler[h].question)
        /\ \A g \in Handlers : handler[g].mine = handler[h].mine => g = h

RowsDone == \A m \in Messages : Stamp(m) # None /\ ~Pending(m) => Done(Stamp(m))

\* The question of the answer that request r is about to show in the log
Shows(r, q) == r.at \in Clears /\ r.text # None /\ r.question = q

PanelFine(r) ==
    /\ r.message # None => Stamp(r.message) # None
    /\ \A m \in r.todo : Stamp(m) # None /\ Done(Stamp(m))
    /\ r.at = "edit" => Flagged(r.meta)
    /\ r.at \in Clears => Done(Stamp(r.message))
    /\ r.at \in Clears /\ r.text # None => r.question # None /\ given[r.question] = r.text
PanelsFine == \A p \in Panels : PanelFine(panel[p])

\* Message m shows the text t for good: it has no flag, no handler will set one,
\* and no request is about to write another text on it.
Lasts(r, m, t) ==
    r.message = m => /\ r.at \in Clears => r.text \in {None, t}
                     /\ r.at = "send" => given[r.meta.question] # None
RowKeeps(m, t) ==
    row[m].text = t /\ ~Pending(m) /\ \A h \in Handlers : handler[h].mine # m
Keeps(m, t) == RowKeeps(m, t) /\ \A p \in Panels : Lasts(panel[p], m, t)

Logged ==
    /\ \A h \in Handlers : handler[h].at = "deliver" =>
           \E m \in Messages : Keeps(m, Automatic(handler[h].question))
    /\ \A q \in Questions : given[q] # None =>
           \/ \E m \in Messages : Keeps(m, given[q])
           \/ \E p \in Panels : Shows(panel[p], q)

Orderly == FreshReplies /\ RowsDone /\ PanelsFine /\ Logged
LogInv == mishaps = {} => Orderly

\* What every step without a mishap does
Onward ==
    /\ \A m \in Messages : Stamp(m) # None => Stamp(m)' = Stamp(m)
    /\ \A q \in Questions : given[q] # None => given'[q] = given[q]
    /\ dropped \subseteq dropped'

LEMMA FineAdvances ==
    ASSUME Kept, Onward, NEW r, PanelOK(r), PanelFine(r)
    PROVE  /\ PanelFine(r)'
           /\ \A m \in Messages : \A t : Lasts(r, m, t) => Lasts(r, m, t)'
<1>1. /\ r \in Panel /\ r.message \in Messages \cup {None} /\ r.todo \subseteq Messages
      /\ r.question \in Questions \cup {None} /\ r.meta.question \in Questions \cup {None}
    BY DEF PanelOK, Panel, Meta
<1>2. \A m \in Messages : Stamp(m) \in Questions \cup {None}
    BY DEF Kept, Refs, RowOK, Row, Meta, Stamp
<1>3. \A m \in Messages : Stamp(m) # None /\ Done(Stamp(m)) => Stamp(m)' # None /\ Done(Stamp(m))'
    BY <1>2 DEF Onward, Done
<1>4. r.message # None => Stamp(r.message)' # None
    BY <1>1 DEF PanelFine, Onward
<1>5. \A m \in r.todo : Stamp(m)' # None /\ Done(Stamp(m))'
    BY <1>1, <1>3 DEF PanelFine
<1>6. r.at \in Clears => Done(Stamp(r.message))'
    BY <1>1, <1>3 DEF PanelFine, PanelOK, Clears, OnMessage
<1>7. r.at \in Clears /\ r.text # None => r.question # None /\ given'[r.question] = r.text
    BY <1>1 DEF PanelFine, Onward
<1>8. PanelFine(r)'
    BY <1>4, <1>5, <1>6, <1>7 DEF PanelFine
<1>9. r.at = "send" => r.meta.question \in Questions
    BY <1>1 DEF PanelOK
<1>10. \A m \in Messages : \A t : Lasts(r, m, t) => Lasts(r, m, t)'
    BY <1>9 DEF Lasts, Onward
<1> QED BY <1>8, <1>10

LEMMA PanelsRemain ==
    ASSUME Kept, PanelsFine, Onward, NEW S \in SUBSET Panels, \A p \in S : panel'[p] = panel[p]
    PROVE  \A p \in S : /\ PanelFine(panel[p])'
                        /\ \A m \in Messages : \A t : Lasts(panel[p], m, t) => Lasts(panel[p], m, t)'
<1> SUFFICES ASSUME NEW p \in S
             PROVE  /\ PanelFine(panel[p])'
                    /\ \A m \in Messages : \A t : Lasts(panel[p], m, t) => Lasts(panel[p], m, t)'
    OBVIOUS
<1>1. PICK r : r = panel[p]
    OBVIOUS
<1>2. PanelOK(r) /\ PanelFine(r)
    BY <1>1 DEF Kept, Refs, PanelsFine
<1>3. PanelFine(r)' /\ \A m \in Messages : \A t : Lasts(r, m, t) => Lasts(r, m, t)'
    BY <1>2, FineAdvances
<1>4. panel'[p] = r
    BY <1>1
<1> QED BY <1>1, <1>3, <1>4

\* One request goes on as r.
LEMMA PanelGoesOn ==
    ASSUME Kept, PanelsFine, Onward, NEW p \in Panels, NEW r, PanelBecomes(p, r), PanelFine(r)'
    PROVE  /\ panel'[p] = r /\ \A g \in Panels \ {p} : panel'[g] = panel[g]
           /\ PanelsFine'
           /\ \A m \in Messages : \A t :
                  (\A g \in Panels : Lasts(panel[g], m, t)) /\ Lasts(r, m, t)'
                  => (\A g \in Panels : Lasts(panel[g], m, t))'
<1>1. panel'[p] = r /\ \A g \in Panels \ {p} : panel'[g] = panel[g]
    BY DEF PanelBecomes, Kept, Shapes
<1>2. \A g \in Panels \ {p} :
          /\ PanelFine(panel[g])'
          /\ \A m \in Messages : \A t : Lasts(panel[g], m, t) => Lasts(panel[g], m, t)'
    BY <1>1, PanelsRemain
<1>3. PanelFine(panel[p])' /\ \A m, t : Lasts(r, m, t)' => Lasts(panel[p], m, t)'
    BY <1>1
<1>4. PanelsFine'
    BY <1>2, <1>3 DEF PanelsFine
<1>5. ASSUME NEW m \in Messages, NEW t, \A g \in Panels : Lasts(panel[g], m, t), Lasts(r, m, t)'
      PROVE  (\A g \in Panels : Lasts(panel[g], m, t))'
    BY <1>2, <1>3, <1>5
<1> QED BY <1>1, <1>4, <1>5

\* No step to m takes anything away from the messages that last.
StillKeeps == \A m \in Messages : \A t \in Replies : Keeps(m, t) => Keeps(m, t)'

LEMMA StaysLogged ==
    ASSUME Kept, Kept', Logged, StillKeeps,
           \A q \in Questions : given[q] # None => given'[q] = given[q],
           \A h \in Handlers : handler'[h].at = "deliver" =>
               \/ handler[h].at = "deliver" /\ handler'[h].question = handler[h].question
               \/ \E m \in Messages : Keeps(m, Automatic(handler[h].question))',
           \A q \in Questions : given[q] = None /\ given'[q] # None =>
               (\E m \in Messages : Keeps(m, given[q]))' \/ \E p \in Panels : Shows(panel'[p], q),
           \A p \in Panels : \A q \in Questions : Shows(panel[p], q) =>
               (\E m \in Messages : Keeps(m, given[q]))' \/ \E g \in Panels : Shows(panel'[g], q)
    PROVE  Logged'
<1>1. ASSUME NEW h \in Handlers, handler'[h].at = "deliver"
      PROVE  (\E m \in Messages : Keeps(m, Automatic(handler[h].question)))'
    <2>1. CASE \E m \in Messages : Keeps(m, Automatic(handler[h].question))'
        BY <2>1
    <2>2. CASE handler[h].at = "deliver" /\ handler'[h].question = handler[h].question
        <3>1. PICK t : t = Automatic(handler[h].question)
            OBVIOUS
        <3>2. t \in Replies /\ Automatic(handler'[h].question) = t
            BY <2>2, <3>1, HandlerKept DEF HandlerOK, Automatic, Replies, Authors
        <3>3. PICK m \in Messages : Keeps(m, t)
            BY <2>2, <3>1 DEF Logged
        <3>4. Keeps(m, t)'
            BY <3>2, <3>3 DEF StillKeeps
        <3> QED BY <3>2, <3>4
    <2> QED BY <1>1, <2>1, <2>2
<1>2. ASSUME NEW q \in Questions, given'[q] # None
      PROVE  \/ (\E m \in Messages : Keeps(m, given[q]))'
             \/ \E p \in Panels : Shows(panel'[p], q)
    <2>1. CASE given[q] = None
        BY <1>2, <2>1
    <2>2. CASE given[q] # None
        <3>1. PICK t : t = given[q]
            OBVIOUS
        <3>2. t \in Replies /\ given'[q] = t
            BY <2>2, <3>1 DEF Kept, Shapes
        <3>3. CASE \E p \in Panels : Shows(panel[p], q)
            BY <3>3
        <3>4. ASSUME NEW m \in Messages, Keeps(m, t)
              PROVE  (\E n \in Messages : Keeps(n, given[q]))'
            <4>1. Keeps(m, t)'
                BY <3>2, <3>4 DEF StillKeeps
            <4> QED BY <3>2, <4>1
        <3> QED BY <2>2, <3>1, <3>3, <3>4 DEF Logged
    <2> QED BY <2>1, <2>2
<1> QED BY <1>1, <1>2 DEF Logged, Shows

----------------------------------------------------------------------------
(* The handlers *)

\* A handler goes on with the reply it has, or without one.
Behind ==
    \A h \in Handlers :
        /\ handler'[h].mine # None =>
               handler'[h].mine = handler[h].mine /\ handler'[h].question = handler[h].question
        /\ handler'[h].at = "deliver" =>
               handler[h].at = "deliver" /\ handler'[h].question = handler[h].question

\* The rows are as they were, but for the score of the closed mode.
SameRows ==
    \A m \in Messages : row'[m].text = row[m].text /\ Stamp(m)' = Stamp(m) /\ Pending(m)' = Pending(m)

LEMMA SameKeeps ==
    ASSUME Kept, PanelsFine, Onward, SameRows, Behind, panel' = panel
    PROVE  PanelsFine' /\ StillKeeps
<1>1. \A p \in Panels : /\ PanelFine(panel[p])'
                        /\ \A m \in Messages : \A t : Lasts(panel[p], m, t) => Lasts(panel[p], m, t)'
    BY PanelsRemain
<1>2. \A m \in Messages : \A t \in Replies : RowKeeps(m, t) => RowKeeps(m, t)'
    BY NoneIsNone DEF RowKeeps, SameRows, Behind
<1> QED BY <1>1, <1>2 DEF PanelsFine, StillKeeps, Keeps

LEMMA HandlersOnly ==
    ASSUME Kept, Kept', Orderly, SameRows, Behind, UNCHANGED <<panel, given, dropped>>
    PROVE  Orderly'
<1>1. Onward
    BY DEF Onward, SameRows
<1>2. PanelsFine' /\ StillKeeps
    BY <1>1, SameKeeps DEF Orderly
<1>3. FreshReplies'
    <2>1. \A h \in Handlers : handler[h].mine # None => handler[h].mine \in Messages
        BY HandlerKept DEF HandlerOK, InStore
    <2> QED BY <2>1 DEF Orderly, FreshReplies, Behind, SameRows
<1>4. RowsDone'
    BY DEF Orderly, RowsDone, SameRows, Done
<1>5. Logged'
    BY <1>2, StaysLogged DEF Orderly, Behind
<1> QED BY <1>2, <1>3, <1>4, <1>5 DEF Orderly

LEMMA EndBehind ==
    ASSUME Kept, NEW h \in Handlers,
           HandlerEnds(h) \/ handler' = [handler EXCEPT ![h] = NoHandler]
    PROVE  /\ Behind /\ handler'[h].mine = None /\ handler'[h].at # "deliver"
           /\ \A g \in Handlers \ {h} : handler'[g] = handler[g]
<1>1. PICK r : HandlerBecomes(h, r) /\ Rested(r)
    BY Ends DEF Kept
<1>2. handler'[h] = r /\ \A g \in Handlers \ {h} : handler'[g] = handler[g]
    BY <1>1 DEF HandlerBecomes, Kept, Shapes
<1>3. r.mine = None /\ r.at # "deliver"
    BY <1>1 DEF Rested, HandlerOK, Replied
<1> QED BY <1>2, <1>3 DEF Behind

LEMMA GoBehind ==
    ASSUME Kept, NEW h \in Handlers, NEW stage, stage # "deliver", HandlerGoes(h, stage)
    PROVE  Behind
<1>1. handler'[h] = [handler[h] EXCEPT !.at = stage] /\ \A g \in Handlers \ {h} : handler'[g] = handler[g]
    BY DEF HandlerGoes, Kept, Shapes
<1>2. handler[h] \in Handler
    BY DEF Kept, Shapes
<1>3. /\ handler'[h].at = stage /\ handler'[h].mine = handler[h].mine
      /\ handler'[h].question = handler[h].question
    BY <1>1, <1>2 DEF Handler
<1> QED BY <1>1, <1>3 DEF Behind

LEMMA HandlersQuiet ==
    ASSUME IInv, IInv', Orderly, NEW h \in Handlers,
           \/ \E q \in Questions : QuestionArrives(h, q) \/ BackfillNext(h, q)
           \/ BackfillLists(h) \/ HandlerFails(h) \/ ReplyQueued(h)
           \/ ModeReview(h) \/ ModeSend(h) \/ BackfillKeeps(h) \/ FindsNewest(h)
    PROVE  Orderly'
<1>0. Kept /\ Kept' /\ UNCHANGED <<row, panel, given, dropped>>
    BY DEF IInv, QuestionArrives, BackfillNext, BackfillLists, HandlerFails, ReplyQueued,
           ModeReview, ModeSend, BackfillKeeps, FindsNewest
<1>1. CASE (\E q \in Questions : QuestionArrives(h, q)) \/ BackfillLists(h)
    <2>1. PICK r : r.mine = None /\ r.at # "deliver" /\ HandlerBecomes(h, r)
        <3>1. CASE BackfillLists(h)
            <4>1. PICK todo : handler' = [handler EXCEPT ![h] =
                      [NoHandler EXCEPT !.at = "next", !.backfill = TRUE, !.todo = todo]]
                BY <3>1 DEF BackfillLists
            <4> DEFINE r == [NoHandler EXCEPT !.at = "next", !.backfill = TRUE, !.todo = todo]
            <4>2. r.mine = None /\ r.at # "deliver" /\ HandlerBecomes(h, r)
                BY <4>1 DEF NoHandler, HandlerBecomes
            <4> HIDE DEF r
            <4> QED BY <4>2
        <3>2. ASSUME NEW q \in Questions, QuestionArrives(h, q)
              PROVE  \E r : r.mine = None /\ r.at # "deliver" /\ HandlerBecomes(h, r)
            <4> DEFINE r == [NoHandler EXCEPT !.at = "ai", !.question = q]
            <4>2. r.mine = None /\ r.at # "deliver" /\ HandlerBecomes(h, r)
                BY <3>2 DEF QuestionArrives, NoHandler, HandlerBecomes
            <4> HIDE DEF r
            <4> QED BY <4>2
        <3> QED BY <1>1, <3>1, <3>2
    <2>2. handler'[h] = r /\ \A g \in Handlers \ {h} : handler'[g] = handler[g]
        BY <1>0, <2>1 DEF HandlerBecomes, Kept, Shapes
    <2>3. Behind
        BY <2>1, <2>2 DEF Behind
    <2> QED BY <1>0, <2>3, HandlersOnly DEF SameRows, Stamp, Pending
<1>2. ASSUME NEW q \in Questions, BackfillNext(h, q) PROVE Orderly'
    <2>1. handler[h].mine = None
        BY <1>0, <1>2, HandlerKept DEF BackfillNext, HandlerOK, Replied
    <2>2. handler'[h].mine = handler[h].mine /\ handler'[h].at = "ai"
          /\ \A g \in Handlers \ {h} : handler'[g] = handler[g]
        BY <1>0, <1>2 DEF BackfillNext, Kept, Shapes, Handler
    <2>3. Behind
        BY <2>1, <2>2 DEF Behind
    <2> QED BY <1>0, <2>3, HandlersOnly DEF SameRows, Stamp, Pending
<1>3. CASE HandlerFails(h) \/ BackfillKeeps(h)
    <2>1. Behind
        BY <1>0, <1>3, EndBehind DEF HandlerFails, BackfillKeeps
    <2> QED BY <1>0, <2>1, HandlersOnly DEF SameRows, Stamp, Pending
<1>4. CASE ReplyQueued(h) \/ ModeReview(h) \/ ModeSend(h)
    <2>1. PICK stage \in {"queued", "find", "score", "post"} : HandlerGoes(h, stage)
        BY <1>4 DEF ReplyQueued, ModeReview, ModeSend
    <2>2. Behind
        BY <1>0, <2>1, GoBehind
    <2> QED BY <1>0, <2>2, HandlersOnly DEF SameRows, Stamp, Pending
<1>5. CASE FindsNewest(h)
    <2>1. /\ handler'[h].mine = handler[h].mine /\ handler'[h].question = handler[h].question
          /\ handler'[h].at # "deliver" /\ \A g \in Handlers \ {h} : handler'[g] = handler[g]
        BY <1>0, <1>5 DEF FindsNewest, Kept, Shapes, Handler
    <2>2. Behind
        BY <2>1 DEF Behind
    <2> QED BY <1>0, <2>2, HandlersOnly DEF SameRows, Stamp, Pending
<1> QED BY <1>1, <1>2, <1>3, <1>4, <1>5

LEMMA StoreOrderly ==
    ASSUME IInv, IInv', Orderly, NEW h \in Handlers, NEW m \in Messages,
           ReplyStored(h, m) \/ BatchDrafts(h, m) \/ BatchStores(h, m)
    PROVE  Orderly'
<1> DEFINE q == handler[h].question
<1>0. Kept /\ Kept' /\ UNCHANGED <<panel, given, accepted, dropped, mishaps>>
    BY DEF IInv, ReplyStored, BatchDrafts, BatchStores
<1>1. q \in Questions /\ ~Stored(m) /\ Stamp(m) = None
    <2>1. ~Stored(m) /\ handler[h].at \in {"ai", "queued"}
        BY DEF ReplyStored, BatchDrafts, BatchStores, NewRow
    <2> QED BY <1>0, <2>1, HandlerKept DEF Kept, Refs, RowOK
<1>2. PICK x \in {NoMeta, [question |-> q, pending |-> TRUE, account |-> FALSE]} :
          /\ NewRow(m, q, x)
          /\ BatchStores(h, m) \/ ReplyStored(h, m) => x = NoMeta
          /\ BatchDrafts(h, m) => x = [question |-> q, pending |-> TRUE, account |-> FALSE]
    <2>1. CASE ReplyStored(h, m) \/ BatchStores(h, m)
        <3>1. NewRow(m, q, NoMeta)
            BY <2>1 DEF ReplyStored, BatchStores
        <3>2. ~BatchDrafts(h, m)
            <4>1. CASE ReplyStored(h, m)
                BY <4>1 DEF ReplyStored, BatchDrafts
            <4>2. CASE BatchStores(h, m)
                <5>1. handler'[h].at = "deliver"
                    BY <1>0, <4>2 DEF BatchStores, HandlerGoes, Kept, Shapes, Handler
                <5>2. BatchDrafts(h, m) => handler'[h].at # "deliver"
                    BY <1>0, EndBehind DEF BatchDrafts
                <5> QED BY <5>1, <5>2
            <4> QED BY <2>1, <4>1, <4>2
        <3> QED BY <3>1, <3>2
    <2>2. CASE BatchDrafts(h, m)
        <3>1. ~ReplyStored(h, m)
            BY <2>2 DEF ReplyStored, BatchDrafts
        <3>2. ~BatchStores(h, m)
            <4>1. BatchStores(h, m) => handler'[h].at = "deliver"
                BY <1>0 DEF BatchStores, HandlerGoes, Kept, Shapes, Handler
            <4>2. handler'[h].at # "deliver"
                BY <1>0, <2>2, EndBehind DEF BatchDrafts
            <4> QED BY <4>1, <4>2
        <3>3. NewRow(m, q, [question |-> q, pending |-> TRUE, account |-> FALSE])
            BY <2>2 DEF BatchDrafts
        <3> QED BY <3>1, <3>2, <3>3
    <2> QED BY <2>1, <2>2
<1>3. /\ row'[m].text = Automatic(q) /\ row'[m].meta = x
      /\ \A n \in Messages \ {m} : row'[n] = row[n]
    BY <1>0, <1>2 DEF NewRow, Automatic, Kept, Shapes
<1>4. \/ Stamp(m)' = None /\ ~Pending(m)'
      \/ Stamp(m)' = q /\ Pending(m)' /\ BatchDrafts(h, m)
    BY <1>2, <1>3 DEF Stamp, Pending, NoMeta, ReplyStored, BatchDrafts, BatchStores
<1>5. \A n \in Messages \ {m} : Stamp(n)' = Stamp(n) /\ Pending(n)' = Pending(n)
    BY <1>3 DEF Stamp, Pending
<1>6. Onward
    BY <1>0, <1>1, <1>5 DEF Onward
<1>7. /\ PanelsFine'
      /\ \A p \in Panels : \A n \in Messages : \A t : Lasts(panel[p], n, t) => Lasts(panel[p], n, t)'
    BY <1>0, <1>6, PanelsRemain DEF Orderly, PanelsFine
<1>8. \A g \in Handlers : handler[g].mine # m
    BY <1>0, <1>1, HandlerKept, NoneIsNone DEF HandlerOK, InStore
<1>9. /\ \A g \in Handlers \ {h} : handler'[g] = handler[g]
      /\ \/ ReplyStored(h, m) /\ handler'[h].mine = m /\ handler'[h].question = q
                              /\ handler'[h].at # "deliver"
         \/ BatchDrafts(h, m) /\ handler'[h].mine = None /\ handler'[h].at # "deliver"
         \/ BatchStores(h, m) /\ handler'[h].mine = None /\ handler'[h].question = q
    <2>1. CASE ReplyStored(h, m)
        BY <1>0, <2>1 DEF ReplyStored, Kept, Shapes, Handler
    <2>2. CASE BatchDrafts(h, m)
        BY <1>0, <2>2, EndBehind DEF BatchDrafts
    <2>3. CASE BatchStores(h, m)
        <3>1. handler[h].mine = None
            BY <1>0, <2>3, HandlerKept DEF BatchStores, HandlerOK, Replied
        <3> QED BY <1>0, <2>3, <3>1 DEF BatchStores, HandlerGoes, Kept, Shapes, Handler
    <2> QED BY <2>1, <2>2, <2>3
<1>10. FreshReplies'
    <2>1. ASSUME NEW g \in Handlers \ {h}, handler[g].mine # None
          PROVE  /\ handler'[g].mine = handler[g].mine /\ handler[g].mine \in Messages \ {m}
                 /\ Stamp(handler[g].mine)' = None
                 /\ row'[handler[g].mine].text = Automatic(handler'[g].question)
        <3>1. handler[g].mine \in Messages \ {m} /\ handler'[g] = handler[g]
            BY <1>0, <1>8, <1>9, <2>1, HandlerKept DEF HandlerOK, InStore
        <3> QED BY <1>3, <1>5, <2>1, <3>1 DEF Orderly, FreshReplies
    <2>2. handler'[h].mine # None => /\ handler'[h].mine = m /\ Stamp(m)' = None
                                     /\ row'[m].text = Automatic(handler'[h].question)
        <3>1. ReplyStored(h, m) => ~BatchDrafts(h, m)
            BY DEF ReplyStored, BatchDrafts
        <3> QED BY <1>3, <1>4, <1>9, <3>1
    <2>3. \A g, k \in Handlers : handler'[g].mine # None /\ handler'[k].mine = handler'[g].mine => g = k
        BY <1>8, <1>9, <2>1, <2>2 DEF Orderly, FreshReplies
    <2> QED BY <1>9, <2>1, <2>2, <2>3 DEF FreshReplies
<1>11. RowsDone'
    BY <1>0, <1>4, <1>5 DEF Orderly, RowsDone, Done
<1>12. StillKeeps
    <2>1. ASSUME NEW n \in Messages, NEW t \in Replies, RowKeeps(n, t) PROVE RowKeeps(n, t)'
        <3>1. n # m /\ n # None
            BY <1>1, <2>1, NoneIsNone DEF RowKeeps, Stored
        <3> QED BY <1>3, <1>5, <1>9, <2>1, <3>1 DEF RowKeeps
    <2> QED BY <1>7, <2>1 DEF StillKeeps, Keeps
<1>13. BatchStores(h, m) => (\E n \in Messages : Keeps(n, Automatic(handler[h].question)))'
    <2> SUFFICES ASSUME BatchStores(h, m) PROVE Keeps(m, Automatic(handler[h].question))'
        OBVIOUS
    <2>1. handler'[h].mine = None /\ handler'[h].question = q /\ ~Pending(m)'
        <3>1. handler[h].at = "queued" /\ handler'[h].at = "deliver"
            BY <1>0 DEF BatchStores, HandlerGoes, Kept, Shapes, Handler
        <3>2. ~ReplyStored(h, m) /\ ~BatchDrafts(h, m)
            <4>1. BatchDrafts(h, m) => handler'[h].at # "deliver"
                BY <1>0, EndBehind DEF BatchDrafts
            <4> QED BY <3>1, <4>1 DEF ReplyStored
        <3> QED BY <1>4, <1>9, <3>2
    <2>2. \A g \in Handlers : handler'[g].mine # m
        BY <1>8, <1>9, <2>1, NoneIsNone
    <2>3. \A p \in Panels : panel'[p].message # m
        BY <1>0, <1>1, PanelKept, NoneIsNone DEF PanelOK, InStore
    <2> QED BY <1>3, <2>1, <2>2, <2>3 DEF Keeps, RowKeeps, Lasts
<1>14. Logged'
    BY <1>0, <1>9, <1>12, <1>13, StaysLogged DEF Orderly
<1> QED BY <1>7, <1>10, <1>11, <1>14 DEF Orderly

\* A draft is marked: it is the reply of the handler, or something crossed.
LEMMA StampOrderly ==
    ASSUME IInv, IInv', Orderly, NEW h \in Handlers, mishaps' = {}, StampsDraft(h) \/ StampsScore(h)
    PROVE  Orderly'
<1>0. Kept /\ Kept' /\ UNCHANGED <<panel, given, dropped>>
    BY DEF IInv, StampsDraft, StampsScore
<1>1. PICK m \in Messages : m = handler[h].message
    BY <1>0, HandlerKept DEF StampsDraft, StampsScore, HandlerOK, InStore
<1>2. CASE StampsScore(h)
    <2>1. PICK a : /\ row' = [row EXCEPT ![m].meta = [handler[h].meta EXCEPT !.account = a]]
                   /\ row[m].meta = handler[h].meta
        BY <1>1, <1>2 DEF StampsScore, Records
    <2>2. row[m] \in Row /\ row[m].meta \in Meta
        BY <1>0, <1>1, DraftsStored
    <2>3. SameRows
        BY <1>0, <1>1, <2>1, <2>2 DEF SameRows, Stamp, Pending, Kept, Shapes, Row, Meta
    <2>4. Behind
        BY <1>0, <1>2, GoBehind DEF StampsScore
    <2> QED BY <1>0, <2>3, <2>4, HandlersOnly
<1>3. CASE StampsDraft(h)
    <2>1. m = handler[h].mine /\ m # None
        BY <1>1, <1>3, NoneIsNone DEF StampsDraft, Records
    <2>2. /\ row'[m].text = row[m].text /\ Stamp(m)' = handler[h].question /\ Pending(m)'
          /\ \A n \in Messages \ {m} :
                 row'[n] = row[n] /\ Stamp(n)' = Stamp(n) /\ Pending(n)' = Pending(n)
        <3>1. PICK x : /\ row' = [row EXCEPT ![m].meta = x]
                       /\ \E a \in BOOLEAN :
                             x = [question |-> handler[h].question, pending |-> TRUE, account |-> a]
            BY <1>1, <1>3 DEF StampsDraft
        <3>2. x.question = handler[h].question /\ x.pending
            BY <3>1
        <3>3. row'[m].text = row[m].text /\ row'[m].meta = x /\ \A n \in Messages \ {m} : row'[n] = row[n]
            BY <1>0, <1>1, <3>1 DEF Kept, Shapes, Row
        <3>4. Stamp(m)' = handler[h].question
            BY <3>2, <3>3 DEF Stamp
        <3>5. Pending(m)'
            BY <3>2, <3>3, Zenon DEF Pending
        <3>6. \A n \in Messages \ {m} : Stamp(n)' = Stamp(n) /\ Pending(n)' = Pending(n)
            BY <3>3 DEF Stamp, Pending
        <3> QED BY <3>3, <3>4, <3>5, <3>6
    <2>3. Stamp(m) = None /\ \A g \in Handlers : handler[g].mine = m => g = h
        BY <2>1 DEF Orderly, FreshReplies
    <2>4. Onward
        BY <1>0, <2>2, <2>3 DEF Onward
    <2>5. /\ PanelsFine'
          /\ \A p \in Panels : \A n \in Messages : \A t : Lasts(panel[p], n, t) => Lasts(panel[p], n, t)'
        BY <1>0, <2>4, PanelsRemain DEF Orderly, PanelsFine
    <2>6. /\ Behind /\ handler'[h].mine = None
          /\ \A g \in Handlers \ {h} : handler'[g] = handler[g]
        BY <1>0, <1>3, EndBehind DEF StampsDraft
    <2>7. FreshReplies'
        <3>1. ASSUME NEW g \in Handlers, handler'[g].mine # None
              PROVE  /\ g # h /\ handler'[g] = handler[g] /\ handler[g].mine \in Messages \ {m}
            BY <1>0, <2>3, <2>6, <3>1, HandlerKept DEF HandlerOK, InStore
        <3> QED BY <2>2, <3>1 DEF Orderly, FreshReplies
    <2>8. RowsDone'
        <3> SUFFICES ASSUME NEW n \in Messages, Stamp(n)' # None, ~Pending(n)' PROVE Done(Stamp(n))'
            BY DEF RowsDone
        <3>0. n # m
            BY <2>2, Zenon
        <3>1. Stamp(n)' = Stamp(n) /\ ~Pending(n)
            BY <2>2, <3>0
        <3> QED BY <1>0, <3>1 DEF Orderly, RowsDone, Done
    <2>9. StillKeeps
        <3>1. ASSUME NEW n \in Messages, NEW t \in Replies, RowKeeps(n, t) PROVE RowKeeps(n, t)'
            <4>1. n # m /\ n # None
                BY <2>1, <3>1, NoneIsNone DEF RowKeeps
            <4> QED BY <2>2, <2>6, <3>1, <4>1 DEF RowKeeps
        <3> QED BY <2>5, <3>1 DEF StillKeeps, Keeps
    <2>10. Logged'
        BY <1>0, <2>6, <2>9, StaysLogged DEF Orderly, Behind
    <2> QED BY <2>5, <2>7, <2>8, <2>10 DEF Orderly
<1> QED BY <1>2, <1>3

\* The automatic mode sends: the reply is in the log before, and stays there.
LEMMA SendOrderly ==
    ASSUME IInv, IInv', Orderly, NEW h \in Handlers, mishaps' = {}, BatchDelivers(h) \/ PostsReply(h)
    PROVE  Orderly'
<1>0. Kept /\ Kept' /\ UNCHANGED <<row, panel, dropped>>
    BY DEF IInv, BatchDelivers, PostsReply
<1>1. PICK q \in Questions, t \in Replies :
          /\ q = handler[h].question /\ t = Automatic(q)
          /\ given[q] = None /\ given' = [given EXCEPT ![q] = t]
    <2>1. handler[h].question \in Questions
        BY <1>0, HandlerKept DEF BatchDelivers, PostsReply
    <2>2. Automatic(handler[h].question) \in Replies
        BY <2>1 DEF Automatic, Replies, Authors
    <2>3. PostsReply(h) => handler[h].question \notin Second
        BY DEF PostsReply, Records
    <2>4. BatchDelivers(h) => Taken(handler[h].question, Automatic(handler[h].question), TRUE)
        BY DEF BatchDelivers, Records, Automatic
    <2>5. PostsReply(h) => Taken(handler[h].question, Automatic(handler[h].question), TRUE)
        BY <2>3 DEF PostsReply, Automatic
    <2> QED BY <2>1, <2>2, <2>4, <2>5 DEF Taken
<1>2. given'[q] = t /\ \A x \in Questions \ {q} : given'[x] = given[x]
    BY <1>0, <1>1 DEF Kept, Shapes
<1>3. Onward /\ SameRows
    BY <1>0, <1>1, <1>2 DEF Onward, SameRows, Stamp, Pending
<1>4. /\ Behind /\ handler'[h].mine = None
      /\ \A g \in Handlers \ {h} : handler'[g] = handler[g]
    BY <1>0, EndBehind DEF BatchDelivers, PostsReply
<1>5. PanelsFine' /\ StillKeeps
    BY <1>0, <1>3, <1>4, SameKeeps DEF Orderly
<1>6. FreshReplies'
    <2>1. \A g \in Handlers : handler[g].mine # None => handler[g].mine \in Messages
        BY <1>0, HandlerKept DEF HandlerOK, InStore
    <2> QED BY <1>0, <1>3, <1>4, <2>1 DEF Orderly, FreshReplies, Behind, SameRows
<1>7. RowsDone'
    <2>1. \A m \in Messages : Stamp(m) \in Questions \cup {None}
        BY <1>0 DEF Kept, Refs, RowOK, Row, Meta, Stamp
    <2> QED BY <1>0, <1>3, <2>1 DEF Orderly, RowsDone, Done, Onward, SameRows
<1>8. \E m \in Messages : Keeps(m, t)'
    <2>1. CASE BatchDelivers(h)
        <3>1. PICK m \in Messages : Keeps(m, t)
            BY <1>1, <2>1 DEF Orderly, Logged, BatchDelivers
        <3> QED BY <1>5, <3>1 DEF StillKeeps
    <2>2. CASE PostsReply(h)
        <3>1. PICK m \in Messages : m = handler[h].mine /\ m # None
            BY <1>0, <2>2, HandlerKept DEF PostsReply, HandlerOK, InStore, Replied
        <3>2. Stamp(m) = None /\ row[m].text = t /\ \A g \in Handlers : handler[g].mine = m => g = h
            BY <1>1, <3>1 DEF Orderly, FreshReplies
        <3>3. ~Pending(m)
            BY <1>0, <3>2, DraftsStored, NoneIsNone
        <3>4. \A p \in Panels : panel[p].message # m
            BY <3>1, <3>2 DEF Orderly, PanelsFine, PanelFine
        <3>5. \A g \in Handlers : handler'[g].mine # m
            BY <1>4, <3>1, <3>2
        <3>6. RowKeeps(m, t)' /\ \A p \in Panels : Lasts(panel[p], m, t)'
            BY <1>0, <1>3, <3>2, <3>3, <3>4, <3>5 DEF RowKeeps, SameRows, Lasts
        <3> QED BY <3>6 DEF Keeps
    <2> QED BY <2>1, <2>2
<1>9. (\E m \in Messages : Keeps(m, given[q]))'
    BY <1>2, <1>8
<1>10. Logged'
    <2>1. \A x \in Questions : given[x] = None /\ given'[x] # None =>
              (\E m \in Messages : Keeps(m, given[x]))'
        <3> SUFFICES ASSUME NEW x \in Questions, x # q, given[x] = None, given'[x] # None
                     PROVE  FALSE
            BY <1>9
        <3> QED BY <1>2
    <2> QED BY <1>0, <1>3, <1>4, <1>5, <2>1, StaysLogged DEF Orderly, Behind, Onward
<1> QED BY <1>5, <1>6, <1>7, <1>10 DEF Orderly

----------------------------------------------------------------------------
(* The panel *)

\* A request goes on without writing; it may drop the draft of a question.
LEMMA PanelsOnly ==
    ASSUME Kept, Kept', Orderly, UNCHANGED <<row, handler, given>>, dropped \subseteq dropped',
           NEW p \in Panels, NEW r, PanelBecomes(p, r), PanelFine(r)',
           \A m \in Messages : \A t \in Replies : Keeps(m, t) => Lasts(r, m, t),
           \A q \in Questions : Shows(panel[p], q) => Shows(r, q)
    PROVE  Orderly'
<1>1. Onward
    BY DEF Onward, Stamp
<1>2. /\ panel'[p] = r /\ \A g \in Panels \ {p} : panel'[g] = panel[g]
      /\ PanelsFine'
      /\ \A m \in Messages : \A t :
             (\A g \in Panels : Lasts(panel[g], m, t)) /\ Lasts(r, m, t)'
             => (\A g \in Panels : Lasts(panel[g], m, t))'
    BY <1>1, PanelGoesOn DEF Orderly
<1>3. StillKeeps
    <2> SUFFICES ASSUME NEW m \in Messages, NEW t \in Replies, Keeps(m, t) PROVE Keeps(m, t)'
        BY DEF StillKeeps
    <2>1. RowKeeps(m, t)'
        BY DEF Keeps, RowKeeps, Pending
    <2>2. Lasts(r, m, t)'
        <3>1. Lasts(r, m, t)
            OBVIOUS
        <3> QED BY <3>1 DEF Lasts
    <2> QED BY <1>2, <2>1, <2>2 DEF Keeps
<1>4. FreshReplies' /\ RowsDone'
    BY DEF Orderly, FreshReplies, RowsDone, Stamp, Pending, Done
<1>5. \A g \in Panels : \A q \in Questions : Shows(panel[g], q) => Shows(panel'[g], q)
    BY <1>2
<1>6. Logged'
    BY <1>3, <1>5, StaysLogged DEF Orderly
<1> QED BY <1>2, <1>4, <1>6 DEF Orderly

\* What a request that holds a message knows of it
LEMMA OneTopic ==
    ASSUME IInv, mishaps = {}, PanelsFine, NEW p \in Panels, panel[p].message # None
    PROVE  /\ panel[p].message \in Messages /\ Stamp(panel[p].message) \in Questions
           /\ panel[p].question # None => panel[p].question = Stamp(panel[p].message)
           /\ panel[p].meta.question # None => panel[p].meta.question = Stamp(panel[p].message)
<1>1. PICK m \in Messages : m = panel[p].message
    BY PanelKept DEF IInv, PanelOK, InStore
<1>2. Stamp(m) # None /\ Claim(m, Stamp(m)) /\ Stamp(m) \in Questions
    BY <1>1, DraftsStored DEF IInv, PanelsFine, PanelFine, Meta, Stamp
<1>3. panel[p].question # None => Claim(m, panel[p].question)
    BY <1>1, PanelKept DEF IInv, PClaim
<1>4. panel[p].meta.question # None => Claim(m, panel[p].meta.question)
    BY <1>1, PanelKept DEF IInv, PClaim
<1> QED BY <1>1, <1>2, <1>3, <1>4 DEF IInv, NoClash

LEMMA PanelQuiet ==
    ASSUME IInv, IInv', Orderly, mishaps' = {}, NEW p \in Panels,
           \/ \E m \in Messages : Looks(p, m) \/ DiscardsNext(p, m)
           \/ PanelFails(p) \/ Releases(p) \/ Discards(p) \/ DiscardsAll(p) \/ ClearReads(p)
           \/ AutosaveReads(p) \/ RegenerateReads(p)
    PROVE  Orderly'
<1>0. /\ Kept /\ Kept' /\ UNCHANGED <<row, handler, given>> /\ dropped \subseteq dropped'
      /\ mishaps = {}
    BY DEF IInv, Looks, DiscardsNext, PanelFails, Releases, Discards, DiscardsAll, ClearReads,
           AutosaveReads, RegenerateReads, Records
<1>1. PICK s : s = panel[p]
    OBVIOUS
<1>2. /\ s \in Panel /\ PanelOK(s) /\ PanelFine(s)
      /\ \A m \in Messages : \A t \in Replies : Keeps(m, t) => Lasts(s, m, t)
      /\ s.at \in OnMessage => s.message \in Messages /\ s.message # None
    BY <1>0, <1>1, PanelKept, NoneIsNone DEF Orderly, PanelsFine, Keeps
<1>d. \A m \in Messages : Stamp(m) \in Questions \cup {None} /\ (Pending(m) => Stamp(m) # None)
    BY <1>0, DraftsStored, NoneIsNone DEF Stamp, Meta
\* It is enough to say what request p becomes.
<1>g. ASSUME NEW r, PanelBecomes(p, r), PanelFine(r)',
             \A m \in Messages : \A t \in Replies : Keeps(m, t) => Lasts(r, m, t),
             \A q \in Questions : Shows(s, q) => Shows(r, q)
      PROVE  Orderly'
    BY <1>0, <1>1, <1>g, PanelsOnly
<1>f. ASSUME NEW r, PanelFine(r) PROVE PanelFine(r)'
    <2>1. \A m : Done(Stamp(m)) => Done(Stamp(m))'
        BY <1>0 DEF Done, Stamp
    <2> QED BY <1>0, <1>f, <2>1 DEF PanelFine, Stamp
<1>3. ASSUME NEW m \in Messages, Looks(p, m) PROVE Orderly'
    <2>1. PICK r : r = [NoPanel EXCEPT !.at = "look", !.message = m,
                                       !.question = Stamp(m), !.text = row[m].text]
        OBVIOUS
    <2>2. r.at = "look" /\ r.message = m /\ r.todo = {}
        BY <2>1 DEF NoPanel
    <2>3. PanelBecomes(p, r) /\ Pending(m) /\ s.at = "idle"
        BY <1>1, <1>3, <2>1 DEF PanelBecomes, Looks
    <2>4. PanelFine(r)'
        BY <1>d, <1>f, <2>2, <2>3 DEF PanelFine, Clears
    <2> QED BY <1>g, <2>2, <2>3, <2>4 DEF Lasts, Clears, Shows
<1>4. ASSUME NEW m \in Messages, DiscardsNext(p, m) PROVE Orderly'
    <2>1. PICK r : r = [s EXCEPT !.at = "clear", !.message = m, !.todo = @ \ {m}]
        OBVIOUS
    <2>2. /\ r.at = "clear" /\ r.message = m /\ r.todo = s.todo \ {m} /\ r.text = s.text
        BY <1>2, <2>1 DEF Panel
    <2>3. PanelBecomes(p, r) /\ s.at = "sweep" /\ m \in s.todo /\ s.text = None
        BY <1>0, <1>1, <1>2, <1>4, <2>1 DEF PanelBecomes, DiscardsNext, PanelOK, Kept, Shapes
    <2>4. PanelFine(r)'
        BY <1>2, <1>f, <2>2, <2>3 DEF PanelFine
    <2> QED BY <1>g, <2>2, <2>3, <2>4 DEF Lasts, Shows, Clears
<1>5. CASE PanelFails(p)
    <2>1. NoPanel.at = "idle" /\ NoPanel.message = None /\ NoPanel.todo = {}
        BY DEF NoPanel
    <2>2. PanelBecomes(p, NoPanel) /\ ~(s.at \in Clears /\ s.text # None)
        BY <1>1, <1>5 DEF PanelBecomes, PanelFails, PanelEnds, Records, Clears
    <2>3. PanelFine(NoPanel)'
        BY <2>1, <1>f DEF PanelFine, Clears
    <2> QED BY <1>g, <2>1, <2>2, <2>3 DEF Lasts, Shows, Clears
<1>6. CASE Releases(p)
    <2>1. PICK t0 : panel' = [panel EXCEPT ![p].at = "send", ![p].text = t0,
                                           ![p].meta = row[s.message].meta]
        BY <1>1, <1>6 DEF Releases
    <2>2. PICK r : r = [s EXCEPT !.at = "send", !.text = t0, !.meta = row[s.message].meta]
        OBVIOUS
    <2>3. r.at = "send" /\ r.message = s.message /\ r.todo = s.todo
        BY <1>2, <2>2 DEF Panel
    <2>4. PanelBecomes(p, r) /\ s.at = "look" /\ Pending(s.message)
        BY <1>0, <1>1, <1>6, <2>1, <2>2 DEF PanelBecomes, Releases, Kept, Shapes
    <2>5. PanelFine(r)'
        BY <1>2, <1>f, <2>3 DEF PanelFine, Clears
    <2>6. \A m \in Messages : \A t \in Replies : Keeps(m, t) => Lasts(r, m, t)
        BY <2>3, <2>4 DEF Keeps, RowKeeps, Lasts
    <2> QED BY <1>g, <2>4, <2>5, <2>6 DEF Shows, Clears
<1>7. CASE Discards(p)
    <2>1. PICK r : r = [s EXCEPT !.at = "clear", !.text = None]
        OBVIOUS
    <2>2. r.at = "clear" /\ r.message = s.message /\ r.todo = s.todo /\ r.text = None
        BY <1>2, <2>1 DEF Panel
    <2>3. PanelBecomes(p, r) /\ s.at = "look" /\ dropped' = dropped \cup {s.question}
        BY <1>0, <1>1, <1>7, <2>1 DEF PanelBecomes, Discards, Kept, Shapes
    <2>4. s.question = Stamp(s.message)
        <3>1. s.question # None /\ s.message # None
            BY <1>2, <2>3 DEF PanelOK, OnMessage
        <3> QED BY <1>0, <1>1, <3>1, OneTopic DEF Orderly
    <2>5. PanelFine(r)'
        <3>1. PanelFine(s)'
            BY <1>2, <1>f
        <3>2. Done(Stamp(s.message))'
            BY <1>0, <2>3, <2>4 DEF Done, Stamp
        <3> QED BY <2>2, <3>1, <3>2 DEF PanelFine
    <2> QED BY <1>g, <2>2, <2>3, <2>5 DEF Lasts, Shows, Clears
<1>8. CASE DiscardsAll(p)
    <2>1. PICK old \in SUBSET Messages : old = {m \in Messages : Pending(m)}
        OBVIOUS
    <2>2. PICK r : r = [NoPanel EXCEPT !.at = "sweep", !.todo = old]
        OBVIOUS
    <2>3. r.at = "sweep" /\ r.message = None /\ r.todo = old
        BY <2>2 DEF NoPanel
    <2>4. PanelBecomes(p, r) /\ s.at = "idle" /\ dropped' = dropped \cup {Stamp(m) : m \in old}
        BY <1>0, <1>1, <1>8, <2>1, <2>2 DEF PanelBecomes, DiscardsAll
    <2>5. PanelFine(r)'
        <3>1. \A m \in old : Stamp(m)' # None /\ Done(Stamp(m))'
            BY <1>0, <1>d, <2>1, <2>4 DEF Done, Stamp
        <3> QED BY <2>3, <3>1 DEF PanelFine, Clears
    <2> QED BY <1>g, <2>3, <2>4, <2>5, NoneIsNone DEF Lasts, Shows, Clears
<1>9. CASE ClearReads(p) \/ AutosaveReads(p) \/ RegenerateReads(p)
    <2>1. s.message \in Messages /\ s.at \in {"clear", "look"}
        BY <1>1, <1>2, <1>9 DEF ClearReads, AutosaveReads, RegenerateReads, OnMessage
    <2>2. PICK at \in {"cleared", "edit", "regenerate"}, t0 \in {s.text, Edited(s.text)} :
              /\ panel' = [panel EXCEPT ![p] = [s EXCEPT !.at = at, !.text = t0,
                                                         !.meta = row[s.message].meta]]
              /\ at = "cleared" <=> s.at = "clear"
              /\ at = "cleared" => t0 = s.text
              /\ at = "edit" => Pending(s.message)
        <3>1. CASE ClearReads(p)
            <4>1. panel' = [panel EXCEPT ![p] = [s EXCEPT !.at = "cleared", !.text = s.text,
                                                          !.meta = row[s.message].meta]]
                BY <1>0, <1>1, <1>2, <3>1 DEF ClearReads, Kept, Shapes, Panel
            <4> QED BY <1>1, <3>1, <4>1 DEF ClearReads
        <3>2. CASE AutosaveReads(p)
            <4>1. panel' = [panel EXCEPT ![p] = [s EXCEPT !.at = "edit", !.text = Edited(s.text),
                                                          !.meta = row[s.message].meta]]
                BY <1>0, <1>1, <1>2, <3>2 DEF AutosaveReads, Kept, Shapes, Panel
            <4> QED BY <1>1, <3>2, <4>1 DEF AutosaveReads
        <3>3. CASE RegenerateReads(p)
            <4>1. panel' = [panel EXCEPT ![p] = [s EXCEPT !.at = "regenerate", !.text = s.text,
                                                          !.meta = row[s.message].meta]]
                BY <1>0, <1>1, <1>2, <3>3 DEF RegenerateReads, Kept, Shapes, Panel
            <4> QED BY <1>1, <3>3, <4>1 DEF RegenerateReads
        <3> QED BY <1>9, <3>1, <3>2, <3>3
    <2>3. PICK r : r = [s EXCEPT !.at = at, !.text = t0, !.meta = row[s.message].meta]
        OBVIOUS
    <2>4. /\ r.at = at /\ r.text = t0 /\ r.meta = row[s.message].meta
          /\ r.message = s.message /\ r.todo = s.todo /\ r.question = s.question
        BY <1>2, <2>3 DEF Panel
    <2>5. PanelBecomes(p, r)
        BY <2>2, <2>3 DEF PanelBecomes
    <2>6. at = "edit" => Flagged(r.meta)
        BY <2>2, <2>4 DEF Pending, Flagged
    <2>7. PanelFine(r)'
        BY <1>2, <1>f, <2>1, <2>2, <2>4, <2>6 DEF PanelFine, Clears
    <2>8. \A m \in Messages : \A t \in Replies : Keeps(m, t) => Lasts(r, m, t)
        BY <1>2, <2>2, <2>4 DEF Lasts, Clears
    <2>9. \A q \in Questions : Shows(s, q) => Shows(r, q)
        BY <2>1, <2>2, <2>4 DEF Shows, Clears
    <2> QED BY <1>g, <2>5, <2>7, <2>8, <2>9
<1> QED BY <1>3, <1>4, <1>5, <1>6, <1>7, <1>8, <1>9

\* A release is sent: the request that clears the draft will show the text.
LEMMA ReleaseOrderly ==
    ASSUME IInv, IInv', Orderly, mishaps' = {}, NEW p \in Panels, ReleaseSends(p)
    PROVE  Orderly'
<1>1. PICK s : s = panel[p]
    OBVIOUS
<1>0. Kept /\ Kept' /\ UNCHANGED <<row, handler, dropped>> /\ mishaps = {}
    BY DEF IInv, ReleaseSends
<1>2. s \in Panel /\ PanelOK(s) /\ PanelFine(s) /\ s.at = "send" /\ s.message # None
    BY <1>0, <1>1, PanelKept DEF Orderly, PanelsFine, ReleaseSends, PanelOK, OnMessage
<1>3. PICK q \in Questions, t \in Replies :
          /\ q = s.meta.question /\ t = s.text /\ q = s.question /\ q = Stamp(s.message)
          /\ q # None /\ t # None
    BY <1>0, <1>1, <1>2, OneTopic, NoneIsNone DEF PanelOK, Panel, Orderly
<1>4. given[q] = None /\ given' = [given EXCEPT ![q] = t]
      /\ panel' = [panel EXCEPT ![p].at = "clear"]
    BY <1>0, <1>1, <1>3 DEF ReleaseSends, Taken
<1>5. given'[q] = t /\ \A x \in Questions \ {q} : given'[x] = given[x]
    BY <1>0, <1>4 DEF Kept, Shapes
<1>6. Onward
    BY <1>0, <1>4, <1>5 DEF Onward, Stamp
<1>7. PICK r : r = [s EXCEPT !.at = "clear"]
    OBVIOUS
<1>8. /\ r.at = "clear" /\ r.message = s.message /\ r.question = s.question
      /\ r.todo = s.todo /\ r.text = s.text
    BY <1>2, <1>7 DEF Panel
<1>9. PanelBecomes(p, r)
    BY <1>0, <1>1, <1>4, <1>7 DEF PanelBecomes, Kept, Shapes
<1>10. PanelFine(r)'
    <2>1. PanelFine(s)'
        BY <1>0, <1>2, <1>6, FineAdvances
    <2>2. Done(Stamp(s.message))'
        BY <1>0, <1>3, <1>5 DEF Done, Stamp
    <2> QED BY <1>3, <1>5, <1>8, <2>1, <2>2 DEF PanelFine
<1>11. /\ panel'[p] = r /\ \A g \in Panels \ {p} : panel'[g] = panel[g]
       /\ PanelsFine'
       /\ \A m \in Messages : \A u :
              (\A g \in Panels : Lasts(panel[g], m, u)) /\ Lasts(r, m, u)'
              => (\A g \in Panels : Lasts(panel[g], m, u))'
    BY <1>0, <1>6, <1>9, <1>10, PanelGoesOn DEF Orderly
<1>12. StillKeeps
    <2> SUFFICES ASSUME NEW m \in Messages, NEW u \in Replies, Keeps(m, u) PROVE Keeps(m, u)'
        BY DEF StillKeeps
    <2>1. RowKeeps(m, u)'
        BY <1>0 DEF Keeps, RowKeeps, Pending
    <2>2. s.message # m
        BY <1>1, <1>2, <1>3, <1>4 DEF Keeps, Lasts
    <2>3. Lasts(r, m, u)'
        BY <1>8, <2>2 DEF Lasts
    <2> QED BY <1>11, <2>1, <2>3 DEF Keeps
<1>13. FreshReplies'
    BY <1>0 DEF Orderly, FreshReplies, Stamp
<1>14. RowsDone'
    <2>1. \A m \in Messages : Stamp(m) \in Questions \cup {None}
        BY <1>0 DEF Kept, Refs, RowOK, Row, Meta, Stamp
    <2> QED BY <1>0, <1>6, <2>1 DEF Orderly, RowsDone, Done, Onward, Stamp, Pending
<1>15. Logged'
    <2>1. Shows(panel'[p], q)
        BY <1>3, <1>8, <1>11 DEF Shows, Clears
    <2>2. \A x \in Questions : given[x] = None /\ given'[x] # None => Shows(panel'[p], x)
        <3> SUFFICES ASSUME NEW x \in Questions, x # q, given[x] = None, given'[x] # None
                     PROVE  FALSE
            BY <2>1
        <3> QED BY <1>5
    <2>3. \A g \in Panels : \A x \in Questions : Shows(panel[g], x) => Shows(panel'[g], x)
        BY <1>1, <1>2, <1>11 DEF Shows, Clears
    <2> QED BY <1>0, <1>6, <1>12, <2>2, <2>3, StaysLogged DEF Orderly, Onward
<1> QED BY <1>11, <1>13, <1>14, <1>15 DEF Orderly

\* One message is written by a request; its topic stays, and it was no reply in hand.
Rewrites(m) ==
    /\ Stamp(m) # None /\ Stamp(m)' = Stamp(m)
    /\ \A n \in Messages \ {m} : row'[n] = row[n]

LEMMA RewriteFresh ==
    ASSUME Kept, FreshReplies, NEW m \in Messages, Rewrites(m), handler' = handler
    PROVE  FreshReplies' /\ \A h \in Handlers : handler[h].mine # m
<1>1. \A h \in Handlers : handler[h].mine # m
    BY NoneIsNone DEF FreshReplies, Rewrites
<1>2. \A h \in Handlers : handler[h].mine # None => handler[h].mine \in Messages \ {m}
    BY <1>1, HandlerKept DEF HandlerOK, InStore
<1>3. \A n \in Messages \ {m} : Stamp(n)' = Stamp(n)
    BY DEF Rewrites, Stamp
<1> QED BY <1>1, <1>2, <1>3 DEF FreshReplies, Rewrites

\* The draft is written and stays in the panel.
LEMMA EditOrderly ==
    ASSUME IInv, IInv', Orderly, mishaps' = {}, NEW p \in Panels,
           AutosaveWrites(p) \/ RegenerateWrites(p)
    PROVE  Orderly'
<1>1. PICK s : s = panel[p]
    OBVIOUS
<1>0. Kept /\ Kept' /\ UNCHANGED <<handler, given, dropped>>
    BY DEF IInv, AutosaveWrites, RegenerateWrites
<1>2. s \in Panel /\ PanelOK(s) /\ PanelFine(s) /\ s.at \in {"edit", "regenerate"}
      /\ s.message \in Messages /\ s.message # None
    BY <1>0, <1>1, PanelKept, NoneIsNone
    DEF Orderly, PanelsFine, AutosaveWrites, RegenerateWrites, OnMessage
<1>3. PICK m \in Messages : m = s.message
    BY <1>2
<1>4. row[m].meta = s.meta
    BY <1>1, <1>3 DEF AutosaveWrites, RegenerateWrites, Records, Outdated
<1>5. Pending(m)
    <2>1. CASE AutosaveWrites(p)
        BY <1>1, <1>2, <1>4, <2>1, Zenon DEF AutosaveWrites, PanelFine, Pending, Flagged
    <2>2. CASE RegenerateWrites(p)
        BY <1>1, <1>3, <2>2 DEF RegenerateWrites
    <2> QED BY <2>1, <2>2
<1>6. PICK t : row' = [row EXCEPT ![m] = [text |-> t, meta |-> s.meta]]
    BY <1>1, <1>3 DEF AutosaveWrites, RegenerateWrites
<1>7. row'[m].meta = s.meta /\ \A n \in Messages \ {m} : row'[n] = row[n]
    BY <1>0, <1>6 DEF Kept, Shapes
<1>8. /\ \A n \in Messages : Stamp(n)' = Stamp(n) /\ (Pending(n)' <=> Pending(n))
      /\ Stamp(m) # None
    <2>1. \A n \in Messages : row'[n].meta = row[n].meta
        BY <1>4, <1>7
    <2> QED BY <1>0, <1>5, <2>1, DraftsStored, NoneIsNone DEF Stamp, Pending
<1>9. Onward
    BY <1>0, <1>8 DEF Onward
<1>10. PanelBecomes(p, NoPanel)
    BY DEF PanelBecomes, AutosaveWrites, RegenerateWrites, PanelEnds
<1>11. PanelFine(NoPanel)' /\ \A n \in Messages : \A u : Lasts(NoPanel, n, u)'
    BY NoneIsNone DEF PanelFine, NoPanel, Clears, Lasts
<1>12. /\ panel'[p] = NoPanel /\ \A g \in Panels \ {p} : panel'[g] = panel[g]
       /\ PanelsFine'
       /\ \A n \in Messages : \A u :
              (\A g \in Panels : Lasts(panel[g], n, u)) => (\A g \in Panels : Lasts(panel[g], n, u))'
    BY <1>0, <1>9, <1>10, <1>11, PanelGoesOn DEF Orderly
<1>13. FreshReplies'
    BY <1>0, <1>7, <1>8, RewriteFresh DEF Rewrites, Orderly
<1>14. RowsDone'
    BY <1>0, <1>8 DEF Orderly, RowsDone, Done
<1>15. StillKeeps
    <2> SUFFICES ASSUME NEW n \in Messages, NEW u \in Replies, Keeps(n, u) PROVE Keeps(n, u)'
        BY DEF StillKeeps
    <2>1. n # m
        BY <1>5 DEF Keeps, RowKeeps
    <2>2. RowKeeps(n, u)'
        BY <1>0, <1>7, <1>8, <2>1 DEF Keeps, RowKeeps
    <2> QED BY <1>12, <2>2 DEF Keeps
<1>16. Logged'
    <2>1. \A g \in Panels : \A q \in Questions : Shows(panel[g], q) => Shows(panel'[g], q)
        BY <1>1, <1>2, <1>12 DEF Shows, Clears
    <2> QED BY <1>0, <1>15, <2>1, StaysLogged DEF Orderly
<1> QED BY <1>12, <1>13, <1>14, <1>16 DEF Orderly

\* The draft leaves the panel, and its row shows what was sent.
LEMMA ClearOrderly ==
    ASSUME IInv, IInv', Orderly, mishaps' = {}, NEW p \in Panels, ClearWrites(p)
    PROVE  Orderly'
<1>1. PICK s : s = panel[p]
    OBVIOUS
<1>0. Kept /\ Kept' /\ UNCHANGED <<handler, given, dropped>> /\ mishaps = {}
    BY DEF IInv, ClearWrites, Records
<1>2. s \in Panel /\ PanelOK(s) /\ PanelFine(s) /\ s.at = "cleared"
      /\ s.message \in Messages /\ s.message # None
    BY <1>0, <1>1, PanelKept, NoneIsNone DEF Orderly, PanelsFine, ClearWrites, OnMessage
<1>3. PICK m \in Messages : m = s.message
    BY <1>2
<1>4. row[m].meta = s.meta /\ row[m] \in Row /\ row[m].meta \in Meta
    BY <1>0, <1>1, <1>3, DraftsStored DEF ClearWrites, Records, Outdated
<1>5. PICK x : x = [s.meta EXCEPT !.pending = FALSE]
    OBVIOUS
<1>6. x.question = s.meta.question /\ x.pending = FALSE
    BY <1>4, <1>5 DEF Meta
<1>7. PICK t : t = IF s.text = None THEN row[m].text ELSE s.text
    OBVIOUS
<1>8. row' = [row EXCEPT ![m] = [text |-> t, meta |-> x]]
    BY <1>0, <1>1, <1>3, <1>5, <1>7 DEF ClearWrites, Kept, Shapes
<1>9. row'[m].meta = x /\ row'[m].text = t /\ \A n \in Messages \ {m} : row'[n] = row[n]
    BY <1>0, <1>8 DEF Kept, Shapes
<1>10. /\ Stamp(m)' = Stamp(m) /\ ~Pending(m)' /\ Stamp(m) # None
       /\ \A n \in Messages \ {m} : Stamp(n)' = Stamp(n) /\ Pending(n)' = Pending(n)
    <2>1. Stamp(m)' = Stamp(m) /\ Stamp(m) # None
        BY <1>2, <1>3, <1>4, <1>6, <1>9 DEF Stamp, PanelFine
    <2>2. ~Pending(m)'
        BY <1>6, <1>9, Zenon DEF Pending
    <2>3. \A n \in Messages \ {m} : Stamp(n)' = Stamp(n) /\ Pending(n)' = Pending(n)
        BY <1>9 DEF Stamp, Pending
    <2> QED BY <2>1, <2>2, <2>3
<1>11. Onward
    BY <1>0, <1>10 DEF Onward
<1>12. PICK r : /\ PanelBecomes(p, r) /\ r.message = None /\ r.at \in {"idle", "sweep"}
                /\ r.todo \subseteq s.todo
    <2>1. CASE s.todo = {}
        BY <1>1, <2>1 DEF ClearWrites, PanelEnds, PanelBecomes, NoPanel
    <2>2. CASE s.todo # {}
        <3>1. PICK r : r = [NoPanel EXCEPT !.at = "sweep", !.todo = s.todo]
            OBVIOUS
        <3>2. PanelBecomes(p, r) /\ r.message = None /\ r.at = "sweep" /\ r.todo = s.todo
            BY <1>1, <2>2, <3>1 DEF ClearWrites, PanelBecomes, NoPanel
        <3> QED BY <3>2
    <2> QED BY <2>1, <2>2
<1>13. PanelFine(r)' /\ \A n \in Messages : \A u : Lasts(r, n, u)'
    <2>1. PanelFine(s)'
        BY <1>0, <1>2, <1>11, FineAdvances
    <2> QED BY <1>12, <2>1, NoneIsNone DEF PanelFine, Lasts, Clears
<1>14. /\ panel'[p] = r /\ \A g \in Panels \ {p} : panel'[g] = panel[g]
       /\ PanelsFine'
       /\ \A n \in Messages : \A u :
              (\A g \in Panels : Lasts(panel[g], n, u)) => (\A g \in Panels : Lasts(panel[g], n, u))'
    BY <1>0, <1>11, <1>12, <1>13, PanelGoesOn DEF Orderly
<1>15. FreshReplies' /\ \A h \in Handlers : handler[h].mine # m
    BY <1>0, <1>9, <1>10, RewriteFresh DEF Rewrites, Orderly
<1>16. RowsDone'
    <2> SUFFICES ASSUME NEW n \in Messages, Stamp(n)' # None, ~Pending(n)' PROVE Done(Stamp(n))'
        BY DEF RowsDone
    <2>1. Done(Stamp(n)) /\ Stamp(n)' = Stamp(n)
        <3>1. CASE n = m
            BY <1>2, <1>3, <1>10, <3>1 DEF PanelFine, Clears
        <3>2. CASE n # m
            BY <1>10, <3>2 DEF Orderly, RowsDone
        <3> QED BY <3>1, <3>2
    <2> QED BY <1>0, <2>1 DEF Done
<1>17. StillKeeps
    <2> SUFFICES ASSUME NEW n \in Messages, NEW u \in Replies, Keeps(n, u) PROVE Keeps(n, u)'
        BY DEF StillKeeps
    <2>1. row'[n].text = u /\ ~Pending(n)'
        <3>1. CASE n = m
            <4>1. s.text \in {None, u} /\ row[m].text = u
                BY <1>1, <1>2, <1>3, <3>1 DEF Keeps, RowKeeps, Lasts, Clears
            <4> QED BY <1>7, <1>9, <1>10, <3>1, <4>1
        <3>2. CASE n # m
            BY <1>9, <1>10, <3>2 DEF Keeps, RowKeeps
        <3> QED BY <3>1, <3>2
    <2>2. RowKeeps(n, u)'
        BY <1>0, <2>1 DEF Keeps, RowKeeps
    <2> QED BY <1>14, <2>2 DEF Keeps
<1>18. ASSUME NEW q \in Questions, Shows(s, q) PROVE (\E n \in Messages : Keeps(n, given[q]))'
    <2>1. q = Stamp(m) /\ given[q] = t /\ t # None /\ q # None /\ s.text = t
        <3>1. s.question # None
            BY <1>2, <1>18 DEF PanelFine, Clears, Shows
        <3>2. s.question = Stamp(m)
            BY <1>0, <1>1, <1>2, <1>3, <3>1, OneTopic DEF Orderly
        <3> QED BY <1>2, <1>7, <1>18, <3>1, <3>2 DEF Shows, PanelFine, Clears
    <2>2. RowKeeps(m, t)'
        BY <1>0, <1>9, <1>10, <1>15 DEF RowKeeps
    <2>3. ASSUME NEW g \in Panels PROVE Lasts(panel[g], m, t)'
        <3>1. PICK k : k = panel'[g]
            OBVIOUS
        <3>2. CASE k.message # m
            BY <3>1, <3>2 DEF Lasts
        <3>3. CASE k.message = m
            <4>1. g # p /\ k = panel[g] /\ PanelOK(k) /\ PanelFine(k) /\ m # None
                BY <1>0, <1>12, <1>14, <3>1, <3>3, PanelKept, NoneIsNone DEF Orderly, PanelsFine
            <4>2. /\ k.question # None => k.question = q
                  /\ k.meta.question # None => k.meta.question = q
                BY <1>0, <2>1, <3>3, <4>1, OneTopic DEF Orderly
            <4>3. k.at \in Clears => k.text \in {None, t}
                BY <2>1, <4>1, <4>2 DEF PanelFine
            <4>4. k.at = "send" => given'[k.meta.question] # None
                BY <1>0, <2>1, <4>1, <4>2 DEF PanelOK
            <4> QED BY <3>1, <4>3, <4>4 DEF Lasts
        <3> QED BY <3>2, <3>3
    <2>4. Keeps(m, t)'
        BY <2>2, <2>3 DEF Keeps
    <2> QED BY <1>0, <2>1, <2>4
<1>19. Logged'
    <2>1. ASSUME NEW g \in Panels, NEW q \in Questions, Shows(panel[g], q)
          PROVE  (\E n \in Messages : Keeps(n, given[q]))' \/ \E k \in Panels : Shows(panel'[k], q)
        <3>1. CASE g = p
            BY <1>1, <1>18, <2>1, <3>1
        <3>2. CASE g # p
            BY <1>14, <2>1, <3>2
        <3> QED BY <3>1, <3>2
    <2> QED BY <1>0, <1>17, <2>1, StaysLogged DEF Orderly
<1> QED BY <1>14, <1>15, <1>16, <1>19 DEF Orderly

LEMMA NextOrderly ==
    IInv /\ IInv' /\ LogInv /\ [ReviewNext]_reviewVars => LogInv'
<1> SUFFICES ASSUME IInv, IInv', LogInv, [ReviewNext]_reviewVars, mishaps' = {} PROVE Orderly'
    BY DEF LogInv
<1>1. mishaps \subseteq mishaps'
    BY DEF ReviewNext, reviewVars, QuestionArrives, BackfillNext, BackfillLists, HandlerFails,
           ReplyStored, BatchDrafts, BatchStores, StampsDraft, StampsScore, BatchDelivers, PostsReply,
           ReplyQueued, ModeReview, ModeSend, BackfillKeeps, FindsNewest, Records,
           Looks, DiscardsNext, PanelFails, Releases, ReleaseSends, Discards, ClearWrites,
           DiscardsAll, ClearReads, AutosaveReads, AutosaveWrites, RegenerateReads, RegenerateWrites
<1>2. Orderly
    BY <1>1 DEF LogInv
<1>3. CASE UNCHANGED reviewVars
    <2>1. Behind /\ SameRows
        BY <1>3 DEF reviewVars, Behind, SameRows, Stamp, Pending
    <2> QED BY <1>2, <1>3, <2>1, HandlersOnly DEF reviewVars, IInv
<1> QED
    BY <1>2, <1>3, HandlersQuiet, StoreOrderly, StampOrderly, SendOrderly, PanelQuiet,
       ReleaseOrderly, EditOrderly, ClearOrderly DEF ReviewNext

LEMMA InitOrderly == ReviewInit => LogInv
BY NoneIsNone DEF ReviewInit, LogInv, Orderly, FreshReplies, RowsDone, PanelsFine, Logged, PanelFine,
   NoHandler, NoPanel, Stamp, NoMeta, Clears

\* As long as nothing goes wrong, what handlers and requests hold of the log is in order.
THEOREM AlwaysOrderly == ReviewSpec => []LogInv
BY Inductive, InitOrderly, NextOrderly, PTL DEF ReviewSpec

\* While nothing goes wrong, a question whose draft the backfill passes over is
\* answered, dropped by an operator, or still has a draft in the panel.
THEOREM NothingIsLost == ReviewSpec => []NothingSlips
<1>1. LogInv => NothingSlips
    <2> SUFFICES ASSUME LogInv, mishaps = {}, NEW q \in Questions, given[q] = None, Stamped(q)
                 PROVE  (\E m \in Messages : Pending(m) /\ Stamp(m) = q) \/ q \in dropped
        BY DEF NothingSlips
    <2>1. PICK m \in Messages : Stamp(m) = q
        BY DEF Stamped
    <2>2. q # None
        BY NoneIsNone
    <2> QED BY <2>1, <2>2 DEF LogInv, Orderly, RowsDone, Done
<1> QED BY <1>1, AlwaysOrderly, PTL

\* While nothing goes wrong, the log shows the answer the buyer got, or a request
\* is about to write it there.
THEOREM AnswersAreShown == ReviewSpec => []LogShowsAnswer
<1>1. LogInv => LogShowsAnswer
    <2> SUFFICES ASSUME LogInv, mishaps = {}, NEW q \in Questions, given[q] # None
                 PROVE  (\E m \in Messages : row[m].text = given[q]) \/ Clearing(q)
        BY DEF LogShowsAnswer
    <2>1. \/ \E m \in Messages : Keeps(m, given[q])
          \/ \E p \in Panels : Shows(panel[p], q)
        BY DEF LogInv, Orderly, Logged
    <2> QED BY <2>1 DEF Keeps, RowKeeps, Shows, Clears, Clearing
<1> QED BY <1>1, AlwaysOrderly, PTL
=============================================================================
