------------------------- MODULE RefreshTokens_proofs -------------------------
(***************************************************************************)
(* Theorems about RefreshTokens, for any number of tabs, calls, tokens and *)
(* families and of password changes.                                       *)
(***************************************************************************)
EXTENDS RefreshTokens, TLAPS

\* A row that was written.
Issued(x) == x \in Tokens /\ token[x].state # "none"

\* Calls hold rows that were written; past the check they found theirs alive.
Presents ==
    \A c \in Calls :
        /\ call[c].at \in {"read", "reuse", "issue", "retire", "logout"} => Issued(call[c].token)
        /\ call[c].at \in {"retire", "ok"} => Issued(call[c].fresh)
        /\ call[c].at \in {"issue", "retire"} => call[c].alive
        /\ call[c].seen <= changes

\* Rows belong to families, and the browser holds one that was written.
Rows ==
    /\ \A x \in Tokens : token[x].state # "none" => token[x].family \in Families
    /\ store.refresh # Nobody => Issued(store.refresh)
    /\ store.made <= changes

LEMMA NobodyTypes ==
    /\ Nobody \notin Tabs /\ Nobody \notin Calls
    /\ Nobody \notin Tokens /\ Nobody \notin Families
BY NobodyIsNew

LEMMA RevokedTyped ==
    ASSUME TokensTypeOK, NEW S
    PROVE  /\ Revoked(S) \in [Tokens -> Token]
           /\ \A x \in Tokens :
                 /\ Revoked(S)[x].family = token[x].family
                 /\ Revoked(S)[x].state = "none" <=> token[x].state = "none"
                 /\ Revoked(S)[x].state = "live" <=> token[x].state = "live" /\ x \notin S
BY DEF TokensTypeOK, Revoked, Token, TokenStates

LEMMA NoCallTyped == NoCall \in AuthCall
BY ChangeBound DEF NoCall, AuthCall, Stages, Changes

LEMMA ReadTyped ==
    ASSUME NEW r \in AuthCall, NEW s \in Stages, NEW n \in Changes, NEW b \in BOOLEAN
    PROVE  [r EXCEPT !.at = s, !.seen = n, !.alive = b] \in AuthCall
BY DEF AuthCall

LEMMA ReturnedTyped ==
    ASSUME NEW r \in AuthCall, NEW s \in Stages, NEW n \in Changes, NEW u \in Changes
    PROVE  [r EXCEPT !.at = s, !.seen = n, !.upto = u] \in AuthCall
BY DEF AuthCall

LEMMA UptoTyped ==
    ASSUME changes \in Changes, NEW u \in changes .. MaxChanges
    PROVE  u \in Changes
BY ChangeBound DEF Changes

LEMMA IssuedTyped ==
    ASSUME NEW r \in AuthCall, NEW s \in Stages, NEW y \in Tokens
    PROVE  [r EXCEPT !.at = s, !.fresh = y] \in AuthCall
BY DEF AuthCall

LEMMA NoteTyped ==
    ASSUME TokensTypeOK, NEW what \in Oddities, NEW happened, Note(what, happened)
    PROVE  odd' \subseteq Oddities /\ odd \subseteq odd'
BY DEF TokensTypeOK, Note

LEMMA InitTyped == TokensInit => TokensTypeOK
<1> SUFFICES ASSUME TokensInit PROVE TokensTypeOK
    OBVIOUS
<1>1. 0 \in Changes
    BY ChangeBound DEF Changes
<1> QED
    BY <1>1, NoCallTyped
    DEF TokensInit, TokensTypeOK, Token, TokenStates, NoToken, Empty, Store

----------------------------------------------------------------------------
(* The types, action by action *)

LEMMA BrowserTyped ==
    ASSUME TokensTypeOK, NEW t \in Tabs, NEW c \in Calls,
           RefreshStarts(t, c) \/ LoginVerifies(t, c) \/ LogoutStarts(t, c)
    PROVE  TokensTypeOK'
<1>1. call' \in [Calls -> AuthCall]
    <2>1. CASE RefreshStarts(t, c)
        <3>1. PICK urgent \in BOOLEAN :
                  call' = [call EXCEPT ![c] = [NoCall EXCEPT !.at = "read", !.by = t,
                                                 !.urgent = urgent, !.token = store.refresh]]
            BY <2>1 DEF RefreshStarts
        <3>2. [NoCall EXCEPT !.at = "read", !.by = t, !.urgent = urgent,
                             !.token = store.refresh] \in AuthCall
            BY NoCallTyped DEF TokensTypeOK, AuthCall, Stages, Store
        <3> QED
            BY <3>1, <3>2 DEF TokensTypeOK
    <2>2. CASE LoginVerifies(t, c)
        BY <2>2, NoCallTyped DEF TokensTypeOK, LoginVerifies, AuthCall, Stages
    <2>3. CASE LogoutStarts(t, c)
        BY <2>3, NoCallTyped DEF TokensTypeOK, LogoutStarts, AuthCall, Stages, Store
    <2> QED
        BY <2>1, <2>2, <2>3
<1>2. odd' \subseteq Oddities
    BY DEF TokensTypeOK, RefreshStarts, LoginVerifies, LogoutStarts, Note, Oddities
<1>3. flight' \in [Tabs -> Calls \cup {Nobody}]
    BY DEF TokensTypeOK, RefreshStarts, LoginVerifies, LogoutStarts
<1> QED
    BY <1>1, <1>2, <1>3 DEF TokensTypeOK, RefreshStarts, LoginVerifies, LogoutStarts

LEMMA TabTyped ==
    ASSUME TokensTypeOK, NEW t \in Tabs, RefreshJoined(t) \/ StorageEvent(t)
    PROVE  TokensTypeOK'
<1>1. CASE RefreshJoined(t)
    <2>1. call' \in [Calls -> AuthCall]
        BY <1>1 DEF TokensTypeOK, RefreshJoined, AuthCall
    <2> QED
        BY <1>1, <2>1 DEF TokensTypeOK, RefreshJoined
<1>2. CASE StorageEvent(t)
    BY <1>2 DEF TokensTypeOK, StorageEvent
<1> QED
    BY <1>1, <1>2

\* What the browser does to its calls when one of them ends.
LEMMA EndingTyped ==
    ASSUME TokensTypeOK, NEW c \in Calls, NEW t,
           EndsCall(c) \/ LeavesPage(c, t)
    PROVE  call' \in [Calls -> AuthCall]
<1>1. CASE EndsCall(c)
    BY <1>1, NoCallTyped DEF TokensTypeOK, EndsCall
<1>2. CASE LeavesPage(c, t)
    <2>1. \A d \in Calls : [call[d] EXCEPT !.by = Nobody] \in AuthCall
        BY DEF TokensTypeOK, AuthCall
    <2> QED
        BY <1>2, <2>1, NoCallTyped DEF TokensTypeOK, LeavesPage
<1> QED
    BY <1>1, <1>2

LEMMA ReturnTyped ==
    ASSUME TokensTypeOK, NEW c \in Calls,
           RefreshReturns(c) \/ RefreshFails(c) \/ LogoutForgotten(c)
    PROVE  TokensTypeOK'
<1> USE DEF TokensTypeOK, Empty, Store
<1>1. call[c] \in AuthCall /\ 0 \in Changes
    BY ChangeBound DEF Changes
<1>2. CASE RefreshReturns(c)
    <2>1. call' \in [Calls -> AuthCall]
        BY <1>2, EndingTyped DEF RefreshReturns
    <2>2. odd' \subseteq Oddities
        BY <1>2 DEF RefreshReturns, Note, Oddities
    <2>3. store' \in Store
        BY <1>1, <1>2 DEF RefreshReturns, Stores, AuthCall, Store
    <2> QED
        BY <1>2, <2>1, <2>2, <2>3 DEF RefreshReturns, Stores
<1>3. CASE RefreshFails(c)
    <2>1. call' \in [Calls -> AuthCall]
        BY <1>3, EndingTyped DEF RefreshFails, GivesUp
    <2> QED
        BY <1>1, <1>3, <2>1 DEF RefreshFails, GivesUp, Stores
<1>4. CASE LogoutForgotten(c)
    BY <1>4, EndingTyped DEF LogoutForgotten
<1> QED
    BY <1>2, <1>3, <1>4

LEMMA LeaveTyped ==
    ASSUME TokensTypeOK, NEW c \in Calls, AnswerLost(c) \/ LogoutClears(c)
    PROVE  TokensTypeOK'
<1> USE DEF TokensTypeOK
<1>1. 0 \in Changes /\ \A d \in Calls : [call[d] EXCEPT !.by = Nobody] \in AuthCall
    BY ChangeBound DEF Changes, AuthCall
<1>2. CASE AnswerLost(c)
    <2>1. call' \in [Calls -> AuthCall]
        BY <1>1, <1>2 DEF AnswerLost
    <2>2. odd' \subseteq Oddities
        BY <1>2 DEF AnswerLost, Note, Oddities
    <2>3. store' \in Store /\ told' \subseteq Tabs
        BY <1>1, <1>2 DEF AnswerLost, Stores, Empty, Store
    <2>4. flight' \in [Tabs -> Calls \cup {Nobody}]
        BY <1>2 DEF AnswerLost
    <2> QED
        BY <1>2, <2>1, <2>2, <2>3, <2>4 DEF AnswerLost
<1>3. CASE LogoutClears(c)
    <2>1. call' \in [Calls -> AuthCall]
        BY <1>1, <1>3, EndingTyped DEF LogoutClears
    <2> QED
        BY <1>1, <1>3, <2>1 DEF LogoutClears, Stores, Empty, Store
<1> QED
    BY <1>2, <1>3

LEMMA ServerTyped ==
    ASSUME TokensTypeOK, Presents, NEW c \in Calls,
           \/ RotationReads(c) \/ ReuseRevokes(c) \/ RotationIssues(c) \/ RotationRetires(c)
           \/ LogoutRevokes(c) \/ CallFails(c)
    PROVE  TokensTypeOK'
<1> USE DEF TokensTypeOK
<1>1. CASE RotationReads(c)
    <2>1. PICK s \in {"reuse", "issue", "fail"} : Reading(c, s)
        BY <1>1 DEF RotationReads
    <2> DEFINE b == token[call[c].token].state = "live"
               r == [call[c] EXCEPT !.at = s, !.seen = changes, !.alive = b]
    <2>2. r \in AuthCall
        BY ReadTyped DEF Stages
    <2>3. call' \in [Calls -> AuthCall]
        <3>1. call' = [call EXCEPT ![c] = r]
            BY <2>1 DEF Reading
        <3> HIDE DEF r
        <3> QED
            BY <2>2, <3>1
    <2> QED
        BY <2>1, <2>3 DEF Reading
<1>2. CASE ReuseRevokes(c)
    <2>1. call' \in [Calls -> AuthCall]
        BY <1>2 DEF ReuseRevokes, AuthCall, Stages
    <2> QED
        BY <1>2, <2>1, RevokedTyped DEF ReuseRevokes
<1>3. CASE RotationIssues(c)
    <2> DEFINE f == token[call[c].token].family
    <2>1. PICK y \in Tokens :
              /\ token' = [token EXCEPT ![y] = [state |-> "live", family |-> f]]
              /\ call' = [call EXCEPT ![c].at = "retire", ![c].fresh = y]
        BY <1>3 DEF RotationIssues
    <2>2. f \in Families \cup {Nobody}
        BY <1>3 DEF RotationIssues, Token, Presents, Issued, Stage
    <2>3. token' \in [Tokens -> Token]
        <3> HIDE DEF f
        <3>1. [state |-> "live", family |-> f] \in Token
            BY <2>2 DEF Token, TokenStates
        <3> QED
            BY <2>1, <3>1
    <2>4. call' \in [Calls -> AuthCall]
        <3> DEFINE r == [call[c] EXCEPT !.at = "retire", !.fresh = y]
        <3>1. r \in AuthCall
            BY IssuedTyped DEF Stages
        <3>2. call' = [call EXCEPT ![c] = r]
            BY <2>1
        <3> HIDE DEF r
        <3> QED
            BY <3>1, <3>2
    <2>5. odd' \subseteq Oddities
        BY <1>3 DEF RotationIssues, Note, Oddities
    <2> QED
        BY <1>3, <2>3, <2>4, <2>5 DEF RotationIssues
<1>4. CASE RotationRetires(c)
    <2>1. PICK u \in changes .. MaxChanges :
              call' = [call EXCEPT ![c].at = "ok", ![c].seen = changes, ![c].upto = u]
        BY <1>4 DEF RotationRetires, Returns
    <2> DEFINE r == [call[c] EXCEPT !.at = "ok", !.seen = changes, !.upto = u]
    <2>2. r \in AuthCall
        BY UptoTyped, ReturnedTyped DEF Stages
    <2>3. call' \in [Calls -> AuthCall]
        <3>1. call' = [call EXCEPT ![c] = r]
            BY <2>1
        <3> HIDE DEF r
        <3> QED
            BY <2>2, <3>1
    <2>4. token' \in [Tokens -> Token]
        BY <1>4 DEF RotationRetires, Token, TokenStates
    <2>5. odd' \subseteq Oddities
        BY <1>4 DEF RotationRetires, Returns, Note, Oddities
    <2>6. handed' \subseteq Tokens
        <3>1. call[c].fresh \in Tokens
            BY <1>4 DEF RotationRetires, Stage, Presents, Issued
        <3> QED
            BY <1>4, <3>1 DEF RotationRetires, Returns
    <2> QED
        BY <1>4, <2>3, <2>4, <2>5, <2>6 DEF RotationRetires
<1>5. CASE LogoutRevokes(c)
    <2>1. call' \in [Calls -> AuthCall]
        BY <1>5 DEF LogoutRevokes, AuthCall, Stages
    <2> QED
        BY <1>5, <2>1, RevokedTyped DEF LogoutRevokes
<1>6. CASE CallFails(c)
    <2>1. call' \in [Calls -> AuthCall]
        <3>1. ASSUME NEW s \in {"fail", "bye"} PROVE [call[c] EXCEPT !.at = s] \in AuthCall
            BY DEF AuthCall, Stages
        <3>2. CASE EndsCall(c)
            BY <3>2, EndingTyped
        <3>3. ASSUME NEW s \in {"fail", "bye"}, call' = [call EXCEPT ![c].at = s]
              PROVE  call' \in [Calls -> AuthCall]
            BY <3>1, <3>3
        <3> QED
            BY <1>6, <3>2, <3>3 DEF CallFails
    <2> QED
        BY <1>6, <2>1 DEF CallFails
<1> QED
    BY <1>1, <1>2, <1>3, <1>4, <1>5, <1>6

LEMMA AccountTyped ==
    ASSUME TokensTypeOK,
           \/ PasswordChanges \/ PasswordRevokes \/ PasswordRevokesFails
           \/ \E c \in Calls : LoginIssues(c)
    PROVE  TokensTypeOK'
<1> USE DEF TokensTypeOK
<1>1. CASE PasswordChanges
    BY <1>1, ChangeBound DEF PasswordChanges, Changes
<1>2. CASE PasswordRevokes
    BY <1>2, RevokedTyped DEF PasswordRevokes
<1>3. ASSUME NEW c \in Calls, LoginIssues(c) PROVE TokensTypeOK'
    <2>1. PICK x \in Tokens, f \in Families, u \in changes .. MaxChanges :
              /\ token' = [token EXCEPT ![x] = [state |-> "live", family |-> f]]
              /\ family' = [family EXCEPT ![f] = call[c].seen]
              /\ handed' = handed \cup {x}
              /\ IF call[c].by = Nobody THEN UNCHANGED <<store, told>>
                 ELSE Stores(call[c].by, [refresh |-> x, made |-> changes, upto |-> u])
        BY <1>3 DEF LoginIssues
    <2>2. token' \in [Tokens -> Token]
        <3>1. [state |-> "live", family |-> f] \in Token
            BY DEF Token, TokenStates
        <3> QED
            BY <2>1, <3>1
    <2>3. family' \in [Families -> Changes]
        <3>1. call[c].seen \in Changes
            BY DEF AuthCall
        <3> QED
            BY <2>1, <3>1
    <2>4. store' \in Store /\ told' \subseteq Tabs
        BY <2>1, UptoTyped DEF Stores, Store
    <2>5. call' \in [Calls -> AuthCall]
        BY <1>3, EndingTyped DEF LoginIssues
    <2>6. odd' \subseteq Oddities
        BY <1>3 DEF LoginIssues, Note, Oddities
    <2>7. handed' \subseteq Tokens
        BY <2>1
    <2> QED
        BY <1>3, <2>2, <2>3, <2>4, <2>5, <2>6, <2>7 DEF LoginIssues
<1>4. CASE PasswordRevokesFails
    BY <1>4 DEF PasswordRevokesFails, Note, Oddities
<1> QED
    BY <1>1, <1>2, <1>3, <1>4

----------------------------------------------------------------------------
(* The invariant *)

\* What the browser holds or presents somebody was handed.
Handing ==
    /\ \A x \in handed : Issued(x)
    /\ store.refresh # Nobody => store.refresh \in handed
    /\ \A c \in Calls : call[c].token # Nobody => call[c].token \in handed
    /\ \A c \in Calls : call[c].at = "ok" => call[c].fresh \in handed

\* A successor nobody was handed yet lives and dies with the token it replaces,
\* as long as no two rotations work on one token.
Successor(c) ==
    /\ call[c].fresh \notin handed
    /\ token[call[c].fresh].family = token[call[c].token].family
    /\ Live(call[c].token) => Live(call[c].fresh)
    /\ "raced" \notin odd => (Live(call[c].fresh) => Live(call[c].token))
Successors ==
    /\ \A c \in Calls : call[c].at = "retire" => Successor(c)
    /\ \A c, d \in Calls : call[c].at = "retire" /\ call[d].at = "retire" /\ c # d =>
          /\ call[c].fresh # call[d].fresh
          /\ "raced" \notin odd => call[c].token # call[d].token

\* Until two activities ran over one another, or a revocation failed: what is live,
\* stored or on its way to the browser under the present password was opened with it.
Current ==
    Orderly =>
        /\ ~changing => \A x \in Tokens : Live(x) => family[token[x].family] = changes
        /\ store.refresh # Nobody /\ store.made = changes =>
              family[token[store.refresh].family] = changes
        /\ \A c \in Calls : call[c].at \in {"retire", "ok"} /\ call[c].seen = changes =>
              family[token[call[c].fresh].family] = changes

IInv == TokensTypeOK /\ Presents /\ Rows /\ Handing /\ Successors /\ LinearFamilies /\ Current

LEMMA InitIInv == TokensInit => IInv
<1> SUFFICES ASSUME TokensInit PROVE IInv
    OBVIOUS
<1>1. TokensTypeOK
    BY InitTyped
<1>2. Presents
    BY DEF TokensInit, Presents, NoCall
<1>3. Rows
    BY DEF TokensInit, Rows, NoToken, Empty
<1>4. Handing /\ Successors
    BY DEF TokensInit, Handing, Successors, NoCall, Empty
<1>5. LinearFamilies /\ Current
    BY DEF TokensInit, LinearFamilies, Current, Live, NoToken, NoCall, Empty
<1> QED
    BY <1>1, <1>2, <1>3, <1>4, <1>5 DEF IInv

\* A call as it was, for all that the invariant says of it.
Same(d) ==
    /\ call'[d].at = call[d].at /\ call'[d].token = call[d].token
    /\ call'[d].fresh = call[d].fresh /\ call'[d].alive = call[d].alive
    /\ call'[d].seen = call[d].seen

\* A call that goes on or ends without writing a row.
Harmless(d) ==
    /\ call'[d].at \notin {"retire", "ok"} /\ call'[d].seen <= changes
    /\ call'[d].at \in {"read", "reuse", "issue", "logout"} => Issued(call'[d].token)
    /\ call'[d].at = "issue" => call'[d].alive
    /\ call'[d].token # Nobody => call'[d].token \in handed

LEMMA QuietKeeps ==
    ASSUME IInv, TokensTypeOK', odd \subseteq odd',
           UNCHANGED <<changes, token, family, handed, changing>>,
           store' = store \/ store' = Empty,
           \A d \in Calls : Same(d) \/ Harmless(d)
    PROVE  IInv'
<1> USE DEF IInv
<1>1. Presents'
    BY DEF Presents, Same, Harmless, Issued
<1>2. Rows'
    <2>1. 0 <= changes
        BY ChangeBound DEF TokensTypeOK, Changes
    <2> QED
        BY <2>1 DEF Rows, Issued, Empty
<1>3. Handing'
    BY DEF Handing, Issued, Empty, Same, Harmless
<1>4. Successors'
    <2>1. \A d \in Calls : call'[d].at = "retire" =>
              /\ call[d].at = "retire" /\ call'[d].token = call[d].token
              /\ call'[d].fresh = call[d].fresh
        BY DEF Same, Harmless
    <2> QED
        BY <2>1 DEF Successors, Successor, Live
<1>5. LinearFamilies'
    BY DEF LinearFamilies, Live
<1>6. Current'
    BY DEF Current, Orderly, Live, Same, Harmless, Empty
<1> QED
    BY <1>1, <1>2, <1>3, <1>4, <1>5, <1>6

LEMMA StartKeeps ==
    ASSUME IInv, NEW t \in Tabs, NEW c \in Calls,
           RefreshStarts(t, c) \/ LoginVerifies(t, c) \/ LogoutStarts(t, c)
    PROVE  IInv'
<1> USE DEF IInv
<1>1. TokensTypeOK'
    BY BrowserTyped
<1>2. odd \subseteq odd'
    BY DEF RefreshStarts, LoginVerifies, LogoutStarts, Note
<1>3. \A d \in Calls \ {c} : Same(d)
    BY DEF TokensTypeOK, RefreshStarts, LoginVerifies, LogoutStarts, Same
<1>4. Harmless(c)
    <2>1. 0 <= changes /\ changes <= changes
        BY ChangeBound DEF TokensTypeOK, Changes
    <2>2. CASE RefreshStarts(t, c)
        <3>1. PICK urgent \in BOOLEAN :
                  call' = [call EXCEPT ![c] = [NoCall EXCEPT !.at = "read", !.by = t,
                                                 !.urgent = urgent, !.token = store.refresh]]
            BY <2>2 DEF RefreshStarts
        <3>2. /\ call'[c].at = "read" /\ call'[c].seen = 0
              /\ call'[c].token = store.refresh
            BY <3>1 DEF TokensTypeOK, NoCall
        <3>3. Issued(store.refresh) /\ token' = token /\ store.refresh \in handed
            BY <2>2 DEF RefreshStarts, Rows, Handing
        <3> QED
            BY <2>1, <3>2, <3>3 DEF Harmless, Issued
    <2>3. CASE LoginVerifies(t, c)
        BY <2>1, <2>3 DEF TokensTypeOK, LoginVerifies, Harmless, NoCall
    <2>4. CASE LogoutStarts(t, c)
        BY <2>1, <2>4 DEF TokensTypeOK, LogoutStarts, Harmless, NoCall, Rows, Handing, Issued
    <2> QED
        BY <2>2, <2>3, <2>4
<1> QED
    BY <1>1, <1>2, <1>3, <1>4, QuietKeeps DEF RefreshStarts, LoginVerifies, LogoutStarts

LEMMA TabKeeps ==
    ASSUME IInv, NEW t \in Tabs, RefreshJoined(t) \/ StorageEvent(t)
    PROVE  IInv'
<1> USE DEF IInv
<1>1. TokensTypeOK'
    BY TabTyped
<1>2. \A d \in Calls : Same(d)
    BY DEF TokensTypeOK, RefreshJoined, StorageEvent, Same, AuthCall
<1> QED
    BY <1>1, <1>2, QuietKeeps DEF RefreshJoined, StorageEvent

\* A call ends; the page of its tab may be left.
LEMMA EndIsQuiet ==
    ASSUME IInv, NEW c \in Calls, NEW t,
           EndsCall(c) \/ LeavesPage(c, t)
    PROVE  \A d \in Calls : Same(d) \/ Harmless(d)
<1>1. 0 <= changes
    BY ChangeBound DEF IInv, TokensTypeOK, Changes
<1> QED
    BY <1>1 DEF IInv, TokensTypeOK, AuthCall, EndsCall, LeavesPage, Same, Harmless, NoCall

LEMMA LeaveKeeps ==
    ASSUME IInv, NEW c \in Calls,
           RefreshFails(c) \/ AnswerLost(c) \/ LogoutClears(c) \/ LogoutForgotten(c)
    PROVE  IInv'
<1> USE DEF IInv
<1>1. TokensTypeOK'
    BY ReturnTyped, LeaveTyped
<1>2. CASE RefreshFails(c)
    <2>1. \A d \in Calls : Same(d) \/ Harmless(d)
        BY <1>2, EndIsQuiet DEF RefreshFails, GivesUp
    <2> QED
        BY <1>1, <1>2, <2>1, QuietKeeps DEF RefreshFails, GivesUp, Stores
<1>3. CASE AnswerLost(c)
    <2>1. \A d \in Calls : Same(d)
        BY <1>3 DEF AnswerLost, Same, TokensTypeOK, AuthCall
    <2> QED
        BY <1>1, <1>3, <2>1, QuietKeeps DEF AnswerLost, Stores, Note
<1>4. CASE LogoutClears(c)
    <2>1. \A d \in Calls : Same(d) \/ Harmless(d)
        <3>1. CASE Stage(c, "bye")
            BY <1>4, <3>1, EndIsQuiet DEF LogoutClears
        <3>2. CASE ~Stage(c, "bye")
            BY <1>4, <3>2 DEF LogoutClears, Same, TokensTypeOK, AuthCall
        <3> QED
            BY <3>1, <3>2
    <2> QED
        BY <1>1, <1>4, <2>1, QuietKeeps DEF LogoutClears, Stores
<1>5. CASE LogoutForgotten(c)
    <2>1. \A d \in Calls : Same(d) \/ Harmless(d)
        BY <1>5, EndIsQuiet DEF LogoutForgotten
    <2> QED
        BY <1>1, <1>5, <2>1, QuietKeeps DEF LogoutForgotten
<1> QED
    BY <1>2, <1>3, <1>4, <1>5

LEMMA ReadKeeps ==
    ASSUME IInv, NEW c \in Calls, RotationReads(c)
    PROVE  IInv'
<1> USE DEF IInv
<1>1. TokensTypeOK'
    BY ServerTyped
<1>2. PICK s \in {"reuse", "issue", "fail"} :
          /\ Reading(c, s)
          /\ s = "issue" => token[call[c].token].state = "live"
    BY DEF RotationReads
<1>3. \A d \in Calls \ {c} : Same(d)
    BY <1>2 DEF TokensTypeOK, Reading, Same
<1>4. Harmless(c)
    <2>1. Issued(call[c].token) /\ call[c].at = "read"
        BY DEF RotationReads, Stage, Presents
    <2>2. changes <= changes
        BY DEF TokensTypeOK, Changes
    <2>3. /\ call'[c].at = s /\ call'[c].seen = changes /\ call'[c].token = call[c].token
          /\ call'[c].alive = (token[call[c].token].state = "live")
        BY <1>2 DEF TokensTypeOK, Reading, AuthCall
    <2>4. s = "issue" => call'[c].alive
        BY <1>2, <2>3
    <2>5. call'[c].token # Nobody => call'[c].token \in handed
        BY <2>3 DEF Handing
    <2> QED
        BY <1>2, <2>1, <2>2, <2>3, <2>4, <2>5 DEF Harmless, Issued, Reading
<1> QED
    BY <1>1, <1>2, <1>3, <1>4, QuietKeeps DEF Reading

LEMMA FailKeeps ==
    ASSUME IInv, NEW c \in Calls, CallFails(c)
    PROVE  IInv'
<1> USE DEF IInv
<1>1. TokensTypeOK'
    BY ServerTyped
<1>2. CASE EndsCall(c)
    BY <1>1, <1>2, EndIsQuiet, QuietKeeps DEF CallFails
<1>3. ASSUME NEW s \in {"fail", "bye"}, call' = [call EXCEPT ![c].at = s] PROVE IInv'
    <2>1. \A d \in Calls \ {c} : Same(d)
        BY <1>3 DEF TokensTypeOK, Same
    <2>2. /\ call'[c].at = s /\ call'[c].seen = call[c].seen
          /\ call'[c].token = call[c].token
        BY <1>3 DEF TokensTypeOK, AuthCall
    <2>3. Harmless(c)
        BY <2>2 DEF Harmless, Presents, Handing
    <2> QED
        BY <1>1, <2>1, <2>3, QuietKeeps DEF CallFails
<1> QED
    BY <1>2, <1>3 DEF CallFails

\* The answer of a rotation gets to the browser.
LEMMA ReturnKeeps ==
    ASSUME IInv, NEW c \in Calls, RefreshReturns(c)
    PROVE  IInv'
<1> USE DEF IInv
<1>1. TokensTypeOK'
    BY ReturnTyped
<1>2. odd \subseteq odd' /\ UNCHANGED <<changes, token, family, handed, changing>>
    BY DEF RefreshReturns, Note
<1>3. \A d \in Calls : Same(d) \/ Harmless(d)
    BY EndIsQuiet DEF RefreshReturns
<1>4. \/ store' = store
      \/ store' = [refresh |-> call[c].fresh, made |-> call[c].seen, upto |-> call[c].upto]
    BY DEF RefreshReturns, Stores
<1>5. /\ call[c].at = "ok" /\ Issued(call[c].fresh) /\ call[c].seen <= changes
      /\ call[c].fresh \in handed
    BY DEF RefreshReturns, Stage, Presents, Handing
<1>6. Presents'
    BY <1>2, <1>3 DEF Presents, Same, Harmless, Issued
<1>7. Rows'
    BY <1>2, <1>4, <1>5 DEF Rows, Issued
<1>8. Handing'
    BY <1>2, <1>3, <1>4, <1>5 DEF Handing, Issued, Same, Harmless
<1>9. Successors'
    <2>1. \A d \in Calls : call'[d].at = "retire" =>
              /\ call[d].at = "retire" /\ call'[d].token = call[d].token
              /\ call'[d].fresh = call[d].fresh
        BY <1>3 DEF Same, Harmless
    <2> QED
        BY <1>2, <2>1 DEF Successors, Successor, Live
<1>10. LinearFamilies'
    BY <1>2 DEF LinearFamilies, Live
<1>11. Current'
    BY <1>2, <1>3, <1>4, <1>5 DEF Current, Orderly, Live, Same, Harmless
<1> QED
    BY <1>1, <1>6, <1>7, <1>8, <1>9, <1>10, <1>11

\* Rows are revoked, the token of a rotation together with its successor: nothing
\* else happens to them.
LEMMA RevokeKeeps ==
    ASSUME IInv, TokensTypeOK', NEW S, token' = Revoked(S),
           UNCHANGED <<changes, family, handed, store, odd>>,
           changing' = changing \/ Tokens \subseteq S,
           \A x, y \in Tokens : token[x].family = token[y].family => (x \in S <=> y \in S),
           \A d \in Calls : Same(d) \/ Harmless(d)
    PROVE  IInv'
<1> USE DEF IInv
<1>1. \A x \in Tokens :
          /\ token'[x].family = token[x].family
          /\ token'[x].state = "none" <=> token[x].state = "none"
          /\ token'[x].state = "live" <=> token[x].state = "live" /\ x \notin S
    BY RevokedTyped
<1>2. Presents'
    BY <1>1 DEF Presents, Same, Harmless, Issued
<1>3. Rows'
    BY <1>1 DEF Rows, Issued
<1>4. Handing'
    BY <1>1 DEF Handing, Issued, Same, Harmless
<1>5. Successors'
    <2>1. \A d \in Calls : call'[d].at = "retire" =>
              /\ call[d].at = "retire" /\ call'[d].token = call[d].token
              /\ call'[d].fresh = call[d].fresh
        BY DEF Same, Harmless
    <2>2. ASSUME NEW d \in Calls, call'[d].at = "retire" PROVE Successor(d)'
        <3>1. Successor(d) /\ Issued(call[d].token) /\ Issued(call[d].fresh)
            BY <2>1, <2>2 DEF Successors, Presents
        <3>2. PICK x \in Tokens, y \in Tokens : x = call[d].token /\ y = call[d].fresh
            BY <3>1 DEF Issued
        <3>3. token'[x].family = token'[y].family /\ (Live(x)' => Live(y)')
              /\ ("raced" \notin odd => (Live(y)' => Live(x)'))
            BY <1>1, <3>1, <3>2 DEF Successor, Live
        <3> QED
            BY <2>1, <2>2, <3>1, <3>2, <3>3 DEF Successor
    <2> QED
        BY <2>1, <2>2 DEF Successors
<1>6. LinearFamilies'
    BY <1>1 DEF LinearFamilies, Live, TokensTypeOK
<1>7. Current'
    <2>1. SUFFICES ASSUME Orderly PROVE Current'
        BY DEF Current, Orderly
    <2>2. ~changing' => \A x \in Tokens : Live(x)' => family'[token'[x].family] = changes'
        BY <1>1, <2>1 DEF Current, Live
    <2>3. store'.refresh # Nobody /\ store'.made = changes' =>
              family'[token'[store'.refresh].family] = changes'
        BY <1>1, <2>1 DEF Current, Rows, Issued
    <2>4. \A c \in Calls : call'[c].at \in {"retire", "ok"} /\ call'[c].seen = changes' =>
              family'[token'[call'[c].fresh].family] = changes'
        BY <1>1, <2>1 DEF Current, Presents, Issued, Same, Harmless
    <2> QED
        BY <2>2, <2>3, <2>4 DEF Current
<1> QED
    BY <1>2, <1>3, <1>4, <1>5, <1>6, <1>7

LEMMA RevocationsKeep ==
    ASSUME IInv,
           \/ PasswordRevokes \/ PasswordRevokesFails
           \/ \E c \in Calls : ReuseRevokes(c) \/ LogoutRevokes(c)
    PROVE  IInv'
<1> USE DEF IInv
<1>1. CASE PasswordRevokes
    <2>1. TokensTypeOK'
        BY <1>1, AccountTyped
    <2>2. \A d \in Calls : Same(d)
        BY <1>1 DEF PasswordRevokes, Same
    <2> QED
        BY <1>1, <2>1, <2>2, RevokeKeeps DEF PasswordRevokes
<1>2. ASSUME NEW c \in Calls, ReuseRevokes(c) \/ LogoutRevokes(c) PROVE IInv'
    <2>1. TokensTypeOK'
        BY <1>2, ServerTyped
    <2>2. PICK s \in {"fail", "bye"} : call' = [call EXCEPT ![c].at = s]
        BY <1>2 DEF ReuseRevokes, LogoutRevokes
    <2>3. \A d \in Calls : Same(d) \/ Harmless(d)
        BY <2>2 DEF TokensTypeOK, Presents, Handing, Same, Harmless, AuthCall
    <2> DEFINE S == Members(token[call[c].token].family)
    <2>4. token' = Revoked(S)
        BY <1>2 DEF ReuseRevokes, LogoutRevokes
    <2>5. \A x, y \in Tokens : token[x].family = token[y].family => (x \in S <=> y \in S)
        BY DEF Members
    <2> HIDE DEF S
    <2> QED
        BY <1>2, <2>1, <2>3, <2>4, <2>5, RevokeKeeps DEF ReuseRevokes, LogoutRevokes
<1>3. CASE PasswordRevokesFails
    <2>1. TokensTypeOK'
        BY <1>3, AccountTyped
    <2>2. UNCHANGED <<changes, token, family, handed, store, call>> /\ odd \subseteq odd'
          /\ ~Orderly'
        BY <1>3 DEF PasswordRevokesFails, Note, Orderly
    <2>3. Presents' /\ Rows' /\ Handing' /\ LinearFamilies'
        BY <2>2 DEF Presents, Rows, Handing, LinearFamilies, Live, Issued
    <2>4. Successors'
        BY <2>2 DEF Successors, Successor, Live
    <2> QED
        BY <2>1, <2>2, <2>3, <2>4 DEF Current
<1> QED
    BY <1>1, <1>2, <1>3

\* Everything that is live is old from here on, and on its way out.
LEMMA ChangeKeeps ==
    ASSUME IInv, PasswordChanges
    PROVE  IInv'
<1> USE DEF IInv
<1>1. TokensTypeOK'
    BY AccountTyped
<1>2. /\ changes \in Nat /\ changes' = changes + 1 /\ changing'
      /\ store.made \in Nat /\ \A c \in Calls : call[c].seen \in Nat
    BY ChangeBound DEF PasswordChanges, TokensTypeOK, Changes, AuthCall, Store
<1>3. UNCHANGED <<token, family, handed, store, call, odd>>
    BY DEF PasswordChanges
<1>4. Presents'
    BY <1>2, <1>3 DEF Presents, Issued
<1>5. Rows'
    BY <1>2, <1>3 DEF Rows, Issued
<1>6. Handing' /\ Successors' /\ LinearFamilies'
    BY <1>3 DEF Handing, Successors, Successor, LinearFamilies, Live, Issued
<1>7. Current'
    <2>1. store.made < changes' /\ \A c \in Calls : call[c].seen < changes'
        BY <1>2 DEF Rows, Presents
    <2> QED
        BY <1>2, <1>3, <2>1 DEF Current
<1> QED
    BY <1>1, <1>4, <1>5, <1>6, <1>7

\* A rotation that nothing has overtaken finds its token live.
LEMMA FreshIsLive ==
    ASSUME IInv, NEW c \in Calls, RotationIssues(c), "raced" \notin odd'
    PROVE  /\ Issued(call[c].token) /\ Live(call[c].token) /\ ~changing /\ call[c].seen = changes
           /\ "raced" \notin odd
           /\ \A d \in Calls : ~(call[d].at = "retire" /\ call[d].token = call[c].token)
<1>1. ~Overtaken(c) /\ ~PasswordMoved(c) /\ "raced" \notin odd
    BY DEF RotationIssues, Note
<1>2. call[c].at = "issue" /\ Issued(call[c].token) /\ call[c].alive
    BY DEF IInv, RotationIssues, Stage, Presents
<1>3. token[call[c].token].state \in {"live", "revoked"}
    BY <1>2 DEF IInv, TokensTypeOK, Token, TokenStates, Issued
<1> QED
    BY <1>1, <1>2, <1>3 DEF Overtaken, PasswordMoved, Live, Stage

LEMMA IssueKeeps ==
    ASSUME IInv, NEW c \in Calls, RotationIssues(c)
    PROVE  IInv'
<1> USE DEF IInv
<1>4. Issued(call[c].token) /\ call[c].at = "issue" /\ call[c].alive
    BY DEF RotationIssues, Stage, Presents
<1>0. PICK x \in Tokens, f \in Families : x = call[c].token /\ f = token[x].family
    BY <1>4 DEF Issued, Rows
<1>1. TokensTypeOK'
    BY ServerTyped
<1>2. PICK y \in Tokens :
          /\ token[y].state = "none"
          /\ token' = [token EXCEPT ![y] = [state |-> "live", family |-> f]]
          /\ call' = [call EXCEPT ![c].at = "retire", ![c].fresh = y]
    BY <1>0 DEF RotationIssues
<1>3. UNCHANGED <<changes, family, handed, changing, store>> /\ odd \subseteq odd'
    BY DEF RotationIssues, Note
<1>5. Issued(x) /\ x # y /\ y \notin handed
    BY <1>0, <1>2, <1>4 DEF Issued, Handing
<1>6. /\ token'[y].state = "live" /\ token'[y].family = f
      /\ \A z \in Tokens \ {y} : token'[z] = token[z]
    BY <1>2 DEF TokensTypeOK
<1>7. /\ call'[c].at = "retire" /\ call'[c].fresh = y /\ call'[c].token = x
      /\ call'[c].seen = call[c].seen
      /\ \A d \in Calls \ {c} : call'[d] = call[d]
    BY <1>0, <1>2 DEF TokensTypeOK, AuthCall
<1>13. call'[c].alive
    <2>1. call'[c].alive = call[c].alive
        BY <1>2 DEF TokensTypeOK, AuthCall
    <2> QED
        BY <1>4, <2>1
<1>8. \A z : Issued(z) => Issued(z)' /\ z # y /\ token'[z] = token[z]
    BY <1>2, <1>6 DEF Issued
<1>9. Presents'
    <2>1. \A d \in Calls : call'[d].at \in {"issue", "retire"} => call'[d].alive
        BY <1>7, <1>13 DEF Presents
    <2>2. \A d \in Calls :
              /\ (call[d].at \in {"read", "reuse", "issue", "retire", "logout"} =>
                      Issued(call[d].token))'
              /\ (call[d].at \in {"retire", "ok"} => Issued(call[d].fresh))'
              /\ (call[d].seen <= changes)'
        BY <1>3, <1>5, <1>6, <1>7, <1>8 DEF Presents, Issued
    <2> QED
        BY <2>1, <2>2 DEF Presents
<1>10. Rows'
    BY <1>3, <1>5, <1>6, <1>8 DEF Rows
<1>14. Handing'
    <2>1. \A d \in Calls : call'[d].token = call[d].token
                           /\ (call'[d].at = "ok" => call[d].at = "ok" /\ call'[d] = call[d])
        BY <1>0, <1>7
    <2> QED
        BY <1>3, <1>8, <2>1 DEF Handing
<1>15. Successors'
    <2>1. Successor(c)'
        <3>1. "raced" \notin odd' => Live(x)
            BY <1>0, FreshIsLive
        <3> QED
            BY <1>0, <1>3, <1>5, <1>6, <1>7, <3>1 DEF Successor, Live
    <2>2. ASSUME NEW d \in Calls, d # c, call'[d].at = "retire"
          PROVE  Successor(d)' /\ call'[d].fresh # y
                 /\ ("raced" \notin odd' => call'[d].token # x)
        <3>1. call'[d] = call[d] /\ Successor(d)
              /\ Issued(call[d].token) /\ Issued(call[d].fresh)
            BY <1>7, <2>2 DEF Successors, Presents
        <3>2. "raced" \notin odd' => call[d].token # x
            BY <1>0, <2>2, <3>1, FreshIsLive
        <3> QED
            BY <1>3, <1>8, <3>1, <3>2 DEF Successor, Live
    <2> QED
        BY <1>3, <1>7, <2>1, <2>2 DEF Successors
<1>11. LinearFamilies'
    BY <1>3, <1>8 DEF LinearFamilies, Live, Handing
<1>12. Current'
    <2>1. SUFFICES ASSUME Orderly' PROVE Current'
        BY DEF Current
    <2>2. ~changing /\ Orderly /\ family[f] = changes
        BY <1>0, <1>3, <2>1, FreshIsLive DEF Current, Orderly
    <2>3. \A z \in Tokens : Live(z)' => family[token'[z].family] = changes
        BY <1>6, <2>2 DEF Current, Live
    <2>4. store'.refresh # Nobody /\ store'.made = changes' =>
              family'[token'[store'.refresh].family] = changes'
        BY <1>3, <1>6, <1>8, <2>2 DEF Current, Rows, Issued
    <2>5. \A d \in Calls : call'[d].at \in {"retire", "ok"} /\ call'[d].seen = changes' =>
              family'[token'[call'[d].fresh].family] = changes'
        BY <1>3, <1>6, <1>7, <1>8, <2>2 DEF Current, Presents, Issued
    <2> QED
        BY <1>3, <2>3, <2>4, <2>5 DEF Current
<1> QED
    BY <1>1, <1>9, <1>10, <1>14, <1>15, <1>11, <1>12

LEMMA RetireKeeps ==
    ASSUME IInv, NEW c \in Calls, RotationRetires(c)
    PROVE  IInv'
<1> USE DEF IInv
<1>1. TokensTypeOK'
    BY ServerTyped
<1>3. call[c].at = "retire" /\ Issued(call[c].token) /\ Issued(call[c].fresh) /\ call[c].alive
    BY DEF RotationRetires, Stage, Presents
<1>4. PICK x \in Tokens, y \in Tokens : x = call[c].token /\ y = call[c].fresh
    BY <1>3 DEF Issued
<1>2. /\ UNCHANGED <<changes, family, changing, store>> /\ odd \subseteq odd'
      /\ handed' = handed \cup {y}
    BY <1>4 DEF RotationRetires, Returns, Note
<1>14. /\ x \in handed /\ y \notin handed /\ token[y].family = token[x].family
       /\ "raced" \notin odd => (Live(y) => Live(x))
    BY <1>3, <1>4, NobodyTypes DEF Handing, Successors, Successor
<1>5. /\ token'[x].state = "revoked" /\ token'[x].family = token[x].family
      /\ \A z \in Tokens \ {x} : token'[z] = token[z]
    BY <1>4 DEF RotationRetires, TokensTypeOK, Token
<1>6. /\ call'[c].at = "ok" /\ call'[c].fresh = y
      /\ call'[c].token = x /\ call'[c].seen = changes
      /\ \A d \in Calls \ {c} : call'[d] = call[d]
    <2>1. PICK u \in changes .. MaxChanges :
              call' = [call EXCEPT ![c].at = "ok", ![c].seen = changes, ![c].upto = u]
        BY DEF RotationRetires, Returns
    <2> QED
        BY <1>4, <2>1 DEF TokensTypeOK, AuthCall
<1>7. \A z : Issued(z) => Issued(z)'
    BY <1>5 DEF Issued
<1>8. Presents'
    <2>1. \A d \in Calls : call'[d].at \in {"issue", "retire"} => call'[d].alive
        BY <1>6 DEF Presents
    <2>2. changes <= changes
        BY DEF TokensTypeOK, Changes
    <2>3. \A d \in Calls :
              /\ (call[d].at \in {"read", "reuse", "issue", "retire", "logout"} =>
                      Issued(call[d].token))'
              /\ (call[d].at \in {"retire", "ok"} => Issued(call[d].fresh))'
              /\ (call[d].seen <= changes)'
        BY <1>2, <1>3, <1>4, <1>5, <1>6, <2>2 DEF Presents, Issued
    <2> QED
        BY <2>1, <2>3 DEF Presents
<1>9. Rows'
    <2>1. \A z \in Tokens : token'[z].state # "none" => token'[z].family \in Families
        BY <1>3, <1>4, <1>5 DEF Rows, Issued
    <2> QED
        BY <1>2, <1>7, <2>1 DEF Rows
<1>12. Handing'
    BY <1>2, <1>3, <1>4, <1>6, <1>7, <1>14 DEF Handing
<1>13. Successors'
    <2>1. ASSUME NEW d \in Calls, call'[d].at = "retire"
          PROVE  Successor(d)' /\ call'[d] = call[d]
        <3>1. d # c /\ call'[d] = call[d] /\ call[d].at = "retire"
            BY <1>6, <2>1
        <3>2. Successor(d) /\ Issued(call[d].token) /\ Issued(call[d].fresh)
            BY <3>1 DEF Successors, Presents
        <3>3. PICK v \in Tokens, w \in Tokens : v = call[d].token /\ w = call[d].fresh
            BY <3>2 DEF Issued
        <3>4. w # y /\ ("raced" \notin odd => v # x)
            BY <1>3, <1>4, <3>1, <3>3 DEF Successors
        <3>5. w \notin handed' /\ w # x
            BY <1>2, <1>14, <3>2, <3>3, <3>4 DEF Successor
        <3>6. token'[w] = token[w] /\ token'[v].family = token[v].family
              /\ (Live(v)' => Live(v)) /\ (v # x => token'[v] = token[v])
            BY <1>5, <3>5 DEF Live
        <3> QED
            BY <1>2, <3>1, <3>2, <3>3, <3>4, <3>5, <3>6 DEF Successor, Live
    <2>2. ASSUME NEW d \in Calls, NEW e \in Calls, d # e,
                 call'[d].at = "retire", call'[e].at = "retire"
          PROVE  /\ call'[d].fresh # call'[e].fresh
                 /\ "raced" \notin odd' => call'[d].token # call'[e].token
        BY <1>2, <2>1, <2>2 DEF Successors
    <2> QED
        BY <2>1, <2>2 DEF Successors
<1>10. LinearFamilies'
    <2>1. SUFFICES ASSUME "raced" \notin odd', NEW z \in handed', NEW w \in handed',
                          Live(z)', Live(w)', token'[z].family = token'[w].family
                   PROVE  z = w
        BY DEF LinearFamilies
    <2>2. "raced" \notin odd
        BY <1>2, <2>1
    <2>3. /\ z \in Tokens /\ w \in Tokens /\ z # x /\ w # x /\ Live(z) /\ Live(w)
          /\ token[z].family = token[w].family
        BY <1>1, <1>5, <2>1 DEF Live, TokensTypeOK
    <2>4. ASSUME NEW v \in handed, Live(v), v # x, token[v].family = token[y].family, Live(y)
          PROVE  FALSE
        BY <1>14, <2>2, <2>4 DEF LinearFamilies
    <2>5. CASE z # y /\ w # y
        BY <1>2, <2>1, <2>2, <2>3, <2>5 DEF LinearFamilies
    <2> QED
        BY <1>2, <2>3, <2>4, <2>5
<1>11. Current'
    <2>1. SUFFICES ASSUME Orderly' PROVE Current'
        BY DEF Current
    <2>2. ~changing /\ call[c].seen = changes /\ Orderly
        BY <2>1 DEF RotationRetires, Returns, Note, PasswordMoved, Orderly
    <2>3. \A z \in Tokens : token'[z].family = token[z].family /\ (Live(z)' => Live(z))
        BY <1>5 DEF Live
    <2> QED
        BY <1>2, <1>3, <1>4, <1>6, <2>2, <2>3 DEF Current, Presents, Rows, Issued
<1> QED
    BY <1>1, <1>8, <1>9, <1>12, <1>13, <1>10, <1>11

LEMMA LoginKeeps ==
    ASSUME IInv, NEW c \in Calls, LoginIssues(c)
    PROVE  IInv'
<1> USE DEF IInv
<1>1. TokensTypeOK'
    BY AccountTyped
<1>2. PICK x \in Tokens, f \in Families \ OpenedFamilies, u \in changes .. MaxChanges :
          /\ token[x].state = "none"
          /\ token' = [token EXCEPT ![x] = [state |-> "live", family |-> f]]
          /\ family' = [family EXCEPT ![f] = call[c].seen]
          /\ handed' = handed \cup {x}
          /\ store' = store \/ store' = [refresh |-> x, made |-> changes, upto |-> u]
    BY DEF LoginIssues, Stores
<1>3. UNCHANGED <<changes, changing>> /\ call[c].at = "login" /\ odd \subseteq odd'
    BY DEF LoginIssues, Stage, Note
<1>4. /\ token'[x].state = "live" /\ token'[x].family = f
      /\ \A z \in Tokens \ {x} : token'[z] = token[z]
    BY <1>2 DEF TokensTypeOK
<1>5. family'[f] = call[c].seen /\ \A g \in Families \ {f} : family'[g] = family[g]
    BY <1>2 DEF TokensTypeOK
<1>6. \A z : Issued(z) => /\ z # x /\ Issued(z)' /\ token'[z] = token[z]
                         /\ token[z].family \in Families \ {f}
    <2>1. ASSUME NEW z, Issued(z) PROVE token[z].family \in Families \ {f}
        <3>1. z \in Tokens /\ token[z].family \in Families
            BY <2>1 DEF Issued, Rows
        <3>2. token[z].family \in OpenedFamilies
            BY <3>1, NobodyTypes DEF OpenedFamilies
        <3> QED
            BY <3>1, <3>2
    <2> QED
        BY <1>2, <1>4, <2>1 DEF Issued
<1>7. \A d \in Calls : Same(d) \/ Harmless(d)
    BY <1>3, EndIsQuiet DEF LoginIssues
<1>8. Presents'
    <2>1. \A d \in Calls : call'[d].at \in {"issue", "retire"} => call'[d].alive
        BY <1>7 DEF Same, Harmless, Presents
    <2>2. \A d \in Calls :
              /\ (call[d].at \in {"read", "reuse", "issue", "retire", "logout"} =>
                      Issued(call[d].token))'
              /\ (call[d].at \in {"retire", "ok"} => Issued(call[d].fresh))'
              /\ (call[d].seen <= changes)'
        BY <1>3, <1>6, <1>7 DEF Presents, Issued, Same, Harmless
    <2> QED
        BY <2>1, <2>2 DEF Presents
<1>9. Rows'
    <2>1. changes <= changes
        BY DEF TokensTypeOK, Changes
    <2>2. \A z \in Tokens : token'[z].state # "none" => token'[z].family \in Families
        BY <1>4 DEF Rows
    <2> QED
        BY <1>2, <1>3, <1>4, <1>6, <2>1, <2>2 DEF Rows, Issued
<1>12. Handing'
    <2>1. Issued(x)'
        BY <1>4 DEF Issued
    <2> QED
        BY <1>2, <1>6, <1>7, <2>1 DEF Handing, Same, Harmless
<1>13. Successors'
    <2>1. \A d \in Calls : call'[d].at = "retire" =>
              /\ call[d].at = "retire" /\ call'[d].token = call[d].token
              /\ call'[d].fresh = call[d].fresh
        BY <1>7 DEF Same, Harmless
    <2>2. ASSUME NEW d \in Calls, call'[d].at = "retire" PROVE Successor(d)'
        <3>1. Successor(d) /\ Issued(call[d].token) /\ Issued(call[d].fresh)
            BY <2>1, <2>2 DEF Successors, Presents
        <3> QED
            BY <1>2, <1>3, <1>6, <2>1, <2>2, <3>1 DEF Successor, Live
    <2> QED
        BY <1>3, <2>1, <2>2 DEF Successors
<1>10. LinearFamilies'
    <2>1. \A z \in handed : token'[z] = token[z] /\ token[z].family # f
        BY <1>6 DEF Handing
    <2> QED
        BY <1>2, <1>3, <1>4, <2>1 DEF LinearFamilies, Live
<1>11. Current'
    <2>1. SUFFICES ASSUME Orderly' PROVE Current'
        BY DEF Current
    <2>2. ~changing /\ call[c].seen = changes /\ Orderly
        BY <2>1 DEF LoginIssues, Note, PasswordMoved, Orderly
    <2>3. \A z : Issued(z) => family'[token'[z].family] = family[token[z].family]
        BY <1>5, <1>6
    <2>4. \A z \in Tokens : Live(z)' => family'[token'[z].family] = changes'
        BY <1>3, <1>4, <1>5, <2>2, <2>3 DEF Current, Live, Issued
    <2>5. store'.refresh # Nobody /\ store'.made = changes' =>
              family'[token'[store'.refresh].family] = changes'
        BY <1>2, <1>3, <1>4, <1>5, <2>2, <2>3 DEF Current, Rows
    <2>6. \A d \in Calls : call'[d].at \in {"retire", "ok"} /\ call'[d].seen = changes' =>
              family'[token'[call'[d].fresh].family] = changes'
        BY <1>3, <1>7, <2>2, <2>3 DEF Current, Presents, Same, Harmless
    <2> QED
        BY <1>3, <2>4, <2>5, <2>6 DEF Current
<1> QED
    BY <1>1, <1>8, <1>9, <1>12, <1>13, <1>10, <1>11

LEMMA NextKeeps == IInv /\ [TokensNext]_tokenVars => IInv'
<1> SUFFICES ASSUME IInv, [TokensNext]_tokenVars PROVE IInv'
    OBVIOUS
<1>1. CASE UNCHANGED tokenVars
    <2>1. TokensTypeOK' /\ Presents' /\ Rows' /\ Handing' /\ LinearFamilies' /\ Current'
        BY <1>1 DEF tokenVars, IInv, TokensTypeOK, Presents, Rows, Handing, LinearFamilies,
                    Current, Orderly, Issued, Live
    <2>2. Successors'
        BY <1>1 DEF tokenVars, IInv, Successors, Successor, Live
    <2> QED
        BY <2>1, <2>2 DEF IInv
<1>2. ASSUME NEW t \in Tabs, NEW c \in Calls,
             RefreshStarts(t, c) \/ LoginVerifies(t, c) \/ LogoutStarts(t, c)
      PROVE  IInv'
    BY <1>2, StartKeeps
<1>3. ASSUME NEW t \in Tabs, RefreshJoined(t) \/ StorageEvent(t) PROVE IInv'
    BY <1>3, TabKeeps
<1>4. ASSUME NEW c \in Calls,
             \/ RefreshReturns(c) \/ RefreshFails(c) \/ AnswerLost(c)
             \/ RotationReads(c) \/ ReuseRevokes(c) \/ RotationIssues(c) \/ RotationRetires(c)
             \/ LoginIssues(c) \/ LogoutRevokes(c) \/ LogoutClears(c) \/ LogoutForgotten(c)
             \/ CallFails(c)
      PROVE  IInv'
    BY <1>4, ReturnKeeps, LeaveKeeps, ReadKeeps, RevocationsKeep, IssueKeeps, RetireKeeps,
       LoginKeeps, FailKeeps
<1>5. CASE PasswordChanges \/ PasswordRevokes \/ PasswordRevokesFails
    BY <1>5, ChangeKeeps, RevocationsKeep
<1> QED
    BY <1>1, <1>2, <1>3, <1>4, <1>5 DEF TokensNext

----------------------------------------------------------------------------
(* What a step does to a family whose rows are all revoked *)

LEMMA SameRows == ASSUME token' = token, NEW f, Dead(f) PROVE Dead(f)'
BY DEF Dead, OpenedFamilies, Members

LEMMA RevokedRows ==
    ASSUME TokensTypeOK, NEW S, token' = Revoked(S), NEW f, Dead(f)
    PROVE  Dead(f)'
<1>1. \A x \in Tokens : token'[x].family = token[x].family
                        /\ (token[x].state = "revoked" => token'[x].state = "revoked")
    BY DEF Revoked, TokensTypeOK, Token
<1> QED
    BY <1>1 DEF Dead, OpenedFamilies, Members

LEMMA DeadStep ==
    ASSUME IInv, [TokensNext]_tokenVars, NEW f \in Families, "raced" \notin odd', Dead(f)
    PROVE  Dead(f)'
<1> USE DEF IInv
<1>1. CASE UNCHANGED tokenVars
    BY <1>1, SameRows DEF tokenVars
<1>2. CASE \E t \in Tabs, c \in Calls :
               RefreshStarts(t, c) \/ LoginVerifies(t, c) \/ LogoutStarts(t, c)
    BY <1>2, SameRows DEF RefreshStarts, LoginVerifies, LogoutStarts
<1>3. CASE \E t \in Tabs : RefreshJoined(t) \/ StorageEvent(t)
    BY <1>3, SameRows DEF RefreshJoined, StorageEvent
<1>4. CASE \E c \in Calls : \/ RefreshReturns(c) \/ RefreshFails(c) \/ AnswerLost(c)
                            \/ RotationReads(c) \/ LogoutClears(c) \/ LogoutForgotten(c)
                            \/ CallFails(c)
    BY <1>4, SameRows DEF RefreshReturns, RefreshFails, AnswerLost, RotationReads, Reading,
                          LogoutClears, LogoutForgotten, CallFails
<1>5. CASE \E c \in Calls : ReuseRevokes(c) \/ LogoutRevokes(c)
    <2>1. PICK S : token' = Revoked(S)
        BY <1>5 DEF ReuseRevokes, LogoutRevokes
    <2> QED
        BY <2>1, RevokedRows
<1>6. ASSUME NEW c \in Calls, RotationIssues(c) PROVE Dead(f)'
    <2>1. Issued(call[c].token)
        BY <1>6 DEF RotationIssues, Stage, Presents
    <2>2. PICK x \in Tokens : x = call[c].token
        BY <2>1 DEF Issued
    <2>3. PICK y \in Tokens :
              /\ token[y].state = "none"
              /\ token' = [token EXCEPT ![y] = [state |-> "live", family |-> token[x].family]]
        BY <1>6, <2>2 DEF RotationIssues
    <2>4. Live(x)
        BY <1>6, <2>2, FreshIsLive
    <2>5. token[x].family # f /\ y \notin Members(f)
        BY <2>3, <2>4 DEF Dead, Members, Live
    <2>6. /\ token'[y].family = token[x].family
          /\ \A z \in Tokens \ {y} : token'[z] = token[z]
        BY <2>3 DEF TokensTypeOK
    <2> QED
        BY <2>5, <2>6 DEF Dead, OpenedFamilies, Members
<1>7. ASSUME NEW c \in Calls, RotationRetires(c) PROVE Dead(f)'
    <2>1. \A z \in Tokens : token'[z].family = token[z].family
                            /\ (token[z].state = "revoked" => token'[z].state = "revoked")
        BY <1>7 DEF RotationRetires, TokensTypeOK, Token
    <2> QED
        BY <2>1 DEF Dead, OpenedFamilies, Members
<1>8. ASSUME NEW c \in Calls, LoginIssues(c) PROVE Dead(f)'
    <2>1. PICK x \in Tokens, g \in Families \ OpenedFamilies :
              /\ token[x].state = "none"
              /\ token' = [token EXCEPT ![x] = [state |-> "live", family |-> g]]
        BY <1>8 DEF LoginIssues
    <2>2. g # f /\ x \notin Members(f)
        BY <2>1 DEF Dead, Members
    <2>3. token'[x].family = g /\ \A z \in Tokens \ {x} : token'[z] = token[z]
        BY <2>1 DEF TokensTypeOK
    <2> QED
        BY <2>2, <2>3 DEF Dead, OpenedFamilies, Members
<1>9. CASE PasswordChanges \/ PasswordRevokesFails
    BY <1>9, SameRows DEF PasswordChanges, PasswordRevokesFails
<1>10. CASE PasswordRevokes
    BY <1>10, RevokedRows DEF PasswordRevokes
<1> QED
    BY <1>1, <1>2, <1>3, <1>4, <1>5, <1>6, <1>7, <1>8, <1>9, <1>10 DEF TokensNext

----------------------------------------------------------------------------
LEMMA Invariant == TokensSpec => []IInv
<1> QED
    BY InitIInv, NextKeeps, PTL DEF TokensSpec

\* The variables keep their types.
THEOREM TokensTyped == TokensSpec => []TokensTypeOK
<1>1. IInv => TokensTypeOK
    BY DEF IInv
<1> QED
    BY <1>1, Invariant, PTL

\* Of the tokens of a family that a call has returned one is live at most, whatever
\* refreshes, logins, logouts and password changes there are and whichever of their
\* statements fail, unless two of them ran over one another.
THEOREM FamiliesAreLinear == TokensSpec => []LinearFamilies
<1>1. IInv => LinearFamilies
    BY DEF IInv
<1> QED
    BY <1>1, Invariant, PTL

\* A password change, once done, ends every session opened with the old password:
\* no live token belongs to one, nor an access token that validateToken accepts,
\* but for one made within its second of slack; unless a call ran over the change
\* or its revocation failed.
THEOREM PasswordEnds == TokensSpec => []PasswordEndsSessions
<1>1. IInv => PasswordEndsSessions
    <2>1. SUFFICES ASSUME IInv, Orderly, ~changing
                   PROVE  /\ \A x \in Tokens : Live(x) => family[token[x].family] = changes
                          /\ Accepted(store) /\ ~Slack(store) =>
                                family[token[store.refresh].family] = changes
        BY DEF PasswordEndsSessions
    <2>2. store.made \in Nat /\ changes \in Nat /\ store.made <= changes
        BY <2>1, ChangeBound DEF IInv, TokensTypeOK, Store, Changes, Rows
    <2>3. Accepted(store) /\ ~Slack(store) => store.refresh # Nobody /\ store.made = changes
        BY <2>1, <2>2 DEF Accepted, Slack, IInv, TokensTypeOK, Store, Changes
    <2> QED
        BY <2>1, <2>3 DEF IInv, Current
<1> QED
    BY <1>1, Invariant, PTL

\* A family that logout, a reuse or a password change ended stays ended: no
\* step makes a row of it live, unless a rotation ran over the revocation.
THEOREM DeadFamiliesStayDead == TokensSpec => DeadStaysDead
<1>1. IInv /\ [TokensNext]_tokenVars =>
          [\A f \in Families : "raced" \notin odd' /\ Dead(f) => Dead(f)']_tokenVars
    BY DeadStep
<1> QED
    BY <1>1, Invariant, PTL DEF TokensSpec, DeadStaysDead

----------------------------------------------------------------------------
(* The browser holds the end of its family *)

\* A rotation in progress, at the server or on its way to the browser and back.
Turning(c) == call[c].at \in {"read", "reuse", "issue", "retire", "ok", "fail"}
Goes(c) == call[c].at \in {"logout", "bye"}
Of(c, x) == token[call[c].token].family = token[x].family

\* A new token is of the family of the one it replaces, and not that one.
Descends ==
    /\ \A c \in Calls : Turning(c) \/ Goes(c) => Issued(call[c].token)
    /\ \A c \in Calls : call[c].at \in {"retire", "ok"} =>
          /\ call[c].fresh # call[c].token
          /\ Issued(call[c].fresh)
          /\ token[call[c].fresh].family = token[call[c].token].family
    /\ \A f \in Families : family[f] <= changes

Excused(x) ==
    \/ changing \/ family[token[x].family] # changes
    \/ \E c \in Calls : Goes(c) /\ call[c].by # Nobody

\* What the token x stored by the browser may be, and who works on its family.
HeldEnd(x) ==
    /\ token[x].state = "revoked" => Replacing(x) \/ Excused(x)
    /\ \A c \in Calls : Turning(c) /\ Of(c, x) => call[c].token = x /\ call[c].by # Nobody
    /\ \A c \in Calls : Stage(c, "reuse") /\ Of(c, x) => Excused(x)
    /\ \A c \in Calls : Goes(c) /\ call[c].by = Nobody => ~Of(c, x)
    /\ \A c \in Calls : call[c].at \in {"retire", "ok"} /\ call[c].token = x
                        /\ token[call[c].fresh].state = "revoked" => Excused(x)

\* No token is presented twice, and a change in progress leaves nothing of its own time.
OneEach == \A c, d \in Calls : Turning(c) /\ Turning(d) /\ c # d => call[c].token # call[d].token
NoneYet == changing => \A x \in Tokens : Issued(x) => family[token[x].family] # changes
Held == odd = {} => OneEach /\ NoneYet /\ (store.refresh # Nobody => HeldEnd(store.refresh))

\* A call as it was, for what is said here of it, its tab aside; and a call that is over.
Stays(d) ==
    /\ call'[d].at = call[d].at /\ call'[d].token = call[d].token /\ call'[d].fresh = call[d].fresh
Still(d) == Stays(d) /\ call'[d].by = call[d].by
Over(d) == ~Turning(d)' /\ ~Goes(d)'

LEMMA DescendsOn ==
    ASSUME Descends, \A z : Issued(z) => Issued(z)' /\ token'[z].family = token[z].family,
           \A f \in Families : family'[f] <= changes',
           \A d \in Calls :
              \/ Stays(d) \/ Over(d)
              \/ /\ Issued(call[d].token)' /\ call'[d].at \notin {"retire", "ok"}
              \/ /\ call[d].at = "retire" /\ call'[d].at = "ok"
                 /\ call'[d].token = call[d].token /\ call'[d].fresh = call[d].fresh
    PROVE  Descends'
<1>1. \A d \in Calls : (Turning(d) \/ Goes(d))' => Issued(call[d].token)'
    BY DEF Descends, Stays, Over, Turning, Goes, Issued
<1>2. \A d \in Calls : call'[d].at \in {"retire", "ok"} =>
          /\ call[d].at \in {"retire", "ok"} /\ call'[d].token = call[d].token
          /\ call'[d].fresh = call[d].fresh
    BY DEF Stays, Over, Turning
<1>3. \A d \in Calls : call'[d].at \in {"retire", "ok"} =>
          /\ Issued(call[d].token) /\ Issued(call[d].fresh) /\ call[d].fresh # call[d].token
          /\ token[call[d].fresh].family = token[call[d].token].family
    BY <1>2 DEF Descends, Turning
<1>4. \A d \in Calls : call'[d].at \in {"retire", "ok"} =>
          /\ call'[d].fresh # call'[d].token /\ Issued(call[d].fresh)'
          /\ token'[call'[d].fresh].family = token'[call'[d].token].family
    BY <1>2, <1>3 DEF Issued
<1> QED
    BY <1>1, <1>4 DEF Descends, Turning, Goes

\* Calls end that revoke nothing, or go on as they were.
LEMMA QuietHolds ==
    ASSUME IInv, Descends, Held, odd' = odd,
           UNCHANGED <<changes, token, family, handed, changing, store>>,
           \A d \in Calls :
              \/ Still(d)
              \/ Over(d) /\ call[d].at # "ok" /\ (Goes(d) => call[d].by = Nobody)
    PROVE  Descends' /\ Held'
<1>1. Descends'
    <2>1. \A z : Issued(z) => Issued(z)' /\ token'[z].family = token[z].family
        BY DEF Issued
    <2> QED
        BY <2>1, DescendsOn DEF Still, Descends
<1>2. SUFFICES ASSUME odd = {} PROVE Held'
    BY <1>1 DEF Held
<1>3. OneEach' /\ NoneYet'
    BY <1>2 DEF Held, OneEach, NoneYet, Still, Stays, Over, Turning, Issued
<1>4. ASSUME NEW x, x = store.refresh, x # Nobody PROVE HeldEnd(x)'
    <2>1. HeldEnd(x)
        BY <1>2, <1>4 DEF Held
    <2>2. (Replacing(x) => Replacing(x)') /\ (Excused(x) => Excused(x)')
        BY DEF Replacing, Excused, Still, Stays, Over, Goes, Stage
    <2>3. \A c \in Calls : ~Over(c) => Still(c) /\ (Of(c, x)' <=> Of(c, x))
        BY DEF Still, Stays, Of
    <2>4. \A c \in Calls : (Turning(c)' => ~Over(c)) /\ (Goes(c)' => ~Over(c))
        BY DEF Over
    <2>5. (token[x].state = "revoked" => Replacing(x) \/ Excused(x))'
        BY <2>1, <2>2 DEF HeldEnd
    <2>6. ASSUME NEW c \in Calls
          PROVE  /\ (Turning(c) /\ Of(c, x) => call[c].token = x /\ call[c].by # Nobody)'
                 /\ (Stage(c, "reuse") /\ Of(c, x) => Excused(x))'
                 /\ (Goes(c) /\ call[c].by = Nobody => ~Of(c, x))'
                 /\ (call[c].at \in {"retire", "ok"} /\ call[c].token = x
                        /\ token[call[c].fresh].state = "revoked" => Excused(x))'
        <3>1. CASE Over(c)
            BY <3>1 DEF Over, Turning, Goes, Stage
        <3>2. CASE ~Over(c)
            BY <2>1, <2>2, <2>3, <3>2 DEF HeldEnd, Still, Stays, Turning, Goes, Stage
        <3> QED
            BY <3>1, <3>2
    <2> QED
        BY <2>5, <2>6 DEF HeldEnd
<1> QED
    BY <1>2, <1>3, <1>4 DEF Held

\* The page is left: nothing is stored any more.
LEMMA EmptyHolds ==
    ASSUME IInv, Descends, Held, odd \subseteq odd', store' = Empty \/ odd' # {},
           UNCHANGED <<changes, token, family, handed, changing>>,
           \A d \in Calls : Stays(d) \/ Over(d)
    PROVE  Descends' /\ Held'
<1>1. Descends'
    <2>1. \A z : Issued(z) => Issued(z)' /\ token'[z].family = token[z].family
        BY DEF Issued
    <2> QED
        BY <2>1, DescendsOn DEF Descends
<1>2. SUFFICES ASSUME odd' = {} PROVE Held'
    BY <1>1 DEF Held
<1>3. odd = {} /\ store'.refresh = Nobody
    BY <1>2 DEF Empty
<1>4. OneEach' /\ NoneYet'
    BY <1>3 DEF Held, OneEach, NoneYet, Stays, Over, Turning, Issued
<1> QED
    BY <1>3, <1>4 DEF Held

LEMMA StartHolds ==
    ASSUME IInv, Descends, Held, NEW t \in Tabs, NEW c \in Calls,
           RefreshStarts(t, c) \/ LoginVerifies(t, c) \/ LogoutStarts(t, c)
    PROVE  Descends' /\ Held'
<1> USE DEF IInv
<1>1. /\ \A d \in Calls \ {c} : Still(d)
      /\ UNCHANGED <<changes, token, family, handed, changing, store>> /\ call[c].at = "idle"
      /\ odd \subseteq odd'
    BY DEF TokensTypeOK, RefreshStarts, LoginVerifies, LogoutStarts, Still, Stays, Note, Stage
<1>2. CASE LoginVerifies(t, c)
    <2>1. Over(c) /\ odd' = odd
        BY <1>2 DEF TokensTypeOK, LoginVerifies, Over, Turning, Goes, NoCall
    <2> QED
        BY <1>1, <2>1, QuietHolds DEF Goes
<1>3. ASSUME RefreshStarts(t, c) \/ LogoutStarts(t, c) PROVE Descends' /\ Held'
    <2> DEFINE x == store.refresh
    <2>1. /\ call'[c].at \in {"read", "logout"} /\ call'[c].token = x /\ call'[c].by = t
          /\ call'[c].at = "read" => RefreshStarts(t, c)
          /\ x # Nobody
        <3>1. CASE RefreshStarts(t, c)
            <4>1. PICK urgent \in BOOLEAN :
                      call' = [call EXCEPT ![c] = [NoCall EXCEPT !.at = "read", !.by = t,
                                                     !.urgent = urgent, !.token = store.refresh]]
                BY <3>1 DEF RefreshStarts
            <4>2. call'[c].at = "read" /\ call'[c].by = t /\ call'[c].token = store.refresh
                BY <4>1 DEF TokensTypeOK, NoCall
            <4> QED
                BY <3>1, <4>2 DEF RefreshStarts
        <3>2. CASE LogoutStarts(t, c)
            BY <3>2 DEF LogoutStarts, TokensTypeOK, NoCall
        <3> QED
            BY <1>3, <3>1, <3>2
    <2>2. Issued(x) /\ Issued(x)' /\ t # Nobody
        BY <1>1, <2>1, NobodyTypes DEF Rows, Issued
    <2>3. Descends'
        <3>1. \A z : Issued(z) => Issued(z)' /\ token'[z].family = token[z].family
            BY <1>1 DEF Issued
        <3>2. \A f \in Families : family'[f] <= changes'
            BY <1>1 DEF Descends
        <3>3. Issued(call[c].token)' /\ call'[c].at \notin {"retire", "ok"}
            BY <1>1, <2>1, <2>2 DEF Issued
        <3>4. \A d \in Calls \ {c} : Stays(d)
            BY <1>1 DEF Still
        <3> QED
            BY <3>1, <3>2, <3>3, <3>4, DescendsOn
    <2>4. SUFFICES ASSUME odd' = {} PROVE Held'
        BY <2>3 DEF Held
    <2>5. odd = {} /\ OneEach /\ NoneYet /\ HeldEnd(x)
        BY <1>1, <2>1, <2>4 DEF Held
    <2>6. OneEach'
        <3>1. Turning(c)' => \A d \in Calls \ {c} : Turning(d) => call[d].token # x
            BY <1>1, <2>1, <2>4 DEF RefreshStarts, Note, Turning, Stage
        <3>2. \A d \in Calls \ {c} : call'[d].token = call[d].token /\ (Turning(d)' => Turning(d))
            BY <1>1 DEF Still, Stays, Turning
        <3> QED
            BY <2>1, <2>5, <3>1, <3>2 DEF OneEach
    <2>7. NoneYet'
        BY <1>1, <2>5 DEF NoneYet, Issued
    <2>8. HeldEnd(x)'
        <3>1. (Replacing(x) => Replacing(x)') /\ (Excused(x) => Excused(x)')
            BY <1>1 DEF Replacing, Excused, Still, Stays, Goes, Stage
        <3>2. (token[x].state = "revoked" => Replacing(x) \/ Excused(x))'
            BY <1>1, <2>5, <3>1 DEF HeldEnd
        <3>3. \A d \in Calls \ {c} :
                 /\ (Turning(d) /\ Of(d, x) => call[d].token = x /\ call[d].by # Nobody)'
                 /\ (Stage(d, "reuse") /\ Of(d, x) => Excused(x))'
                 /\ (Goes(d) /\ call[d].by = Nobody => ~Of(d, x))'
                 /\ (call[d].at \in {"retire", "ok"} /\ call[d].token = x
                        /\ token[call[d].fresh].state = "revoked" => Excused(x))'
            BY <1>1, <2>5, <3>1 DEF HeldEnd, Still, Stays, Turning, Goes, Of, Stage
        <3>4. /\ call'[c].token = x /\ call'[c].by # Nobody
              /\ call'[c].at \notin {"reuse", "retire", "ok"}
            BY <2>1, <2>2
        <3> QED
            BY <1>1, <3>2, <3>3, <3>4 DEF HeldEnd, Stage
    <2> QED
        BY <1>1, <2>6, <2>7, <2>8 DEF Held
<1> QED
    BY <1>2, <1>3

LEMMA LeaveHolds ==
    ASSUME IInv, Descends, Held, NEW c \in Calls,
           RefreshFails(c) \/ AnswerLost(c) \/ LogoutClears(c) \/ LogoutForgotten(c)
    PROVE  Descends' /\ Held'
<1> USE DEF IInv
<1>1. ASSUME EndsCall(c) PROVE Over(c) /\ \A d \in Calls \ {c} : Still(d)
    BY <1>1 DEF TokensTypeOK, EndsCall, Over, Turning, Goes, NoCall, Still, Stays
<1>2. ASSUME NEW t, LeavesPage(c, t) PROVE Over(c) /\ \A d \in Calls \ {c} : Stays(d)
    BY <1>2 DEF TokensTypeOK, AuthCall, LeavesPage, Over, Turning, Goes, NoCall, Stays
<1>3. CASE RefreshFails(c)
    <2>1. UNCHANGED <<changes, token, family, handed, changing, odd>> /\ call[c].at = "fail"
        BY <1>3 DEF RefreshFails, Stage
    <2>2. \/ EndsCall(c) /\ UNCHANGED store
          \/ (\E t : LeavesPage(c, t)) /\ store' = Empty
        BY <1>3 DEF RefreshFails, GivesUp, Stores
    <2>3. CASE EndsCall(c) /\ UNCHANGED store
        BY <1>1, <2>1, <2>3, QuietHolds DEF Goes
    <2>4. CASE (\E t : LeavesPage(c, t)) /\ store' = Empty
        BY <1>2, <2>1, <2>4, EmptyHolds
    <2> QED
        BY <2>2, <2>3, <2>4
<1>4. CASE AnswerLost(c)
    <2>1. \A d \in Calls : Stays(d)
        BY <1>4 DEF AnswerLost, Stays, TokensTypeOK, AuthCall
    <2>2. odd \subseteq odd' /\ odd' # {} /\ UNCHANGED <<changes, token, family, handed, changing>>
        BY <1>4 DEF AnswerLost, Note
    <2> QED
        BY <2>1, <2>2, EmptyHolds
<1>5. CASE LogoutClears(c)
    <2>1. \A d \in Calls : Stays(d) \/ Over(d)
        <3>1. CASE Stage(c, "bye")
            BY <1>2, <1>5, <3>1 DEF LogoutClears
        <3>2. CASE ~Stage(c, "bye")
            BY <1>5, <3>2 DEF LogoutClears, Stays, TokensTypeOK, AuthCall
        <3> QED
            BY <3>1, <3>2
    <2>2. store' = Empty /\ UNCHANGED <<changes, token, family, handed, changing, odd>>
        BY <1>5 DEF LogoutClears, Stores
    <2> QED
        BY <2>1, <2>2, EmptyHolds
<1>6. CASE LogoutForgotten(c)
    <2>1. call[c].at = "bye" /\ call[c].by = Nobody /\ EndsCall(c)
          /\ UNCHANGED <<changes, token, family, handed, changing, store, odd>>
        BY <1>6 DEF LogoutForgotten, Stage
    <2> QED
        BY <1>1, <2>1, QuietHolds
<1> QED
    BY <1>3, <1>4, <1>5, <1>6

LEMMA TabHolds ==
    ASSUME IInv, Descends, Held, NEW t \in Tabs, RefreshJoined(t) \/ StorageEvent(t)
    PROVE  Descends' /\ Held'
<1>1. \A d \in Calls : Still(d)
    BY DEF IInv, TokensTypeOK, RefreshJoined, StorageEvent, Still, Stays, AuthCall
<1> QED
    BY <1>1, QuietHolds DEF RefreshJoined, StorageEvent

LEMMA ReadHolds ==
    ASSUME IInv, Descends, Held, NEW c \in Calls, RotationReads(c)
    PROVE  Descends' /\ Held'
<1> USE DEF IInv
<1>1. PICK s \in {"reuse", "issue", "fail"} :
          /\ Reading(c, s)
          /\ s = "reuse" => token[call[c].token].state = "revoked"
    BY DEF RotationReads
<1>2. /\ UNCHANGED <<changes, token, family, handed, changing, store, odd>>
      /\ call[c].at = "read" /\ call'[c].at = s /\ call'[c].token = call[c].token
      /\ call'[c].by = call[c].by /\ \A d \in Calls \ {c} : Still(d)
    BY <1>1 DEF RotationReads, Stage, Reading, TokensTypeOK, AuthCall, Still, Stays
<1>3. Descends'
    <2>1. \A z : Issued(z) => Issued(z)' /\ token'[z].family = token[z].family
        BY <1>2 DEF Issued
    <2>2. Issued(call[c].token)'
        BY <1>2 DEF Presents, Issued
    <2>3. \A f \in Families : family'[f] <= changes'
        BY <1>2 DEF Descends
    <2> QED
        BY <1>2, <2>1, <2>2, <2>3, DescendsOn DEF Still
<1>4. SUFFICES ASSUME odd = {} PROVE Held'
    BY <1>2, <1>3 DEF Held
<1>5. \A d \in Calls : (Turning(d)' <=> Turning(d)) /\ (Goes(d)' <=> Goes(d))
                       /\ call'[d].token = call[d].token /\ call'[d].by = call[d].by
    BY <1>2 DEF Turning, Goes, Still, Stays
<1>6. OneEach' /\ NoneYet'
    BY <1>2, <1>4, <1>5 DEF Held, OneEach, NoneYet, Issued
<1>7. ASSUME NEW x, x = store.refresh, x # Nobody PROVE HeldEnd(x)'
    <2>1. HeldEnd(x) /\ OneEach
        BY <1>4, <1>7 DEF Held
    <2>2. (Replacing(x) => Replacing(x)') /\ (Excused(x) => Excused(x)')
        BY <1>2, <1>5 DEF Replacing, Excused, Still, Stays, Stage
    <2>3. \A d \in Calls : Of(d, x)' <=> Of(d, x)
        BY <1>2, <1>5 DEF Of
    <2>4. ASSUME Of(c, x), s = "reuse" PROVE Excused(x)
        <3>1. call[c].token = x /\ token[x].state = "revoked"
            BY <1>1, <1>2, <2>1, <2>4 DEF HeldEnd, Turning
        <3>2. ~Replacing(x)
            BY <1>2, <2>1, <3>1 DEF OneEach, Replacing, Turning, Stage
        <3> QED
            BY <2>1, <3>1, <3>2 DEF HeldEnd
    <2>5. (token[x].state = "revoked" => Replacing(x) \/ Excused(x))'
        BY <1>2, <2>1, <2>2 DEF HeldEnd
    <2>6. \A d \in Calls : (Turning(d) /\ Of(d, x) => call[d].token = x /\ call[d].by # Nobody)'
        BY <1>5, <2>1, <2>3 DEF HeldEnd
    <2>7. \A d \in Calls : (Goes(d) /\ call[d].by = Nobody => ~Of(d, x))'
        BY <1>5, <2>1, <2>3 DEF HeldEnd
    <2>8. ASSUME NEW d \in Calls
          PROVE  /\ (Stage(d, "reuse") /\ Of(d, x) => Excused(x))'
                 /\ (call[d].at \in {"retire", "ok"} /\ call[d].token = x
                        /\ token[call[d].fresh].state = "revoked" => Excused(x))'
        <3>1. CASE d = c
            BY <1>2, <2>2, <2>3, <2>4, <3>1 DEF Stage
        <3>2. CASE d # c
            BY <1>2, <2>1, <2>2, <2>3, <3>2 DEF HeldEnd, Still, Stays, Stage
        <3> QED
            BY <3>1, <3>2
    <2> QED
        BY <2>5, <2>6, <2>7, <2>8 DEF HeldEnd
<1> QED
    BY <1>2, <1>4, <1>6, <1>7 DEF Held

\* The browser takes the new end of the family that it had the old end of.
LEMMA ReturnHolds ==
    ASSUME IInv, Descends, Held, NEW c \in Calls, RefreshReturns(c)
    PROVE  Descends' /\ Held'
<1> USE DEF IInv
<1>1. /\ UNCHANGED <<changes, token, family, handed, changing>> /\ odd \subseteq odd'
      /\ call[c].at = "ok" /\ Over(c) /\ \A d \in Calls \ {c} : Still(d)
    BY DEF RefreshReturns, Stage, Note, EndsCall, TokensTypeOK, Over, Turning, Goes, NoCall, Still, Stays
<1>2. Descends'
    <2>1. \A z : Issued(z) => Issued(z)' /\ token'[z].family = token[z].family
        BY <1>1 DEF Issued
    <2>2. \A f \in Families : family'[f] <= changes'
        BY <1>1 DEF Descends
    <2> QED
        BY <1>1, <2>1, <2>2, DescendsOn DEF Still
<1>3. SUFFICES ASSUME odd' = {} PROVE Held'
    BY <1>2 DEF Held
<1>4. odd = {}
    BY <1>1, <1>3
<1>5. OneEach' /\ NoneYet'
    BY <1>1, <1>4 DEF Held, OneEach, NoneYet, Issued, Still, Stays, Over, Turning
<1>6. ASSUME store'.refresh # Nobody PROVE HeldEnd(store.refresh)'
    <2>0. PICK x, y : x = store.refresh /\ y = call[c].fresh
        OBVIOUS
    <2>1. CASE call[c].by = Nobody
        <3>1. store' = store
            BY <2>1 DEF RefreshReturns
        <3>2. HeldEnd(x)
            BY <1>4, <1>6, <2>0, <3>1 DEF Held
        <3>3. token[x].state = "revoked" => Replacing(x) \/ Excused(x)
            BY <3>2 DEF HeldEnd
        <3>4. (Replacing(x) => Replacing(x)') /\ (Excused(x) => Excused(x)')
            BY <1>1, <2>1, <3>1 DEF Replacing, Excused, Still, Stays, Goes, Stage
        <3>5. (token[x].state = "revoked" => Replacing(x) \/ Excused(x))'
            BY <1>1, <3>1, <3>3, <3>4
        <3>6. ASSUME NEW d \in Calls
              PROVE  /\ (Turning(d) /\ Of(d, x) => call[d].token = x /\ call[d].by # Nobody)'
                     /\ (Stage(d, "reuse") /\ Of(d, x) => Excused(x))'
                     /\ (Goes(d) /\ call[d].by = Nobody => ~Of(d, x))'
                     /\ (call[d].at \in {"retire", "ok"} /\ call[d].token = x
                            /\ token[call[d].fresh].state = "revoked" => Excused(x))'
            <4>1. CASE d = c
                BY <1>1, <4>1 DEF Over, Turning, Goes, Stage
            <4>2. CASE d # c
                BY <1>1, <3>1, <3>2, <3>4, <4>2 DEF HeldEnd, Still, Stays, Turning, Goes, Of, Stage
            <4> QED
                BY <4>1, <4>2
        <3> QED
            BY <2>0, <3>1, <3>5, <3>6 DEF HeldEnd
    <2>2. CASE call[c].by # Nobody
        <3>1. store'.refresh = y /\ x = call[c].token
            BY <1>3, <2>0, <2>2 DEF RefreshReturns, Stores, Note
        <3>2. /\ Issued(x) /\ Issued(y) /\ x # Nobody
              /\ token[y].family = token[x].family
            BY <1>1, <2>0, <3>1, NobodyTypes DEF Descends, Turning, Issued
        <3>3. HeldEnd(x) /\ OneEach
            BY <1>4, <2>0, <3>2 DEF Held
        <3>4. \A d \in Calls \ {c} : Turning(d) => ~Of(d, x)
            BY <1>1, <3>1, <3>3 DEF HeldEnd, OneEach, Turning
        <3>5. \A d \in Calls : Of(d, y) <=> Of(d, x)
            BY <3>2 DEF Of
        <3>6. token[y].state = "revoked" => Excused(x)
            BY <1>1, <2>0, <3>1, <3>3 DEF HeldEnd
        <3>7. Excused(x) => Excused(y)'
            BY <1>1, <3>2 DEF Excused, Still, Stays, Goes
        <3>8. ASSUME NEW d \in Calls
              PROVE  /\ Turning(d)' => ~Of(d, y)'
                     /\ (Goes(d) /\ call[d].by = Nobody => ~Of(d, y))'
            <4>1. CASE d = c
                BY <1>1, <4>1 DEF Over
            <4>2. CASE d # c
                BY <1>1, <3>3, <3>4, <3>5, <4>2 DEF HeldEnd, Still, Stays, Turning, Goes, Of
            <4> QED
                BY <4>1, <4>2
        <3> QED
            BY <1>1, <3>1, <3>6, <3>7, <3>8 DEF HeldEnd, Turning, Stage, Of
    <2> QED
        BY <2>1, <2>2
<1> QED
    BY <1>3, <1>5, <1>6 DEF Held

\* Calls fail and rows are revoked: those of the stored token's family only with an
\* excuse.
LEMMA RevokeHolds ==
    ASSUME IInv, Descends, Held, NEW S, token' = Revoked(S),
           UNCHANGED <<changes, family, store, odd>>, changing' => changing,
           \A d \in Calls :
              /\ call'[d].token = call[d].token /\ call'[d].fresh = call[d].fresh
              /\ call'[d].by = call[d].by
              /\ \/ call'[d].at = call[d].at
                 \/ call[d].at \in {"read", "reuse", "issue", "retire"} /\ call'[d].at = "fail"
                 \/ call[d].at = "logout" /\ call'[d].at = "bye",
           \A x \in Tokens : odd = {} /\ x = store.refresh =>
              /\ Excused(x) => Excused(x)'
              /\ (\E z \in S \cap Tokens : token[z].family = token[x].family) => Excused(x)'
    PROVE  Descends' /\ Held'
<1> USE DEF IInv
<1>1. \A z \in Tokens :
          /\ token'[z].family = token[z].family
          /\ token'[z].state = "none" <=> token[z].state = "none"
          /\ z \notin S => token'[z] = token[z]
    BY RevokedTyped DEF Revoked
<1>2. \A z : Issued(z) => Issued(z)' /\ token'[z].family = token[z].family
    BY <1>1 DEF Issued
<1>3. Descends'
    <2>1. \A d \in Calls : call'[d].at = "fail" \/ call'[d].at = "bye" => Issued(call[d].token)'
        BY <1>2 DEF Descends, Turning, Goes, Issued
    <2>2. \A d \in Calls : \/ Stays(d)
                           \/ Issued(call[d].token)' /\ call'[d].at \notin {"retire", "ok"}
        BY <2>1 DEF Stays
    <2>3. \A f \in Families : family'[f] <= changes'
        BY DEF Descends
    <2> QED
        BY <1>2, <2>2, <2>3, DescendsOn
<1>4. SUFFICES ASSUME odd = {} PROVE Held'
    BY <1>3 DEF Held
<1>5. \A d \in Calls : (Turning(d)' <=> Turning(d)) /\ (Goes(d)' <=> Goes(d))
    BY DEF Turning, Goes
<1>6. OneEach' /\ NoneYet'
    BY <1>1, <1>4, <1>5 DEF Held, OneEach, NoneYet, Issued
<1>7. ASSUME NEW x \in Tokens, x = store.refresh, x # Nobody PROVE HeldEnd(x)'
    <2>1. HeldEnd(x) /\ Issued(x)
        BY <1>4, <1>7 DEF Held, Rows
    <2>2. Excused(x) => Excused(x)'
        BY <1>4, <1>7
    <2>3. \A d \in Calls : Turning(d) \/ Goes(d) => (Of(d, x)' <=> Of(d, x))
        BY <1>1 DEF Of, Descends, Issued
    <2>4. ~Excused(x)' => \A z \in Tokens :
              token[z].family = token[x].family => token'[z] = token[z]
        BY <1>1, <1>4, <1>7
    <2>5. Replacing(x) => Replacing(x)'
        BY DEF Replacing, Stage
    <2>6. (token[x].state = "revoked" => Replacing(x) \/ Excused(x))'
        BY <2>1, <2>2, <2>4, <2>5 DEF HeldEnd
    <2>7. ASSUME NEW d \in Calls
          PROVE  /\ (Turning(d) /\ Of(d, x) => call[d].token = x /\ call[d].by # Nobody)'
                 /\ (Stage(d, "reuse") /\ Of(d, x) => Excused(x))'
                 /\ (Goes(d) /\ call[d].by = Nobody => ~Of(d, x))'
        BY <1>5, <2>1, <2>2, <2>3 DEF HeldEnd, Stage, Turning
    <2>8. ASSUME NEW d \in Calls, call'[d].at \in {"retire", "ok"}, call'[d].token = x,
                 token'[call'[d].fresh].state = "revoked"
          PROVE  Excused(x)'
        <3>1. /\ call[d].at \in {"retire", "ok"} /\ call[d].token = x
              /\ call[d].fresh \in Tokens /\ token[call[d].fresh].family = token[x].family
            BY <2>8 DEF Descends, Issued
        <3>2. ~Excused(x)' => token[call[d].fresh].state = "revoked"
            BY <2>4, <2>8, <3>1
        <3> QED
            BY <2>1, <2>2, <3>1, <3>2 DEF HeldEnd
    <2> QED
        BY <2>6, <2>7, <2>8 DEF HeldEnd
<1> QED
    BY <1>4, <1>6, <1>7 DEF Held, Rows, Issued

LEMMA FailHolds ==
    ASSUME IInv, Descends, Held, NEW c \in Calls, CallFails(c)
    PROVE  Descends' /\ Held'
<1> USE DEF IInv
<1>1. UNCHANGED <<changes, token, family, handed, changing, store, odd>>
    BY DEF CallFails
<1>2. CASE Stage(c, "login") /\ EndsCall(c)
    <2>1. Over(c) /\ \A d \in Calls \ {c} : Still(d)
        BY <1>2 DEF TokensTypeOK, EndsCall, Over, Turning, Goes, NoCall, Still, Stays
    <2> QED
        BY <1>1, <1>2, <2>1, QuietHolds DEF Stage, Goes
<1>3. ASSUME NEW s \in {"fail", "bye"}, call' = [call EXCEPT ![c].at = s],
             \/ s = "fail" /\ call[c].at \in {"read", "reuse", "issue", "retire"}
             \/ s = "bye" /\ call[c].at = "logout"
      PROVE  Descends' /\ Held'
    <2>1. /\ call'[c].at = s /\ call'[c].token = call[c].token /\ call'[c].fresh = call[c].fresh
          /\ call'[c].by = call[c].by /\ \A d \in Calls \ {c} : call'[d] = call[d]
        BY <1>3 DEF TokensTypeOK, AuthCall
    <2>2. token' = Revoked({})
        BY <1>1 DEF TokensTypeOK, Revoked
    <2>3. \A x : Excused(x) => Excused(x)'
        BY <1>1, <1>3, <2>1 DEF Excused, Goes
    <2> QED
        BY <1>1, <1>3, <2>1, <2>2, <2>3, RevokeHolds
<1> QED
    BY <1>2, <1>3 DEF CallFails, Stage

LEMMA RevocationsHold ==
    ASSUME IInv, Descends, Held,
           \/ PasswordRevokes \/ PasswordRevokesFails
           \/ \E c \in Calls : ReuseRevokes(c) \/ LogoutRevokes(c)
    PROVE  Descends' /\ Held'
<1> USE DEF IInv
<1>1. CASE PasswordRevokes
    <2>1. /\ token' = Revoked(Tokens) /\ changing
          /\ UNCHANGED <<changes, family, store, odd, call>>
        BY <1>1 DEF PasswordRevokes
    <2>2. ASSUME NEW x \in Tokens, odd = {}, x = store.refresh PROVE Excused(x)'
        <3>1. Issued(x)
            BY <2>2, NobodyTypes DEF Rows
        <3>2. family[token[x].family] # changes
            BY <2>1, <2>2, <3>1 DEF Held, NoneYet
        <3>3. token'[x].family = token[x].family
            BY <2>1, RevokedTyped
        <3> QED
            BY <2>1, <3>2, <3>3 DEF Excused
    <2> QED
        BY <2>1, <2>2, RevokeHolds
<1>2. ASSUME NEW c \in Calls, ReuseRevokes(c) \/ LogoutRevokes(c) PROVE Descends' /\ Held'
    <2> DEFINE S == Members(token[call[c].token].family)
    <2>1. /\ token' = Revoked(S) /\ UNCHANGED <<changes, family, store, odd, changing>>
          /\ \/ call[c].at = "reuse" /\ call'[c].at = "fail"
             \/ call[c].at = "logout" /\ call'[c].at = "bye"
          /\ call'[c].token = call[c].token /\ call'[c].fresh = call[c].fresh
          /\ call'[c].by = call[c].by /\ \A d \in Calls \ {c} : call'[d] = call[d]
        BY <1>2 DEF ReuseRevokes, LogoutRevokes, Stage, TokensTypeOK, AuthCall
    <2>2. ASSUME NEW x \in Tokens, odd = {}, x = store.refresh
          PROVE  /\ Excused(x) => Excused(x)'
                 /\ (\E z \in S \cap Tokens : token[z].family = token[x].family) => Excused(x)'
        <3>1. token'[x].family = token[x].family
            BY <2>1, RevokedTyped
        <3>2. Excused(x) => Excused(x)'
            BY <2>1, <3>1 DEF Excused, Goes
        <3>3. ASSUME NEW z \in S, token[z].family = token[x].family PROVE Excused(x)
            <4>1. HeldEnd(x) /\ Of(c, x)
                BY <2>2, <3>3, NobodyTypes DEF Held, Of, Members
            <4>2. CASE call[c].at = "reuse"
                BY <4>1, <4>2 DEF HeldEnd, Stage
            <4>3. CASE call[c].at = "logout"
                BY <4>1, <4>3 DEF HeldEnd, Goes, Excused
            <4> QED
                BY <2>1, <4>2, <4>3
        <3> QED
            BY <3>2, <3>3
    <2> HIDE DEF S
    <2> QED
        BY <2>1, <2>2, RevokeHolds
<1>3. CASE PasswordRevokesFails
    <2>1. odd' # {} /\ UNCHANGED <<changes, token, family, call>>
        BY <1>3 DEF PasswordRevokesFails, Note
    <2> QED
        BY <2>1 DEF Held, Descends, Turning, Goes, Issued
<1> QED
    BY <1>1, <1>2, <1>3

LEMMA ChangeHolds ==
    ASSUME IInv, Descends, Held, PasswordChanges
    PROVE  Descends' /\ Held'
<1> USE DEF IInv
<1>1. /\ changes \in Nat /\ changes' = changes + 1 /\ changing'
      /\ UNCHANGED <<token, family, handed, store, call, odd>>
    BY ChangeBound DEF PasswordChanges, TokensTypeOK, Changes
<1>2. \A f \in Families : family[f] \in Nat /\ family[f] < changes'
    BY <1>1, ChangeBound DEF Descends, TokensTypeOK, Changes
<1>3. Descends'
    <2>1. \A f \in Families : family'[f] <= changes'
        BY <1>1, <1>2
    <2> QED
        BY <1>1, <2>1, DescendsOn DEF Stays, Issued
<1>4. SUFFICES ASSUME odd = {} PROVE Held'
    BY <1>1, <1>3 DEF Held
<1>5. OneEach' /\ NoneYet'
    BY <1>1, <1>2, <1>4 DEF Held, OneEach, NoneYet, Issued, Turning, Rows
<1>6. \A x : Excused(x)'
    BY <1>1 DEF Excused
<1>7. ASSUME NEW x, x = store.refresh, x # Nobody PROVE HeldEnd(x)'
    BY <1>1, <1>4, <1>6, <1>7 DEF Held, HeldEnd, Turning, Goes, Of, Stage
<1> QED
    BY <1>1, <1>4, <1>5, <1>7 DEF Held

LEMMA IssueHolds ==
    ASSUME IInv, Descends, Held, NEW c \in Calls, RotationIssues(c)
    PROVE  Descends' /\ Held'
<1> USE DEF IInv
<1>1. call[c].at = "issue" /\ Issued(call[c].token)
    BY DEF RotationIssues, Stage, Presents
<1>2. PICK w \in Tokens, f \in Families : w = call[c].token /\ f = token[w].family
    BY <1>1 DEF Issued, Rows
<1>3. PICK y \in Tokens :
          /\ token[y].state = "none"
          /\ token' = [token EXCEPT ![y] = [state |-> "live", family |-> f]]
          /\ call' = [call EXCEPT ![c].at = "retire", ![c].fresh = y]
    BY <1>2 DEF RotationIssues
<1>4. UNCHANGED <<changes, family, changing, store>> /\ odd \subseteq odd'
    BY DEF RotationIssues, Note
<1>5. /\ token'[y].state = "live" /\ token'[y].family = f
      /\ \A z \in Tokens \ {y} : token'[z] = token[z]
    BY <1>3 DEF TokensTypeOK
<1>6. /\ call'[c].at = "retire" /\ call'[c].fresh = y /\ call'[c].token = w /\ w # y
      /\ call'[c].by = call[c].by /\ \A d \in Calls \ {c} : call'[d] = call[d]
    BY <1>1, <1>2, <1>3 DEF TokensTypeOK, AuthCall, Issued
<1>7. \A z : Issued(z) => z \in Tokens /\ Issued(z)' /\ z # y /\ token'[z] = token[z]
    BY <1>3, <1>5 DEF Issued
<1>8. Descends'
    <2>1. \A d \in Calls \ {c} :
              /\ (Turning(d) \/ Goes(d) => Issued(call[d].token))'
              /\ (call[d].at \in {"retire", "ok"} =>
                    /\ call[d].fresh # call[d].token /\ Issued(call[d].fresh)
                    /\ token[call[d].fresh].family = token[call[d].token].family)'
        BY <1>6, <1>7 DEF Descends, Turning, Goes, Issued
    <2>2. /\ Issued(call[c].token)' /\ Issued(call[c].fresh)'
          /\ (call[c].fresh # call[c].token)'
          /\ (token[call[c].fresh].family = token[call[c].token].family)'
        BY <1>1, <1>2, <1>5, <1>6 DEF Issued
    <2>3. (\A g \in Families : family[g] <= changes)'
        BY <1>4 DEF Descends
    <2> QED
        BY <2>1, <2>2, <2>3 DEF Descends
<1>9. SUFFICES ASSUME odd' = {} PROVE Held'
    BY <1>8 DEF Held
<1>10. odd = {} /\ ~changing
    BY <1>4, <1>9 DEF RotationIssues, Note, PasswordMoved
<1>11. OneEach' /\ NoneYet'
    BY <1>1, <1>2, <1>4, <1>6, <1>10 DEF Held, OneEach, NoneYet, Turning
<1>12. ASSUME NEW x \in Tokens, x = store.refresh, x # Nobody PROVE HeldEnd(x)'
    <2>1. HeldEnd(x) /\ Issued(x)
        BY <1>10, <1>12 DEF Held, Rows
    <2>2. x # y /\ token'[x] = token[x]
        BY <1>7, <2>1
    <2>3. (Replacing(x) => Replacing(x)') /\ (Excused(x) => Excused(x)')
        BY <1>1, <1>4, <1>6, <2>2 DEF Replacing, Excused, Goes, Stage
    <2>4. \A d \in Calls : /\ Turning(d)' <=> Turning(d)
                           /\ Goes(d)' <=> Goes(d)
                           /\ call'[d].token = call[d].token /\ call'[d].by = call[d].by
                           /\ Turning(d) \/ Goes(d) => (Of(d, x)' <=> Of(d, x))
        BY <1>1, <1>2, <1>6, <1>7, <2>2 DEF Turning, Goes, Of, Descends
    <2>5. (token[x].state = "revoked" => Replacing(x) \/ Excused(x))'
        BY <2>1, <2>2, <2>3 DEF HeldEnd
    <2>6. \A d \in Calls :
              /\ (Turning(d) /\ Of(d, x) => call[d].token = x /\ call[d].by # Nobody)'
              /\ (Goes(d) /\ call[d].by = Nobody => ~Of(d, x))'
        BY <2>1, <2>4 DEF HeldEnd
    <2>7. ASSUME NEW d \in Calls
          PROVE  /\ (Stage(d, "reuse") /\ Of(d, x) => Excused(x))'
                 /\ (call[d].at \in {"retire", "ok"} /\ call[d].token = x
                        /\ token[call[d].fresh].state = "revoked" => Excused(x))'
        <3>1. CASE d = c
            BY <1>5, <1>6, <3>1 DEF Stage
        <3>2. CASE d # c
            BY <1>6, <1>7, <2>1, <2>3, <2>4, <3>2 DEF HeldEnd, Stage, Turning, Descends
        <3> QED
            BY <3>1, <3>2
    <2> QED
        BY <2>5, <2>6, <2>7 DEF HeldEnd
<1> QED
    BY <1>4, <1>9, <1>11, <1>12 DEF Held, Rows, Issued

\* The stored token is revoked by the rotation that brings its successor.
LEMMA RetireHolds ==
    ASSUME IInv, Descends, Held, NEW c \in Calls, RotationRetires(c)
    PROVE  Descends' /\ Held'
<1> USE DEF IInv
<1>1. call[c].at = "retire" /\ Issued(call[c].token)
    BY DEF RotationRetires, Stage, Presents
<1>2. PICK w \in Tokens : w = call[c].token
    BY <1>1 DEF Issued
<1>3. UNCHANGED <<changes, family, changing, store>> /\ odd \subseteq odd'
    BY DEF RotationRetires, Returns, Note
<1>4. /\ token'[w].state = "revoked" /\ token'[w].family = token[w].family
      /\ \A z \in Tokens \ {w} : token'[z] = token[z]
    BY <1>2 DEF RotationRetires, TokensTypeOK, Token
<1>5. /\ call'[c].at = "ok" /\ call'[c].fresh = call[c].fresh /\ call'[c].token = w
      /\ call'[c].by = call[c].by /\ \A d \in Calls \ {c} : call'[d] = call[d]
    <2>1. PICK u \in changes .. MaxChanges :
              call' = [call EXCEPT ![c].at = "ok", ![c].seen = changes, ![c].upto = u]
        BY DEF RotationRetires, Returns
    <2> QED
        BY <1>2, <2>1 DEF TokensTypeOK, AuthCall
<1>6. \A z : Issued(z) => Issued(z)' /\ token'[z].family = token[z].family
    BY <1>4 DEF Issued
<1>7. Descends'
    <2>1. \A g \in Families : family'[g] <= changes'
        BY <1>3 DEF Descends
    <2> QED
        BY <1>1, <1>2, <1>5, <1>6, <2>1, DescendsOn DEF Stays
<1>8. SUFFICES ASSUME odd' = {} PROVE Held'
    BY <1>7 DEF Held
<1>9. odd = {}
    BY <1>3, <1>8
<1>10. OneEach' /\ NoneYet'
    BY <1>1, <1>2, <1>3, <1>4, <1>5, <1>9 DEF Held, OneEach, NoneYet, Turning, Issued
<1>11. ASSUME NEW x \in Tokens, x = store.refresh, x # Nobody PROVE HeldEnd(x)'
    <2>1. HeldEnd(x) /\ Issued(x)
        BY <1>9, <1>11 DEF Held, Rows
    <2>2. (Replacing(x) => Replacing(x)') /\ (Excused(x) => Excused(x)')
        BY <1>1, <1>3, <1>4, <1>5 DEF Replacing, Excused, Goes, Stage
    <2>3. \A d \in Calls : /\ Turning(d)' <=> Turning(d)
                           /\ Goes(d)' <=> Goes(d)
                           /\ call'[d].token = call[d].token /\ call'[d].by = call[d].by
                           /\ Turning(d) \/ Goes(d) => (Of(d, x)' <=> Of(d, x))
        BY <1>1, <1>2, <1>4, <1>5, <1>6 DEF Turning, Goes, Of, Descends
    <2>4. Of(c, x) => w = x /\ call[c].by # Nobody
        BY <1>1, <1>2, <2>1 DEF HeldEnd, Turning
    <2>5. (token[x].state = "revoked" => Replacing(x) \/ Excused(x))'
        <3>1. CASE x = w
            BY <1>2, <1>5, <2>4, <3>1 DEF Replacing, Of, Stage
        <3>2. CASE x # w
            BY <1>4, <2>1, <2>2, <3>2 DEF HeldEnd
        <3> QED
            BY <3>1, <3>2
    <2>6. \A d \in Calls :
              /\ (Turning(d) /\ Of(d, x) => call[d].token = x /\ call[d].by # Nobody)'
              /\ (Goes(d) /\ call[d].by = Nobody => ~Of(d, x))'
        BY <2>1, <2>3 DEF HeldEnd
    <2>7. ASSUME NEW d \in Calls
          PROVE  (Stage(d, "reuse") /\ Of(d, x) => Excused(x))'
        BY <1>5, <2>1, <2>2, <2>3 DEF HeldEnd, Stage, Turning
    <2>8. ASSUME NEW d \in Calls, call'[d].at \in {"retire", "ok"}, call'[d].token = x,
                 token'[call'[d].fresh].state = "revoked"
          PROVE  Excused(x)'
        <3>1. /\ call[d].at \in {"retire", "ok"} /\ call[d].token = x
              /\ call'[d].fresh = call[d].fresh
            BY <1>1, <1>2, <1>5, <2>8
        <3>2. /\ call[d].fresh \in Tokens /\ call[d].fresh # x
              /\ token[call[d].fresh].family = token[x].family
            BY <3>1 DEF Descends, Issued
        <3>3. call[d].fresh # w
            BY <1>2, <2>4, <3>2 DEF Of
        <3> QED
            BY <1>4, <2>1, <2>2, <2>8, <3>1, <3>2, <3>3 DEF HeldEnd
    <2> QED
        BY <2>5, <2>6, <2>7, <2>8 DEF HeldEnd
<1> QED
    BY <1>3, <1>8, <1>10, <1>11 DEF Held, Rows, Issued

LEMMA LoginHolds ==
    ASSUME IInv, Descends, Held, NEW c \in Calls, LoginIssues(c)
    PROVE  Descends' /\ Held'
<1> USE DEF IInv
<1>1. PICK w \in Tokens, f \in Families \ OpenedFamilies, u \in changes .. MaxChanges :
          /\ token[w].state = "none"
          /\ token' = [token EXCEPT ![w] = [state |-> "live", family |-> f]]
          /\ family' = [family EXCEPT ![f] = call[c].seen]
          /\ store' = store \/ store' = [refresh |-> w, made |-> changes, upto |-> u]
    BY DEF LoginIssues, Stores
<1>2. /\ UNCHANGED <<changes, changing>> /\ call[c].at = "login" /\ odd \subseteq odd'
      /\ Over(c) /\ \A d \in Calls \ {c} : Still(d)
    BY DEF LoginIssues, Stage, Note, EndsCall, TokensTypeOK, Over, Turning, Goes, NoCall, Still, Stays
<1>3. /\ token'[w].state = "live" /\ token'[w].family = f
      /\ \A z \in Tokens \ {w} : token'[z] = token[z]
      /\ family'[f] = call[c].seen /\ \A g \in Families \ {f} : family'[g] = family[g]
    BY <1>1 DEF TokensTypeOK
<1>4. \A z : Issued(z) => /\ z # w /\ Issued(z)' /\ token'[z] = token[z]
                         /\ token[z].family \in Families \ {f}
    <2>1. ASSUME NEW z, Issued(z) PROVE token[z].family \in Families \ {f}
        <3>1. z \in Tokens /\ token[z].family \in Families
            BY <2>1 DEF Issued, Rows
        <3>2. token[z].family \in OpenedFamilies
            BY <3>1, NobodyTypes DEF OpenedFamilies
        <3> QED
            BY <3>1, <3>2
    <2> QED
        BY <1>1, <1>3, <2>1 DEF Issued
<1>5. Descends'
    <2>1. \A g \in Families : family'[g] <= changes'
        BY <1>2, <1>3 DEF Descends, Presents
    <2>2. \A z : Issued(z) => Issued(z)' /\ token'[z].family = token[z].family
        BY <1>4
    <2> QED
        BY <1>2, <2>1, <2>2, DescendsOn DEF Still
<1>6. SUFFICES ASSUME odd' = {} PROVE Held'
    BY <1>5 DEF Held
<1>7. odd = {} /\ ~changing
    BY <1>2, <1>6 DEF LoginIssues, Note, PasswordMoved
<1>8. OneEach' /\ NoneYet'
    BY <1>2, <1>7 DEF Held, OneEach, NoneYet, Turning, Over, Still, Stays
<1>9. \A d \in Calls : Turning(d)' \/ Goes(d)' =>
          d # c /\ (Turning(d)' <=> Turning(d)) /\ (Goes(d)' <=> Goes(d)) /\ Issued(call[d].token)
    BY <1>2 DEF Over, Still, Stays, Turning, Goes, Descends
<1>10. HeldEnd(w)'
    <2>1. \A d \in Calls : Turning(d)' \/ Goes(d)' => ~Of(d, w)' /\ call'[d].token # w
        BY <1>2, <1>3, <1>4, <1>9 DEF Of, Still, Stays
    <2> QED
        BY <1>3, <2>1 DEF HeldEnd, Turning, Stage
<1>11. ASSUME NEW x \in Tokens, x = store.refresh, x # Nobody PROVE HeldEnd(x)'
    <2>1. HeldEnd(x) /\ Issued(x)
        BY <1>7, <1>11 DEF Held, Rows
    <2>2. token'[x] = token[x] /\ family'[token[x].family] = family[token[x].family]
        BY <1>3, <1>4, <2>1
    <2>3. (Replacing(x) => Replacing(x)') /\ (Excused(x) => Excused(x)')
        BY <1>2, <2>2 DEF Replacing, Excused, Still, Stays, Goes, Stage
    <2>4. (token[x].state = "revoked" => Replacing(x) \/ Excused(x))'
        BY <2>1, <2>2, <2>3 DEF HeldEnd
    <2>5. ASSUME NEW d \in Calls
          PROVE  /\ (Turning(d) /\ Of(d, x) => call[d].token = x /\ call[d].by # Nobody)'
                 /\ (Stage(d, "reuse") /\ Of(d, x) => Excused(x))'
                 /\ (Goes(d) /\ call[d].by = Nobody => ~Of(d, x))'
                 /\ (call[d].at \in {"retire", "ok"} /\ call[d].token = x
                        /\ token[call[d].fresh].state = "revoked" => Excused(x))'
        <3>1. CASE d = c
            BY <1>2, <3>1 DEF Over, Turning, Goes, Stage
        <3>2. CASE d # c
            <4>1. Stays(d) /\ call'[d].by = call[d].by
                BY <1>2, <3>2 DEF Still
            <4>2. Turning(d) \/ Goes(d) => (Of(d, x)' <=> Of(d, x))
                BY <1>4, <2>2, <4>1 DEF Of, Stays, Descends
            <4>3. call[d].at \in {"retire", "ok"} => token'[call[d].fresh] = token[call[d].fresh]
                BY <1>4 DEF Descends
            <4> QED
                BY <2>1, <2>3, <4>1, <4>2, <4>3 DEF HeldEnd, Stays, Turning, Goes, Stage
        <3> QED
            BY <3>1, <3>2
    <2> QED
        BY <2>4, <2>5 DEF HeldEnd
<1>12. CASE store' = store
    BY <1>6, <1>8, <1>11, <1>12 DEF Held, Rows, Issued
<1>13. CASE store' = [refresh |-> w, made |-> changes, upto |-> u]
    BY <1>6, <1>8, <1>10, <1>13 DEF Held
<1> QED
    BY <1>1, <1>12, <1>13

LEMMA NextHolds == IInv /\ Descends /\ Held /\ [TokensNext]_tokenVars => Descends' /\ Held'
<1> SUFFICES ASSUME IInv, Descends, Held, [TokensNext]_tokenVars PROVE Descends' /\ Held'
    OBVIOUS
<1>1. CASE UNCHANGED tokenVars
    BY <1>1, QuietHolds DEF tokenVars, Still, Stays
<1>2. ASSUME NEW t \in Tabs, NEW c \in Calls,
             RefreshStarts(t, c) \/ LoginVerifies(t, c) \/ LogoutStarts(t, c)
      PROVE  Descends' /\ Held'
    BY <1>2, StartHolds
<1>3. ASSUME NEW t \in Tabs, RefreshJoined(t) \/ StorageEvent(t) PROVE Descends' /\ Held'
    BY <1>3, TabHolds
<1>4. ASSUME NEW c \in Calls,
             \/ RefreshReturns(c) \/ RefreshFails(c) \/ AnswerLost(c)
             \/ RotationReads(c) \/ ReuseRevokes(c) \/ RotationIssues(c) \/ RotationRetires(c)
             \/ LoginIssues(c) \/ LogoutRevokes(c) \/ LogoutClears(c) \/ LogoutForgotten(c)
             \/ CallFails(c)
      PROVE  Descends' /\ Held'
    BY <1>4, ReturnHolds, LeaveHolds, ReadHolds, RevocationsHold, IssueHolds, RetireHolds,
       LoginHolds, FailHolds
<1>5. CASE PasswordChanges \/ PasswordRevokes \/ PasswordRevokesFails
    BY <1>5, ChangeHolds, RevocationsHold
<1> QED
    BY <1>1, <1>2, <1>3, <1>4, <1>5 DEF TokensNext

LEMMA InitHolds == TokensInit => Descends /\ Held
<1> SUFFICES ASSUME TokensInit PROVE Descends /\ Held
    OBVIOUS
<1>1. \A c \in Calls : ~Turning(c) /\ ~Goes(c) /\ call[c].at \notin {"retire", "ok"}
    BY DEF TokensInit, NoCall, Turning, Goes
<1>2. \A f \in Families : family[f] = 0 /\ changes = 0
    BY DEF TokensInit
<1>3. store.refresh = Nobody /\ ~changing
    BY DEF TokensInit, Empty
<1> QED
    BY <1>1, <1>2, <1>3 DEF Descends, Held, OneEach, NoneYet

\* The browser does not keep a revoked refresh token that the next refresh would
\* present as a reuse, unless its successor is on its way, the password changed
\* or a tab is logging out; for any number of tabs, as long as no two present
\* one token, no answer is lost and none comes late.
THEOREM StoredStaysUsable == TokensSpec => []StoredIsUsable
<1>1. ASSUME Held PROVE StoredIsUsable
    BY <1>1 DEF Held, HeldEnd, Excused, Goes, Stage, StoredIsUsable, LeavingPage
<1> QED
    BY <1>1, Invariant, InitIInv, InitHolds, NextKeeps, NextHolds, PTL DEF TokensSpec

----------------------------------------------------------------------------
(* The account implements Sessions *)

Era == IF changing THEN changes - 1 ELSE changes

\* A row that was not written has no family.
Blank == \A x \in Tokens : token[x].state = "none" => token[x].family = Nobody

LEMMA BlankStep == TokensTypeOK /\ Blank /\ [TokensNext]_tokenVars => Blank'
<1> SUFFICES ASSUME TokensTypeOK, Blank, [TokensNext]_tokenVars PROVE Blank'
    OBVIOUS
<1>1. ASSUME UNCHANGED token PROVE Blank'
    BY <1>1 DEF Blank
<1>2. ASSUME NEW S, token' = Revoked(S) PROVE Blank'
    BY <1>2, RevokedTyped DEF Blank
<1>3. ASSUME NEW x \in Tokens, NEW f,
             token' = [token EXCEPT ![x] = [state |-> "live", family |-> f]]
      PROVE  Blank'
    BY <1>3 DEF Blank, TokensTypeOK
<1>4. ASSUME NEW c \in Calls, RotationRetires(c) PROVE Blank'
    BY <1>4 DEF RotationRetires, Blank, TokensTypeOK, Token
<1>5. ASSUME NEW c \in Calls, RotationIssues(c) \/ LoginIssues(c) PROVE Blank'
    <2>1. \E x \in Tokens : \E f :
              token' = [token EXCEPT ![x] = [state |-> "live", family |-> f]]
        BY <1>5 DEF RotationIssues, LoginIssues
    <2> QED
        BY <2>1, <1>3
<1>6. CASE PasswordRevokes \/ \E c \in Calls : ReuseRevokes(c) \/ LogoutRevokes(c)
    <2>1. \E S : token' = Revoked(S)
        BY <1>6 DEF PasswordRevokes, ReuseRevokes, LogoutRevokes
    <2> QED
        BY <2>1, <1>2
<1>7. \/ UNCHANGED token
      \/ PasswordRevokes \/ \E c \in Calls : ReuseRevokes(c) \/ LogoutRevokes(c)
      \/ \E c \in Calls : RotationIssues(c) \/ LoginIssues(c) \/ RotationRetires(c)
    BY DEF TokensNext, tokenVars, RefreshStarts, LoginVerifies, LogoutStarts, RefreshJoined,
           StorageEvent, RefreshReturns, RefreshFails, AnswerLost, RotationReads, Reading,
           LogoutClears, LogoutForgotten, CallFails, PasswordChanges, PasswordRevokesFails
<1> QED
    BY <1>1, <1>4, <1>5, <1>6, <1>7

KInv == IInv /\ Blank

\* A step that leaves keys, families and eras alone is none for Sessions.
LEMMA NoSessionStep ==
    ASSUME \A f \in Families : KeyOf(f)' = KeyOf(f), handed' = handed,
           OpenedFamilies' = OpenedFamilies, Era' = Era, Orderly' <=> Orderly
    PROVE  UNCHANGED Account!sessionVars
BY DEF Account!sessionVars, Era

\* Whatever writes no row and returns no token: the browser, the checks, the errors.
LEMMA NoRowStep ==
    ASSUME KInv, Orderly',
           \/ \E t \in Tabs, c \in Calls :
                 RefreshStarts(t, c) \/ LoginVerifies(t, c) \/ LogoutStarts(t, c)
           \/ \E t \in Tabs : RefreshJoined(t) \/ StorageEvent(t)
           \/ \E c \in Calls : \/ RefreshReturns(c) \/ RefreshFails(c) \/ AnswerLost(c)
                               \/ RotationReads(c) \/ LogoutClears(c) \/ LogoutForgotten(c)
                               \/ CallFails(c)
           \/ PasswordChanges
    PROVE  UNCHANGED Account!sessionVars
<1>1. UNCHANGED <<token, handed>> /\ odd \subseteq odd'
    BY DEF RefreshStarts, LoginVerifies, LogoutStarts, RefreshJoined, StorageEvent,
           RefreshReturns, RefreshFails, AnswerLost, RotationReads, Reading, LogoutClears,
           LogoutForgotten, CallFails, PasswordChanges, Note
<1>2. Era' = Era
    <2>1. CASE PasswordChanges
        BY <2>1, ChangeBound DEF PasswordChanges, Era, KInv, IInv, TokensTypeOK, Changes
    <2>2. CASE UNCHANGED <<changes, changing>>
        BY <2>2 DEF Era
    <2> QED
        BY <2>1, <2>2 DEF RefreshStarts, LoginVerifies, LogoutStarts, RefreshJoined, StorageEvent,
               RefreshReturns, RefreshFails, AnswerLost, RotationReads, Reading, LogoutClears,
               LogoutForgotten, CallFails
<1>3. \A f \in Families : KeyOf(f)' = KeyOf(f)
    BY <1>1 DEF KeyOf, Members, Live
<1>4. OpenedFamilies' = OpenedFamilies /\ Orderly
    BY <1>1 DEF OpenedFamilies, Orderly
<1> QED
    BY <1>1, <1>2, <1>3, <1>4, NoSessionStep

\* The first statement of a rotation is none either: the new row is of a family
\* that has rows, and nobody was handed its token.
LEMMA IssuesNoKey ==
    ASSUME KInv, NEW c \in Calls, RotationIssues(c), Orderly'
    PROVE  UNCHANGED Account!sessionVars
<1> USE DEF KInv, IInv
<1>1. PICK x \in Tokens, f \in Families :
          x = call[c].token /\ f = token[x].family /\ token[x].state # "none"
    BY DEF RotationIssues, Stage, Presents, Issued, Rows
<1>2. PICK y \in Tokens :
          /\ token[y].state = "none"
          /\ token' = [token EXCEPT ![y] = [state |-> "live", family |-> f]]
    BY <1>1 DEF RotationIssues
<1>3. UNCHANGED <<handed, changes, changing>> /\ odd \subseteq odd'
    BY DEF RotationIssues, Note
<1>4. /\ token'[y].family = f /\ x # y /\ y \notin handed
      /\ \A z \in Tokens \ {y} : token'[z] = token[z]
    BY <1>1, <1>2 DEF TokensTypeOK, Handing, Issued
<1>5. \A g \in Families : KeyOf(g)' = KeyOf(g)
    BY <1>3, <1>4 DEF KeyOf, Members, Live
<1>6. OpenedFamilies' = OpenedFamilies
    BY <1>1, <1>2, <1>4, NobodyTypes DEF OpenedFamilies, Blank
<1> QED
    BY <1>3, <1>5, <1>6, NoSessionStep DEF Orderly, Era

\* A family whose members are revoked ends; the others keep their keys.
LEMMA RevokedKeys ==
    ASSUME KInv, NEW S, token' = Revoked(S), handed' = handed
    PROVE  /\ \A f \in Families : KeyOf(f)' = KeyOf(f) \ S
           /\ OpenedFamilies' = OpenedFamilies
<1>1. \A x \in Tokens :
          /\ token'[x].family = token[x].family
          /\ token'[x].state = "live" <=> token[x].state = "live" /\ x \notin S
    BY RevokedTyped DEF KInv, IInv
<1>2. \A f \in Families : KeyOf(f)' = KeyOf(f) \ S
    BY <1>1 DEF KeyOf, Members, Live
<1>3. OpenedFamilies' = OpenedFamilies
    BY <1>1 DEF OpenedFamilies
<1> QED
    BY <1>2, <1>3

\* A reuse and a logout end the session of their token.
LEMMA EndsSession ==
    ASSUME KInv, NEW c \in Calls, ReuseRevokes(c) \/ LogoutRevokes(c)
    PROVE  Account!SessionsNext
<1> USE DEF KInv, IInv
<1>1. PICK f \in Families : f = token[call[c].token].family
    BY DEF ReuseRevokes, LogoutRevokes, Stage, Presents, Issued, Rows
<1>2. token' = Revoked(Members(f)) /\ UNCHANGED <<changes, changing, handed, odd>>
    BY <1>1 DEF ReuseRevokes, LogoutRevokes
<1>3. /\ \A g \in Families : KeyOf(g)' = KeyOf(g) \ Members(f)
      /\ OpenedFamilies' = OpenedFamilies
    BY <1>2, RevokedKeys
<1>4. \A g \in Families : KeyOf(g)' = IF g = f THEN {} ELSE KeyOf(g)
    BY <1>3 DEF KeyOf, Members
<1>5. Account!End(f)
    BY <1>2, <1>3, <1>4 DEF Account!End
<1> QED
    BY <1>2, <1>5 DEF Account!SessionsNext, Orderly

\* The revocation is where a password change takes effect.
LEMMA ChangesAtOnce ==
    ASSUME KInv, PasswordRevokes
    PROVE  Account!SessionsNext
<1> USE DEF KInv, IInv
<1>1. /\ token' = Revoked(Tokens) /\ UNCHANGED <<changes, handed, odd>>
      /\ changing /\ ~changing'
    BY DEF PasswordRevokes
<1>2. /\ \A g \in Families : KeyOf(g)' = KeyOf(g) \ Tokens
      /\ OpenedFamilies' = OpenedFamilies
    BY <1>1, RevokedKeys
<1>3. \A g \in Families : KeyOf(g)' = {}
    BY <1>2 DEF KeyOf, Members
<1>4. Era' = Era + 1
    BY <1>1, ChangeBound DEF Era, TokensTypeOK, Changes
<1>5. Account!ChangePassword
    BY <1>1, <1>2, <1>3, <1>4 DEF Account!ChangePassword, Era
<1> QED
    BY <1>1, <1>5 DEF Account!SessionsNext, Orderly

\* The second statement of a rotation replaces the key: the presented token goes and
\* its successor is handed out.  If the session was ended since, so was the successor.
LEMMA RotatesKey ==
    ASSUME KInv, NEW c \in Calls, RotationRetires(c), Orderly'
    PROVE  Account!SessionsNext
<1> USE DEF KInv, IInv
<1>1. call[c].at = "retire" /\ Issued(call[c].token) /\ Issued(call[c].fresh)
    BY DEF RotationRetires, Stage, Presents
<1>2. PICK x \in Tokens, y \in Tokens, f \in Families :
          x = call[c].token /\ y = call[c].fresh /\ f = token[x].family
    BY <1>1 DEF Issued, Rows
<1>3. /\ UNCHANGED <<changes, changing>> /\ odd \subseteq odd' /\ handed' = handed \cup {y}
    BY <1>2 DEF RotationRetires, Returns, Note
<1>4. Orderly /\ "raced" \notin odd
    BY <1>3 DEF Orderly
<1>5. /\ x \in handed /\ y \notin handed /\ token[y].family = f
      /\ Live(y) <=> Live(x)
    BY <1>1, <1>2, <1>4, NobodyTypes DEF Handing, Successors, Successor
<1>6. /\ token'[x].state = "revoked" /\ token'[x].family = token[x].family
      /\ \A z \in Tokens \ {x} : token'[z] = token[z]
    BY <1>2 DEF RotationRetires, TokensTypeOK, Token
<1>7. OpenedFamilies' = OpenedFamilies /\ Era' = Era
    <2>1. \A z \in Tokens : token'[z].family = token[z].family
        BY <1>6
    <2> QED
        BY <1>3, <2>1 DEF OpenedFamilies, Era
<1>8. CASE Live(x)
    <2>1. \A z \in handed : Live(z) /\ token[z].family = f => z = x
        BY <1>2, <1>4, <1>5, <1>8 DEF LinearFamilies
    <2>2. x \in KeyOf(f)
        BY <1>2, <1>5, <1>8 DEF KeyOf, Members
    <2>3. KeyOf(f)' = {y}
        BY <1>3, <1>5, <1>6, <1>8, <2>1 DEF KeyOf, Members, Live
    <2>4. \A g \in Families \ {f} : KeyOf(g)' = KeyOf(g)
        BY <1>2, <1>3, <1>5, <1>6 DEF KeyOf, Members, Live
    <2>5. \A g \in Families : KeyOf(g)' = IF g = f THEN {y} ELSE KeyOf(g)
        BY <2>3, <2>4
    <2>6. Account!Rotate(f)
        BY <1>3, <1>5, <1>7, <2>2, <2>5 DEF Account!Rotate, Account!Hands, Era
    <2> QED
        BY <1>4, <2>6 DEF Account!SessionsNext
<1>9. CASE ~Live(x)
    <2>1. \A g \in Families : KeyOf(g)' = KeyOf(g)
        BY <1>3, <1>5, <1>6, <1>9 DEF KeyOf, Members, Live
    <2>2. Account!HandVoid
        BY <1>3, <1>5, <1>7, <2>1 DEF Account!HandVoid, Era
    <2> QED
        BY <1>4, <2>2 DEF Account!SessionsNext
<1> QED
    BY <1>8, <1>9

\* A login begins a session.
LEMMA BeginsSession ==
    ASSUME KInv, NEW c \in Calls, LoginIssues(c), Orderly'
    PROVE  Account!SessionsNext
<1> USE DEF KInv, IInv
<1>1. PICK x \in Tokens, f \in Families \ OpenedFamilies :
          /\ token[x].state = "none"
          /\ token' = [token EXCEPT ![x] = [state |-> "live", family |-> f]]
          /\ handed' = handed \cup {x}
    BY DEF LoginIssues
<1>2. /\ token'[x].state = "live" /\ token'[x].family = f
      /\ \A z \in Tokens \ {x} : token'[z] = token[z]
    BY <1>1 DEF TokensTypeOK
<1>3. UNCHANGED <<changes, changing>> /\ odd \subseteq odd'
    BY DEF LoginIssues, Note
<1>4. x \notin handed
    BY <1>1 DEF Handing, Issued
<1>5. \A z \in Tokens : token[z].family # f
    BY <1>1, NobodyTypes DEF OpenedFamilies
<1>6. \A g \in Families : KeyOf(g)' = IF g = f THEN {x} ELSE KeyOf(g)
    BY <1>1, <1>2, <1>4, <1>5 DEF KeyOf, Members, Live
<1>7. OpenedFamilies' = OpenedFamilies \cup {f}
    BY <1>1, <1>2, NobodyTypes DEF OpenedFamilies, Blank
<1>8. Era' = Era /\ Orderly
    BY <1>3 DEF Era, Orderly
<1>9. Account!Begin(f)
    BY <1>1, <1>4, <1>6, <1>7, <1>8 DEF Account!Begin, Account!Hands, Era
<1> QED
    BY <1>8, <1>9 DEF Account!SessionsNext

\* For any number of tabs, calls, tokens, logins and password changes, and whichever
\* statements fail: RefreshTokens implements Sessions.
THEOREM AccountInOrder == TokensSpec => SessionsInOrder
<1>1. TokensInit => Account!SessionsInit
    BY DEF TokensInit, NoToken, Account!SessionsInit, KeyOf, Members, Live, OpenedFamilies,
           Orderly
<1>2. ASSUME KInv, [TokensNext]_tokenVars
      PROVE  [Account!SessionsNext]_(Account!sessionVars)
    <2>1. CASE UNCHANGED tokenVars
        <3>1. UNCHANGED <<token, handed, changes, changing, odd>>
            BY <2>1 DEF tokenVars
        <3>2. (\A f \in Families : KeyOf(f)' = KeyOf(f)) /\ OpenedFamilies' = OpenedFamilies
            BY <3>1 DEF KeyOf, Members, Live, OpenedFamilies
        <3> QED
            BY <3>1, <3>2, NoSessionStep DEF Era, Orderly
    <2>2. CASE ~Orderly'
        BY <2>2 DEF Account!SessionsNext
    <2>3. CASE Orderly' /\ TokensNext
        <3>1. ~PasswordRevokesFails
            BY <2>3 DEF PasswordRevokesFails, Note, Orderly
        <3> QED
            BY <1>2, <2>3, <3>1, NoRowStep, EndsSession, ChangesAtOnce, IssuesNoKey, RotatesKey,
               BeginsSession DEF TokensNext
    <2> QED
        BY <1>2, <2>1, <2>2, <2>3
<1>3. TokensInit => KInv
    BY InitIInv DEF KInv, Blank, TokensInit, NoToken
<1>4. KInv /\ [TokensNext]_tokenVars => KInv'
    BY NextKeeps, BlankStep DEF KInv, IInv
<1> QED
    BY <1>1, <1>2, <1>3, <1>4, PTL DEF TokensSpec, SessionsInOrder, Account!SessionsSpec
=============================================================================
