---------------------------- MODULE RefreshTokens ----------------------------
(***************************************************************************)
(* The refresh tokens of one account: the handlers of auth.service.ts      *)
(* (login, rotateRefreshToken, logout), the password change of             *)
(* user-management.service.ts, and the browser that uses them              *)
(* (frontend/lib/api/client.ts): tabs that share localStorage and refresh  *)
(* on a timer or after a 401.  A handler awaits between its statements,    *)
(* and no transaction covers two of them.  The lockout and the idle limit  *)
(* are in LoginGate.                                                       *)
(***************************************************************************)
EXTENDS Naturals, FiniteSets

CONSTANTS
    Tabs,        \* tabs of the browser
    Calls,       \* calls to /auth that may be in progress at once
    Tokens,      \* refresh tokens (bounds how many are ever issued)
    Families,    \* families, one per login
    MaxChanges,  \* bound on password changes
    Nobody       \* no tab, no token, no call, no family

ASSUME NobodyIsNew == Nobody \notin Tabs \cup Calls \cup Tokens \cup Families
ASSUME ChangeBound == MaxChanges \in Nat

VARIABLES
    changes,   \* User: how often its password has changed (passwordChangedAt)
    token,     \* the RefreshToken rows
    family,    \* history: the password under which a family was opened
    handed,    \* history: the refresh tokens whose raw value a call has returned
    changing,  \* the update of the password is done, the revocation is not
    store,     \* localStorage: the refresh token and the access token
    flight,    \* inflightRefresh of each tab
    told,      \* tabs with a storage event to come
    call,      \* the calls in progress
    odd        \* history: what happened that the rotation does not provide for

tokenVars == <<changes, token, family, handed, changing, store, flight, told, call, odd>>

TokenStates == {"none", "live", "revoked"}
Token == [state : TokenStates, family : Families \cup {Nobody}]
Changes == 0 .. MaxChanges
Stages == {"idle", "read", "reuse", "issue", "retire", "ok", "fail", "login", "logout", "bye"}
\* by: the tab that still listens; urgent: a request that got a 401 waits for it;
\* alive: what was read of the token presented; seen, upto: as made, upto of store
AuthCall == [at : Stages, by : Tabs \cup {Nobody}, urgent : BOOLEAN,
             token : Tokens \cup {Nobody}, fresh : Tokens \cup {Nobody}, alive : BOOLEAN,
             seen : Changes, upto : Changes]
NoCall == [at |-> "idle", by |-> Nobody, urgent |-> FALSE, token |-> Nobody,
           fresh |-> Nobody, alive |-> FALSE, seen |-> 0, upto |-> 0]
NoToken == [state |-> "none", family |-> Nobody]
\* made: the changes when the access token was made; upto: the last change whose
\* passwordChangedAt is not in a later second than its iat
Store == [refresh : Tokens \cup {Nobody}, made : Changes, upto : Changes]
Empty == [refresh |-> Nobody, made |-> 0, upto |-> 0]
Oddities == {"raced", "shared", "lost", "late", "unrevoked"}

TokensInit ==
    /\ changes = 0
    /\ token = [x \in Tokens |-> NoToken]
    /\ family = [f \in Families |-> 0]
    /\ handed = {}
    /\ changing = FALSE
    /\ store = Empty
    /\ flight = [t \in Tabs |-> Nobody]
    /\ told = {}
    /\ call = [c \in Calls |-> NoCall]
    /\ odd = {}

----------------------------------------------------------------------------
Stage(c, s) == call[c].at = s
Members(f) == {x \in Tokens : token[x].family = f}
OpenedFamilies == {token[x].family : x \in Tokens} \ {Nobody}

\* updateMany where revokedAt is null
Revoked(S) == [x \in Tokens |->
    IF x \in S /\ token[x].state # "none" THEN [token[x] EXCEPT !.state = "revoked"] ELSE token[x]]

Note(what, happened) == odd' = odd \cup (IF happened THEN {what} ELSE {})

\* localStorage changes: the other tabs get a storage event.
Stores(t, pair) == store' = pair /\ told' = (told \cup Tabs) \ {t}
EndsCall(c) == call' = [call EXCEPT ![c] = NoCall]
LeavesPage(c, t) ==
    call' = [d \in Calls |-> IF d = c THEN NoCall
                             ELSE IF call[d].by = t THEN [call[d] EXCEPT !.by = Nobody]
                             ELSE call[d]]

----------------------------------------------------------------------------
(* The browser: refreshAccessToken, the interceptor, the timer *)

\* A timer is due or a request got a 401, and no refresh is in flight in this tab.
RefreshStarts(t, c) ==
    /\ store.refresh # Nobody /\ flight[t] = Nobody /\ Stage(c, "idle")
    /\ \E urgent \in BOOLEAN :
          call' = [call EXCEPT ![c] = [NoCall EXCEPT !.at = "read", !.by = t, !.urgent = urgent,
                                                     !.token = store.refresh]]
    /\ flight' = [flight EXCEPT ![t] = c]
    /\ Note("shared", \E d \in Calls : call[d].token = store.refresh /\ ~Stage(d, "bye"))
    /\ UNCHANGED <<changes, token, family, handed, changing, store, told>>

\* A request that gets a 401 meanwhile waits for the refresh in flight.
RefreshJoined(t) ==
    /\ flight[t] # Nobody
    /\ call' = [call EXCEPT ![flight[t]].urgent = TRUE]
    /\ UNCHANGED <<changes, token, family, handed, changing, store, flight, told, odd>>

\* Mutant: the new access token is kept and the old refresh token stays.
KeepsOldRefresh(c) ==
    /\ Stage(c, "ok")
    /\ IF call[c].by = Nobody THEN UNCHANGED <<store, flight, told, odd>>
       ELSE /\ Stores(call[c].by, [store EXCEPT !.made = call[c].seen, !.upto = call[c].upto])
            /\ flight' = [flight EXCEPT ![call[c].by] = Nobody]
            /\ UNCHANGED odd
    /\ EndsCall(c)
    /\ UNCHANGED <<changes, token, family, handed, changing>>

\* setPair, and inflightRefresh = null whichever refresh that is by now
RefreshReturns(c) ==
    /\ Stage(c, "ok")
    /\ IF call[c].by = Nobody THEN UNCHANGED <<store, flight, told, odd>>
       ELSE /\ Stores(call[c].by, [refresh |-> call[c].fresh, made |-> call[c].seen,
                                   upto |-> call[c].upto])
            /\ flight' = [flight EXCEPT ![call[c].by] = Nobody]
            /\ Note("late", store.refresh # call[c].token)
    /\ EndsCall(c)
    /\ UNCHANGED <<changes, token, family, handed, changing>>

\* Only a request that got a 401 leads to the login page.
GivesUp(c) ==
    IF call[c].urgent
    THEN /\ Stores(call[c].by, Empty)
         /\ LeavesPage(c, call[c].by)
    ELSE EndsCall(c) /\ UNCHANGED <<store, told>>

RefreshFails(c) ==
    /\ Stage(c, "fail")
    /\ IF call[c].by = Nobody THEN EndsCall(c) /\ UNCHANGED <<store, flight, told>>
       ELSE GivesUp(c) /\ flight' = [flight EXCEPT ![call[c].by] = Nobody]
    /\ UNCHANGED <<changes, token, family, handed, changing, odd>>

\* The answer is lost or 30 s pass: the same for the browser; the server goes on.
AnswerLost(c) ==
    LET t == call[c].by IN
    /\ call[c].at \in {"read", "reuse", "issue", "retire", "ok"} /\ t # Nobody
    /\ call' = [d \in Calls |-> IF d = c \/ (call[c].urgent /\ call[d].by = t)
                                THEN [call[d] EXCEPT !.by = Nobody] ELSE call[d]]
    /\ IF call[c].urgent THEN Stores(t, Empty) ELSE UNCHANGED <<store, told>>
    /\ flight' = [flight EXCEPT ![t] = Nobody]
    /\ Note("lost", TRUE)
    /\ UNCHANGED <<changes, token, family, handed, changing>>

StorageEvent(t) ==
    /\ t \in told
    /\ told' = told \ {t}
    /\ flight' = [flight EXCEPT ![t] = Nobody]
    /\ UNCHANGED <<changes, token, family, handed, changing, store, call, odd>>

----------------------------------------------------------------------------
(* rotateRefreshToken *)

Reading(c, stage) ==
    /\ call' = [call EXCEPT ![c].at = stage, ![c].seen = changes,
                             ![c].alive = token[call[c].token].state = "live"]
    /\ UNCHANGED <<changes, token, family, handed, changing, store, flight, told, odd>>

\* Mutant: a rotated token can be used again (no look at revokedAt).
ReadsWithoutReuse(c) == Stage(c, "read") /\ \E s \in {"issue", "fail"} : Reading(c, s)

\* A token that is not revoked fails all the same when it has expired, or when
\* the user has been deactivated.
RotationReads(c) ==
    /\ Stage(c, "read")
    /\ \/ token[call[c].token].state = "revoked" /\ Reading(c, "reuse")
       \/ token[call[c].token].state = "live" /\ \E s \in {"issue", "fail"} : Reading(c, s)

ReuseRevokes(c) ==
    /\ Stage(c, "reuse")
    /\ token' = Revoked(Members(token[call[c].token].family))
    /\ call' = [call EXCEPT ![c].at = "fail"]
    /\ UNCHANGED <<changes, family, handed, changing, store, flight, told, odd>>

PasswordMoved(c) == changing \/ call[c].seen # changes

\* The row it read has been rotated or revoked since, or is about to be.
Overtaken(c) ==
    /\ call[c].alive
    /\ \/ token[call[c].token].state = "revoked"
       \/ \E d \in Calls \ {c} : Stage(d, "retire") /\ call[d].token = call[c].token

RotationIssues(c) ==
    /\ Stage(c, "issue")
    /\ \E y \in Tokens :
          /\ token[y].state = "none"
          /\ token' = [token EXCEPT ![y] = [state |-> "live",
                                            family |-> token[call[c].token].family]]
          /\ call' = [call EXCEPT ![c].at = "retire", ![c].fresh = y]
    /\ Note("raced", Overtaken(c) \/ PasswordMoved(c))
    /\ UNCHANGED <<changes, family, handed, changing, store, flight, told>>

\* The access token is made last, with the time of that moment: its iat is not
\* before the changes there were, nor before one whose passwordChangedAt falls in
\* the same second, or was taken already and is being written.
Returns(c) ==
    /\ handed' = handed \cup {call[c].fresh}
    /\ \E upto \in changes .. MaxChanges :
          call' = [call EXCEPT ![c].at = "ok", ![c].seen = changes, ![c].upto = upto]
    /\ Note("raced", PasswordMoved(c))

\* Mutant: the presented token is not revoked.
RetiresNothing(c) ==
    /\ Stage(c, "retire")
    /\ Returns(c)
    /\ UNCHANGED <<changes, token, family, changing, store, flight, told>>

RotationRetires(c) ==
    /\ Stage(c, "retire")
    /\ token' = [token EXCEPT ![call[c].token].state = "revoked"]
    /\ Returns(c)
    /\ UNCHANGED <<changes, family, changing, store, flight, told>>

\* A statement of a call throws, or a restart takes the call with it: what it wrote
\* stays.  A rotation that ends before it revokes the presented token leaves a
\* second live one, which nobody was handed.
CallFails(c) ==
    /\ \/ /\ call[c].at \in {"read", "reuse", "issue", "retire"}
          /\ call' = [call EXCEPT ![c].at = "fail"]
       \/ Stage(c, "logout") /\ call' = [call EXCEPT ![c].at = "bye"]
       \/ Stage(c, "login") /\ EndsCall(c)
    /\ UNCHANGED <<changes, token, family, handed, changing, store, flight, told, odd>>

----------------------------------------------------------------------------
(* login, logout, and the users page *)

\* login reads the user and compares the password; the pair is issued later.
LoginVerifies(t, c) ==
    /\ store.refresh = Nobody /\ Stage(c, "idle")
    /\ \A d \in Calls : call[d].by # t
    /\ call' = [call EXCEPT ![c] = [NoCall EXCEPT !.at = "login", !.by = t,
                                                  !.seen = changes]]
    /\ UNCHANGED <<changes, token, family, handed, changing, store, flight, told, odd>>

LoginIssues(c) ==
    /\ Stage(c, "login")
    /\ \E x \in Tokens, f \in Families \ OpenedFamilies, upto \in changes .. MaxChanges :
          /\ token[x].state = "none"
          /\ token' = [token EXCEPT ![x] = [state |-> "live", family |-> f]]
          /\ family' = [family EXCEPT ![f] = call[c].seen]
          /\ handed' = handed \cup {x}
          /\ IF call[c].by = Nobody THEN UNCHANGED <<store, told>>
             ELSE Stores(call[c].by, [refresh |-> x, made |-> changes, upto |-> upto])
    /\ Note("raced", PasswordMoved(c))
    /\ EndsCall(c)
    /\ UNCHANGED <<changes, changing, flight>>

LogoutStarts(t, c) ==
    /\ store.refresh # Nobody /\ Stage(c, "idle")
    /\ \A d \in Calls : call[d].by = t => call[d].at \notin {"login", "logout", "bye"}
    /\ call' = [call EXCEPT ![c] = [NoCall EXCEPT !.at = "logout", !.by = t,
                                                  !.token = store.refresh]]
    /\ UNCHANGED <<changes, token, family, handed, changing, store, flight, told, odd>>

\* A row keeps its family: reading it and revoking the family can be one step.
LogoutRevokes(c) ==
    /\ Stage(c, "logout")
    /\ token' = Revoked(Members(token[call[c].token].family))
    /\ call' = [call EXCEPT ![c].at = "bye"]
    /\ UNCHANGED <<changes, family, handed, changing, store, flight, told, odd>>

\* The error of the call is swallowed: the local tokens go either way.
LogoutClears(c) ==
    /\ call[c].at \in {"logout", "bye"} /\ call[c].by # Nobody
    /\ Stores(call[c].by, Empty)
    /\ IF Stage(c, "bye") THEN LeavesPage(c, call[c].by)
       ELSE call' = [d \in Calls |-> IF call[d].by = call[c].by
                                     THEN [call[d] EXCEPT !.by = Nobody] ELSE call[d]]
    /\ flight' = [flight EXCEPT ![call[c].by] = Nobody]
    /\ UNCHANGED <<changes, token, family, handed, changing, odd>>

\* The tab went on without it.
LogoutForgotten(c) ==
    /\ Stage(c, "bye") /\ call[c].by = Nobody
    /\ EndsCall(c)
    /\ UNCHANGED <<changes, token, family, handed, changing, store, flight, told, odd>>

PasswordChanges ==
    /\ ~changing /\ changes < MaxChanges
    /\ changes' = changes + 1
    /\ changing' = TRUE
    /\ UNCHANGED <<token, family, handed, store, flight, told, call, odd>>

\* Mutant: the refresh tokens outlive the password (before 2026-07-03).
PasswordRevokesNothing ==
    /\ changing /\ changing' = FALSE
    /\ UNCHANGED <<changes, token, family, handed, store, flight, told, call, odd>>

PasswordRevokes ==
    /\ changing /\ changing' = FALSE
    /\ token' = Revoked(Tokens)
    /\ UNCHANGED <<changes, family, handed, store, flight, told, call, odd>>

\* The second statement throws, or is never run: the password has changed.
PasswordRevokesFails ==
    /\ changing /\ changing' = FALSE
    /\ Note("unrevoked", TRUE)
    /\ UNCHANGED <<changes, token, family, handed, store, flight, told, call>>

----------------------------------------------------------------------------
TokensNext ==
    \/ \E t \in Tabs, c \in Calls :
          RefreshStarts(t, c) \/ LoginVerifies(t, c) \/ LogoutStarts(t, c)
    \/ \E t \in Tabs : RefreshJoined(t) \/ StorageEvent(t)
    \/ \E c \in Calls :
          \/ RefreshReturns(c) \/ RefreshFails(c) \/ AnswerLost(c)
          \/ RotationReads(c) \/ ReuseRevokes(c) \/ RotationIssues(c) \/ RotationRetires(c)
          \/ LoginIssues(c) \/ LogoutRevokes(c) \/ LogoutClears(c) \/ LogoutForgotten(c)
          \/ CallFails(c)
    \/ PasswordChanges \/ PasswordRevokes \/ PasswordRevokesFails
TokensSpec == TokensInit /\ [][TokensNext]_tokenVars

----------------------------------------------------------------------------
TokensTypeOK ==
    /\ changes \in Changes
    /\ token \in [Tokens -> Token]
    /\ family \in [Families -> Changes]
    /\ handed \subseteq Tokens
    /\ changing \in BOOLEAN
    /\ store \in Store
    /\ flight \in [Tabs -> Calls \cup {Nobody}]
    /\ told \subseteq Tabs
    /\ call \in [Calls -> AuthCall]
    /\ odd \subseteq Oddities

Live(x) == token[x].state = "live"

\* A family is a chain with one end: of its tokens that anybody was handed one is
\* live at most (rotateRefreshToken), whatever statement of a rotation fails,
\* unless two rotations ran over one another or a revocation came between two
\* statements of one.
LinearFamilies ==
    "raced" \notin odd => \A x, y \in handed :
        Live(x) /\ Live(y) /\ token[x].family = token[y].family => x = y

\* validateToken lets the access token in: its iat is not in an earlier second than
\* passwordChangedAt.  Slack: it was made before that change was written all the same.
Accepted(pair) == pair.refresh # Nobody /\ pair.upto >= changes
Slack(pair) == pair.made < changes /\ changes <= pair.upto

Orderly == odd \cap {"raced", "unrevoked"} = {}

\* "The previous holder loses access on their next request AND cannot renew"
\* (user-management.service.ts 145-149): once a password change is done, what
\* is live, or accepted by validateToken but for its slack of a second, belongs
\* to a login with the new password; only a call that overlaps the change, or a
\* revocation that throws, can break it.
PasswordEndsSessions ==
    Orderly /\ ~changing =>
        /\ \A x \in Tokens : Live(x) => family[token[x].family] = changes
        /\ Accepted(store) /\ ~Slack(store) =>
              family[token[store.refresh].family] = changes

Dead(f) == f \in OpenedFamilies /\ \A x \in Members(f) : token[x].state = "revoked"

\* Logout, a reused token and a password change end a family for good: nothing
\* rotates it back to life, except a rotation that had read it before.
DeadStaysDead ==
    [][\A f \in Families : "raced" \notin odd' /\ Dead(f) => Dead(f)']_tokenVars

Replacing(x) == \E c \in Calls : Stage(c, "ok") /\ call[c].token = x /\ call[c].by # Nobody
LeavingPage == \E c \in Calls : Stage(c, "bye") \/ Stage(c, "logout")

\* The browser holds the end of its family: the stored token is not a revoked
\* one that the next refresh would present as a reuse (client.ts 165-191),
\* unless the answer is on its way, the password changed or a tab is logging
\* out; two tabs that present one token, a lost answer and an answer that comes
\* after another login are the exceptions.
StoredIsUsable ==
    odd = {} /\ store.refresh # Nobody /\ token[store.refresh].state = "revoked" =>
        \/ Replacing(store.refresh)
        \/ family[token[store.refresh].family] # changes \/ changing
        \/ LeavingPage

----------------------------------------------------------------------------
(* The account as a set of sessions *)

\* What continues a family: live, and somebody was handed it.
KeyOf(f) == {x \in Members(f) \cap handed : Live(x)}
Account == INSTANCE Sessions WITH
    Names <- Families, Keys <- Tokens,
    key <- [f \in Families |-> KeyOf(f)],
    used <- handed,
    begun <- OpenedFamilies,
    era <- IF changing THEN changes - 1 ELSE changes,
    loose <- ~Orderly

\* The refresh tokens "are revoked in the same transaction" as the password
\* changes (schema.prisma 43-44).  They are two statements, and so are the two of
\* a rotation; as long as no other activity runs over one of them, and the second
\* of a change does not fail, nobody can tell: each takes effect at once, also when
\* a rotation fails half way, and every session has one key.
SessionsInOrder == Account!SessionsSpec

\* The same promise taken at its word: but for an overlap, no token is live that
\* belongs to a login with an older password.  Between the two statements one is.
RevokedWithPassword ==
    "raced" \notin odd => \A x \in Tokens : Live(x) => family[token[x].family] = changes
=============================================================================
