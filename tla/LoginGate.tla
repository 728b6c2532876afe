------------------------------ MODULE LoginGate ------------------------------
(***************************************************************************)
(* What stands between an account and the panel: the lockout after wrong   *)
(* passwords (login and recordFailedLogin of auth.service.ts) and the idle *)
(* limit that AuthGuard applies to every request (touchActivity).  Both    *)
(* keep their state in the User row, read it, decide and write it later.   *)
(* The refresh tokens are in RefreshTokens.                                *)
(***************************************************************************)
EXTENDS Integers

CONSTANTS
    Attempts,   \* logins that may be in progress at once
    Requests,   \* authenticated requests that may be in progress at once
    Threshold,  \* ACCOUNT_LOCKOUT_THRESHOLD
    Window,     \* ACCOUNT_LOCKOUT_WINDOW_MIN
    Duration,   \* ACCOUNT_LOCKOUT_DURATION_MIN
    Timeout,    \* SESSION_IDLE_TIMEOUT_MIN
    Debounce,   \* SESSION_IDLE_TOUCH_DEBOUNCE_SEC
    MaxClock    \* bound on the clock

ASSUME LimitTypes == {Threshold, Window, Duration, Timeout, Debounce} \subseteq Nat \ {0}
ASSUME ClockBound == MaxClock \in Nat

VARIABLES
    clock,      \* time in ticks
    user,       \* the User row
    attempt,    \* the logins in progress
    request,    \* the requests in progress
    session,    \* when the session in the browser was opened
    served,     \* history: the last request let through
    unseen,     \* history: that one passed without the idle check
    streak,     \* history: wrong passwords in a row, each within Window of the one before
    lastWrong,  \* history: the last of them
    slipped     \* history: a login wrote over a newer row, or a write was lost

gateVars == <<clock, user, attempt, request, session, served, unseen, streak, lastWrong, slipped>>

Null == 0    \* no time; the clock starts later
User == [failed : Nat, lastFailed : Nat, lockedUntil : Nat, lastActive : Nat]
\* fresh: no other login has written the row since this one read it
Attempt == [at : {"idle", "compare"}, seen : User, fresh : BOOLEAN]
NoUser == [failed |-> 0, lastFailed |-> Null, lockedUntil |-> Null, lastActive |-> Null]
NoAttempt == [at |-> "idle", seen |-> NoUser, fresh |-> FALSE]

GateInit ==
    /\ clock = 1
    /\ user = NoUser
    /\ attempt = [a \in Attempts |-> NoAttempt]
    /\ request = [q \in Requests |-> Null]
    /\ session = Null /\ served = Null /\ unseen = FALSE
    /\ streak = 0 /\ lastWrong = Null
    /\ slipped = FALSE

----------------------------------------------------------------------------
\* Mutant: a locked account goes on to the comparison.
LockedNever(u) == FALSE

Locked(u) == u.lockedUntil > clock

Comparing(a) == attempt[a].at = "compare"

\* login up to bcrypt: a locked account stops here.
LoginReads(a) ==
    /\ attempt[a].at = "idle" /\ ~Locked(user)
    /\ attempt' = [attempt EXCEPT ![a] = [at |-> "compare", seen |-> user, fresh |-> TRUE]]
    /\ UNCHANGED <<clock, user, request, session, served, unseen, streak, lastWrong, slipped>>

AttemptEnds(a, wrote) ==
    /\ attempt' = [b \in Attempts |->
           IF b = a THEN NoAttempt
           ELSE [attempt[b] EXCEPT !.fresh = @ /\ ~wrote]]
    /\ slipped' = (slipped \/ (wrote /\ ~attempt[a].fresh))

Counted(u) ==
    IF u.lastFailed # Null /\ clock - u.lastFailed < Window THEN u.failed + 1 ELSE 1

\* Mutant: one wrong password too many.
LocksLate(n) == n > Threshold

Locks(n) == n >= Threshold

\* recordFailedLogin, with the counters read before the comparison
WrongPassword(a) ==
    LET n == Counted(attempt[a].seen) IN
    /\ Comparing(a)
    /\ user' = [user EXCEPT !.failed = n, !.lastFailed = clock,
                            !.lockedUntil = IF Locks(n) THEN clock + Duration ELSE @]
    /\ streak' = IF lastWrong # Null /\ clock - lastWrong < Window THEN streak + 1 ELSE 1
    /\ lastWrong' = clock
    /\ AttemptEnds(a, TRUE)
    /\ UNCHANGED <<clock, request, session, served, unseen>>

HasCounters(u) == u.failed > 0 \/ u.lockedUntil # Null \/ u.lastFailed # Null

\* The reset is written only if the row that was read had something to reset.
RightPassword(a) ==
    /\ Comparing(a)
    /\ user' = IF HasCounters(attempt[a].seen)
               THEN [user EXCEPT !.failed = 0, !.lockedUntil = Null, !.lastFailed = Null]
               ELSE user
    /\ session' = clock
    /\ streak' = 0 /\ lastWrong' = Null
    /\ AttemptEnds(a, HasCounters(attempt[a].seen))
    /\ UNCHANGED <<clock, request, served, unseen>>

\* A deactivated account, or an error: nothing is written.
LoginRefused(a) ==
    /\ Comparing(a)
    /\ AttemptEnds(a, FALSE)
    /\ UNCHANGED <<clock, user, request, session, served, unseen, streak, lastWrong>>

\* The failure of either write is swallowed.
CounterLost(a) ==
    /\ Comparing(a)
    /\ attempt' = [attempt EXCEPT ![a] = NoAttempt]
    /\ session' \in {session, clock}
    /\ slipped' = TRUE
    /\ UNCHANGED <<clock, user, request, served, unseen, streak, lastWrong>>

----------------------------------------------------------------------------
(* AuthGuard: touchActivity on every request of the session *)

Idle(u) == u.lastActive # Null /\ clock - u.lastActive > Timeout

\* The browser drops its tokens and shows the login page.
Bounced(q) ==
    /\ session # Null /\ request[q] = Null /\ Idle(user)
    /\ session' = Null
    /\ UNCHANGED <<clock, user, attempt, request, served, unseen, streak, lastWrong, slipped>>

\* Mutant: the debounce compares with the idle limit.
TouchDueLate(u) == u.lastActive = Null \/ clock - u.lastActive > Timeout

TouchDue(u) == u.lastActive = Null \/ clock - u.lastActive > Debounce

\* The write is not awaited: request[q] is the time it will store.
Served(q) ==
    /\ session # Null /\ request[q] = Null /\ ~Idle(user)
    /\ served' = clock /\ unseen' = FALSE
    /\ request' = [request EXCEPT ![q] = IF TouchDue(user) THEN clock ELSE Null]
    /\ UNCHANGED <<clock, user, attempt, session, streak, lastWrong, slipped>>

\* touchActivity fails open: the read throws, or finds no active user.
ServedUnchecked(q) ==
    /\ session # Null /\ request[q] = Null
    /\ served' = clock /\ unseen' = TRUE
    /\ UNCHANGED <<clock, user, attempt, request, session, streak, lastWrong, slipped>>

TouchWrites(q) ==
    /\ request[q] # Null
    /\ user' = [user EXCEPT !.lastActive = request[q]]
    /\ request' = [request EXCEPT ![q] = Null]
    /\ UNCHANGED <<clock, attempt, session, served, unseen, streak, lastWrong, slipped>>

TouchFails(q) ==
    /\ request[q] # Null
    /\ request' = [request EXCEPT ![q] = Null]
    /\ slipped' = TRUE
    /\ UNCHANGED <<clock, user, attempt, session, served, unseen, streak, lastWrong>>

----------------------------------------------------------------------------
\* A handler takes milliseconds and a tick is minutes: what was begun ends first.
Tick ==
    /\ clock < MaxClock
    /\ \A a \in Attempts : attempt[a].at = "idle"
    /\ \A q \in Requests : request[q] = Null
    /\ clock' = clock + 1
    /\ UNCHANGED <<user, attempt, request, session, served, unseen, streak, lastWrong, slipped>>

GateNext ==
    \/ \E a \in Attempts :
          LoginReads(a) \/ WrongPassword(a) \/ RightPassword(a) \/ LoginRefused(a) \/ CounterLost(a)
    \/ \E q \in Requests :
          Bounced(q) \/ Served(q) \/ ServedUnchecked(q) \/ TouchWrites(q) \/ TouchFails(q)
    \/ Tick
GateSpec == GateInit /\ [][GateNext]_gateVars

----------------------------------------------------------------------------
GateTypeOK ==
    /\ clock \in Nat \ {0}
    /\ user \in User
    /\ attempt \in [Attempts -> Attempt]
    /\ request \in [Requests -> Nat]
    /\ session \in Nat /\ served \in Nat /\ streak \in Nat /\ lastWrong \in Nat
    /\ unseen \in BOOLEAN /\ slipped \in BOOLEAN

\* "The lockout window holds firm" (auth.service.ts 123-127): nothing shortens
\* a lock that is running, except a login that read the row before the lock.
LockHolds ==
    [][~slipped' /\ user.lockedUntil > clock =>
          user'.lockedUntil >= user.lockedUntil]_gateVars

\* Threshold wrong passwords in a row, each within the window of the one before,
\* lock the account for the whole duration (recordFailedLogin), unless two
\* logins overlapped and a failure was not counted.
StreakLocks ==
    ~slipped /\ streak >= Threshold => user.lockedUntil >= lastWrong + Duration

\* The idle limit measures what it says, whatever the debounced writes leave
\* out: who passes the check was active within Timeout, and who is bounced has
\* been idle for more than Timeout less one debounce.  "Best-effort": a request
\* whose check fails open passes however idle and leaves no trace, so the next
\* check knows nothing of it (touchActivity, auth.service.ts 355-370).
IdleIsMeasured ==
    [][\A q \in Requests : ~slipped' /\ ~unseen /\ served # Null =>
          /\ Served(q) => clock - served <= Timeout
          /\ Bounced(q) => clock - served > Timeout - Debounce]_gateVars

\* The counters of the row, which every login computes from what it read before
\* it compared the password, are those of a lockout that acts at one instant:
\* "Checked BEFORE the password compare so a locked account doesn't keep ticking
\* the failed-attempts counter" (auth.service.ts 123-127).
Counters == INSTANCE Lockout WITH
    now <- clock, strikes <- user.failed, last <- user.lastFailed,
    until <- user.lockedUntil, loose <- slipped
LocksAtOnce == Counters!LockSpec

\* "Sesion vencida por inactividad. Inicia sesion de nuevo para continuar."
\* (auth.guard.ts 47-48): a session opened within Timeout is not idle.
LoginEndsIdleness ==
    [][\A q \in Requests : Bounced(q) => clock - session > Timeout]_gateVars
=============================================================================
