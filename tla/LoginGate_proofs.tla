--------------------------- MODULE LoginGate_proofs ---------------------------
(***************************************************************************)
(* Theorems about LoginGate, for any limits, number of logins and requests *)
(* and length of time.                                                     *)
(***************************************************************************)
EXTENDS LoginGate, TLAPS

Fresh(a) == attempt[a].fresh

\* What a login read is what the row still holds, until another login writes it:
\* and the account was not locked then.
ReadHolds ==
    \A a \in Attempts : Comparing(a) /\ Fresh(a) =>
        /\ attempt[a].seen.failed = user.failed
        /\ attempt[a].seen.lastFailed = user.lastFailed
        /\ attempt[a].seen.lockedUntil = user.lockedUntil
        /\ ~Locked(user)

\* The counters of the row are at least those of the history.
Mirrored ==
    ~slipped =>
        /\ streak <= user.failed
        /\ lastWrong = Null => streak = 0
        /\ lastWrong # Null => user.lastFailed = lastWrong

Touching == \E q \in Requests : request[q] # Null

\* A write of lastActiveAt that is under way stores the present time, on behalf
\* of a request that was let through.
TouchesAreNow ==
    Touching => /\ \A q \in Requests : request[q] \in {Null, clock}
                /\ served = clock
                /\ ~Idle(user)

\* lastActiveAt lags behind the last request by no more than the debounce, if that
\* request was checked.
Measured ==
    /\ user.lastActive <= served /\ served <= clock
    /\ ~slipped /\ ~unseen /\ served # Null /\ ~Touching =>
          user.lastActive # Null /\ served <= user.lastActive + Debounce

IInv ==
    /\ GateTypeOK
    /\ ReadHolds
    /\ Mirrored
    /\ StreakLocks
    /\ TouchesAreNow
    /\ Measured

LEMMA AgedTyped ==
    ASSUME NEW r \in Attempt, NEW w \in BOOLEAN
    PROVE  /\ [r EXCEPT !.fresh = @ /\ ~w] \in Attempt
           /\ [r EXCEPT !.fresh = @ /\ ~w].at = r.at
           /\ [r EXCEPT !.fresh = @ /\ ~w].seen = r.seen
           /\ [r EXCEPT !.fresh = @ /\ ~w].fresh => r.fresh /\ ~w
<1>1. PICK f \in BOOLEAN : f = (r.fresh /\ ~w)
    OBVIOUS
<1>2. [r EXCEPT !.fresh = f] \in Attempt /\ [r EXCEPT !.fresh = f].fresh = f
    BY DEF Attempt
<1>3. [r EXCEPT !.fresh = f].at = r.at /\ [r EXCEPT !.fresh = f].seen = r.seen
    BY DEF Attempt
<1>4. [r EXCEPT !.fresh = @ /\ ~w] = [r EXCEPT !.fresh = f]
    BY <1>1
<1> QED
    BY <1>1, <1>2, <1>3, <1>4

LEMMA NoAttemptTyped == NoUser \in User /\ NoAttempt \in Attempt
BY DEF NoAttempt, Attempt, NoUser, User, Null

\* A login that ends, and what becomes of the others.
LEMMA EndingTyped ==
    ASSUME GateTypeOK, NEW a \in Attempts, NEW w \in BOOLEAN, AttemptEnds(a, w)
    PROVE  attempt' \in [Attempts -> Attempt] /\ slipped' \in BOOLEAN
<1>1. \A b \in Attempts : [attempt[b] EXCEPT !.fresh = @ /\ ~w] \in Attempt
    BY AgedTyped DEF GateTypeOK
<1> QED
    BY <1>1, NoAttemptTyped DEF AttemptEnds

LEMMA EndingOthers ==
    ASSUME GateTypeOK, NEW a \in Attempts, NEW w \in BOOLEAN, AttemptEnds(a, w)
    PROVE  /\ ~Comparing(a)'
           /\ \A b \in Attempts \ {a} : attempt'[b].at = attempt[b].at
                                       /\ attempt'[b].seen = attempt[b].seen
           /\ ~slipped' => ~slipped
<1>1. ASSUME NEW b \in Attempts \ {a}
      PROVE  attempt'[b].at = attempt[b].at /\ attempt'[b].seen = attempt[b].seen
    <2>1. attempt'[b] = [attempt[b] EXCEPT !.fresh = @ /\ ~w]
        BY DEF AttemptEnds
    <2>2. attempt[b] \in Attempt
        BY DEF GateTypeOK
    <2> QED
        BY <2>1, <2>2, AgedTyped
<1>2. ~Comparing(a)'
    BY DEF AttemptEnds, Comparing, NoAttempt
<1>3. ~slipped' => ~slipped
    BY DEF AttemptEnds
<1> QED
    BY <1>1, <1>2, <1>3

LEMMA EndingFresh ==
    ASSUME GateTypeOK, NEW a \in Attempts, NEW w \in BOOLEAN, AttemptEnds(a, w)
    PROVE  /\ \A b \in Attempts \ {a} : Fresh(b)' => Fresh(b) /\ ~w
           /\ ~slipped' => (w => Fresh(a))
<1>1. ASSUME NEW b \in Attempts \ {a} PROVE Fresh(b)' => Fresh(b) /\ ~w
    <2>1. attempt'[b] = [attempt[b] EXCEPT !.fresh = @ /\ ~w]
        BY DEF AttemptEnds
    <2>2. attempt[b] \in Attempt
        BY DEF GateTypeOK
    <2> QED
        BY <2>1, <2>2, AgedTyped DEF Fresh
<1>2. ~slipped' => (w => Fresh(a))
    BY DEF AttemptEnds, Fresh
<1> QED
    BY <1>1, <1>2

\* A login that wrote is alone with what it read.
LEMMA EndingWrote ==
    ASSUME GateTypeOK, NEW a \in Attempts, AttemptEnds(a, TRUE)
    PROVE  /\ \A b \in Attempts : ~(Comparing(b) /\ Fresh(b))'
           /\ ~slipped' => ~slipped /\ Fresh(a)
<1>1. \A b \in Attempts \ {a} : ~Fresh(b)'
    BY EndingFresh
<1>2. ~Comparing(a)' /\ (~slipped' => ~slipped)
    BY EndingOthers
<1>3. ~slipped' => Fresh(a)
    BY EndingFresh
<1> QED
    BY <1>1, <1>2, <1>3

\* One that did not leaves the others as they are.
LEMMA EndingQuiet ==
    ASSUME GateTypeOK, NEW a \in Attempts, AttemptEnds(a, FALSE)
    PROVE  \A b \in Attempts : (Comparing(b) /\ Fresh(b))' =>
               Comparing(b) /\ Fresh(b) /\ attempt'[b].seen = attempt[b].seen
<1>1. \A b \in Attempts \ {a} : Fresh(b)' => Fresh(b)
    BY EndingFresh
<1>2. /\ ~Comparing(a)'
      /\ \A b \in Attempts \ {a} : attempt'[b].at = attempt[b].at
                                  /\ attempt'[b].seen = attempt[b].seen
    BY EndingOthers
<1>3. \A b \in Attempts \ {a} : Comparing(b)' => Comparing(b)
    BY <1>2 DEF Comparing
<1> QED
    BY <1>1, <1>2, <1>3

----------------------------------------------------------------------------
LEMMA InitIInv == GateInit => IInv
<1> SUFFICES ASSUME GateInit PROVE IInv
    OBVIOUS
<1>1. GateTypeOK
    <2>1. attempt \in [Attempts -> Attempt] /\ request \in [Requests -> Nat] /\ user \in User
        BY NoAttemptTyped DEF GateInit, Null
    <2>2. clock \in Nat \ {0} /\ session \in Nat /\ served \in Nat /\ streak \in Nat
          /\ lastWrong \in Nat
        BY DEF GateInit, Null
    <2>3. slipped \in BOOLEAN /\ unseen \in BOOLEAN
        BY DEF GateInit
    <2> QED
        BY <2>1, <2>2, <2>3 DEF GateTypeOK
<1>2. ReadHolds
    BY DEF GateInit, ReadHolds, Comparing, NoAttempt
<1>3. StreakLocks
    BY LimitTypes DEF GateInit, StreakLocks
<1> QED
    BY <1>1, <1>2, <1>3
    DEF GateInit, IInv, Mirrored, TouchesAreNow, Touching, Measured, NoUser, Null

LEMMA ReadKeeps ==
    ASSUME IInv, NEW a \in Attempts, LoginReads(a)
    PROVE  IInv'
<1> USE DEF IInv, GateTypeOK, LoginReads
<1>1. attempt' \in [Attempts -> Attempt]
    BY DEF Attempt
<1>2. ReadHolds'
    BY DEF ReadHolds, Comparing, Locked, Fresh
<1> QED
    BY <1>1, <1>2 DEF Mirrored, StreakLocks, TouchesAreNow, Touching, Measured, Idle

LEMMA WrongKeeps ==
    ASSUME IInv, NEW a \in Attempts, WrongPassword(a)
    PROVE  IInv'
<1> USE DEF IInv
<1>0. /\ user \in User /\ attempt[a].seen \in User /\ clock \in Nat \ {0}
      /\ streak \in Nat /\ lastWrong \in Nat
    BY DEF GateTypeOK, Attempt
<1>1. PICK n : n = Counted(attempt[a].seen)
    OBVIOUS
<1>2. n \in Nat \ {0}
    BY <1>0, <1>1 DEF Counted, User
<1>3. /\ user'.failed = n /\ user'.lastFailed = clock /\ user'.lastActive = user.lastActive
      /\ user'.lockedUntil = IF Locks(n) THEN clock + Duration ELSE user.lockedUntil
    BY <1>0, <1>1 DEF WrongPassword, User
<1>4. user' \in User
    <2>1. PICK u : u = IF Locks(n) THEN clock + Duration ELSE user.lockedUntil
        OBVIOUS
    <2>2. u \in Nat
        BY <1>0, <2>1, LimitTypes DEF User
    <2>3. user' = [user EXCEPT !.failed = n, !.lastFailed = clock, !.lockedUntil = u]
        BY <1>1, <2>1 DEF WrongPassword
    <2> QED
        BY <1>0, <1>2, <2>2, <2>3 DEF User
<1>5. /\ attempt' \in [Attempts -> Attempt]
      /\ slipped' \in BOOLEAN
      /\ \A b \in Attempts : ~(Comparing(b) /\ Fresh(b))'
      /\ ~slipped' => ~slipped /\ Fresh(a)
    <2>1. AttemptEnds(a, TRUE)
        BY DEF WrongPassword
    <2>2. attempt' \in [Attempts -> Attempt] /\ slipped' \in BOOLEAN
        BY <2>1, EndingTyped
    <2> QED
        BY <2>1, <2>2, EndingWrote
<1>6. GateTypeOK'
    BY <1>0, <1>4, <1>5 DEF GateTypeOK, WrongPassword
<1>7. ReadHolds'
    BY <1>5 DEF ReadHolds
<1>8. ~slipped' => streak' <= n
    <2>1. SUFFICES ASSUME ~slipped' PROVE streak' <= n
        OBVIOUS
    <2>2. attempt[a].seen.failed = user.failed /\ attempt[a].seen.lastFailed = user.lastFailed
        BY <1>5, <2>1 DEF ReadHolds, WrongPassword
    <2>3. CASE lastWrong # Null /\ clock - lastWrong < Window
        <3>1. streak <= user.failed /\ user.lastFailed = lastWrong
            BY <1>5, <2>1, <2>3 DEF Mirrored
        <3>2. n = user.failed + 1
            BY <1>1, <2>2, <2>3, <3>1 DEF Counted
        <3> QED
            BY <1>0, <2>3, <3>1, <3>2 DEF WrongPassword, User
    <2>4. CASE ~(lastWrong # Null /\ clock - lastWrong < Window)
        BY <1>2, <2>4 DEF WrongPassword
    <2> QED
        BY <2>3, <2>4
<1>9. Mirrored'
    BY <1>0, <1>3, <1>8 DEF Mirrored, WrongPassword, Null
<1>10. StreakLocks'
    <2>1. streak' \in Nat
        BY <1>6 DEF GateTypeOK
    <2>2. lastWrong' = clock
        BY DEF WrongPassword
    <2> QED
        BY <1>0, <1>2, <1>3, <1>8, <2>1, <2>2, LimitTypes DEF StreakLocks, Locks
<1>11. UNCHANGED <<clock, request, served, unseen>> /\ user'.lastActive = user.lastActive
    BY <1>3 DEF WrongPassword
<1>12. TouchesAreNow' /\ Measured'
    BY <1>5, <1>11 DEF TouchesAreNow, Measured, Touching, Idle
<1> QED
    BY <1>6, <1>7, <1>9, <1>10, <1>12

LEMMA RightKeeps ==
    ASSUME IInv, NEW a \in Attempts, RightPassword(a)
    PROVE  IInv'
<1> USE DEF IInv
<1>0. user \in User /\ clock \in Nat \ {0}
    BY DEF GateTypeOK
<1>1. user' \in User /\ user'.lastActive = user.lastActive
    BY <1>0 DEF RightPassword, User, Null
<1>2. /\ attempt' \in [Attempts -> Attempt]
      /\ slipped' \in BOOLEAN
      /\ ~slipped' => ~slipped
    <2>1. PICK w \in BOOLEAN : AttemptEnds(a, w)
        BY DEF RightPassword, HasCounters
    <2>2. attempt' \in [Attempts -> Attempt] /\ slipped' \in BOOLEAN
        BY <2>1, EndingTyped
    <2> QED
        BY <2>1, <2>2, EndingOthers
<1>3. GateTypeOK'
    BY <1>0, <1>1, <1>2 DEF GateTypeOK, RightPassword, Null
<1>5. ReadHolds'
    <2>1. CASE HasCounters(attempt[a].seen)
        <3>1. AttemptEnds(a, TRUE)
            BY <2>1 DEF RightPassword, HasCounters
        <3> QED
            BY <3>1, EndingWrote DEF ReadHolds
    <2>2. CASE ~HasCounters(attempt[a].seen)
        <3>1. AttemptEnds(a, FALSE)
            BY <2>2 DEF RightPassword, HasCounters
        <3>2. user' = user /\ clock' = clock
            BY <2>2 DEF RightPassword
        <3> QED
            BY <3>1, <3>2, EndingQuiet DEF ReadHolds, Locked
    <2> QED
        BY <2>1, <2>2
<1>6. Mirrored' /\ StreakLocks'
    <2>1. streak' = 0 /\ lastWrong' = Null /\ user'.failed \in Nat
        BY <1>1 DEF RightPassword, User
    <2> QED
        BY <2>1, LimitTypes DEF Mirrored, StreakLocks
<1>7. TouchesAreNow' /\ Measured'
    BY <1>1, <1>2 DEF TouchesAreNow, Measured, Touching, Idle, RightPassword
<1> QED
    BY <1>3, <1>5, <1>6, <1>7

LEMMA RefusedKeeps ==
    ASSUME IInv, NEW a \in Attempts, LoginRefused(a) \/ CounterLost(a)
    PROVE  IInv'
<1> USE DEF IInv
<1>1. /\ attempt' \in [Attempts -> Attempt]
      /\ \A b \in Attempts : (Comparing(b) /\ Fresh(b))' =>
             Comparing(b) /\ Fresh(b) /\ attempt'[b].seen = attempt[b].seen
      /\ slipped' \in BOOLEAN /\ (~slipped' => ~slipped)
    <2>1. CASE LoginRefused(a)
        <3>1. AttemptEnds(a, FALSE)
            BY <2>1 DEF LoginRefused
        <3>2. attempt' \in [Attempts -> Attempt] /\ slipped' \in BOOLEAN
            BY <3>1, EndingTyped
        <3>3. ~slipped' => ~slipped
            BY <3>1, EndingOthers
        <3> QED
            BY <3>1, <3>2, <3>3, EndingQuiet
    <2>2. CASE CounterLost(a)
        <3>1. /\ attempt' = [attempt EXCEPT ![a] = NoAttempt]
              /\ slipped' = TRUE
            BY <2>2 DEF CounterLost
        <3>2. ~Comparing(a)' /\ \A b \in Attempts \ {a} : attempt'[b] = attempt[b]
            BY <3>1 DEF GateTypeOK, Comparing, NoAttempt
        <3>3. \A b \in Attempts \ {a} : (Fresh(b)' <=> Fresh(b)) /\ (Comparing(b)' <=> Comparing(b))
            BY <3>2 DEF Fresh, Comparing
        <3> QED
            BY <3>1, <3>2, <3>3, NoAttemptTyped DEF GateTypeOK
    <2> QED
        BY <2>1, <2>2
<1>2. UNCHANGED <<clock, user, request, served, unseen, streak, lastWrong>> /\ session' \in Nat
    BY DEF LoginRefused, CounterLost, GateTypeOK
<1>3. GateTypeOK' /\ ReadHolds'
    BY <1>1, <1>2 DEF GateTypeOK, ReadHolds, Locked
<1> QED
    BY <1>1, <1>2, <1>3 DEF Mirrored, StreakLocks, TouchesAreNow, Touching, Measured, Idle

----------------------------------------------------------------------------
LEMMA GuardKeeps ==
    ASSUME IInv, NEW q \in Requests, Bounced(q) \/ Served(q) \/ ServedUnchecked(q)
    PROVE  IInv'
<1> USE DEF IInv
<1>1. UNCHANGED <<clock, user, attempt, streak, lastWrong, slipped>>
    BY DEF Bounced, Served, ServedUnchecked
<1>2. GateTypeOK'
    BY DEF GateTypeOK, Bounced, Served, ServedUnchecked, Null
<1>3. ReadHolds' /\ Mirrored' /\ StreakLocks'
    BY <1>1 DEF ReadHolds, Mirrored, StreakLocks, Comparing, Fresh, Locked
<1>4. TouchesAreNow' /\ Measured'
    <2>1. CASE Bounced(q)
        BY <2>1 DEF Bounced, TouchesAreNow, Measured, Touching, Idle
    <2>2. CASE Served(q)
        <3>0. user.lastActive \in Nat /\ served \in Nat /\ clock \in Nat \ {0}
              /\ request \in [Requests -> Nat] /\ Debounce \in Nat
            BY LimitTypes DEF GateTypeOK, User
        <3>1. served' = clock /\ ~Idle(user) /\ clock' = clock /\ user' = user
            BY <2>2 DEF Served
        <3>2. \A p \in Requests : request[p] \in {Null, clock}
            BY DEF TouchesAreNow, Touching
        <3>3. \A p \in Requests : request'[p] \in {Null, clock}
            BY <2>2, <3>0, <3>2 DEF Served
        <3>4. user.lastActive <= clock
            BY <3>0 DEF Measured
        <3>5. TouchDue(user) => Touching'
            BY <2>2, <3>0 DEF Served, Touching, Null
        <3> QED
            BY <1>1, <3>0, <3>1, <3>3, <3>4, <3>5
            DEF TouchesAreNow, Measured, Idle, TouchDue, Null
    <2>3. CASE ServedUnchecked(q)
        <3>1. clock \in Nat /\ user.lastActive \in Nat /\ user.lastActive <= clock
            BY DEF GateTypeOK, User, Measured
        <3> QED
            BY <2>3, <3>1 DEF ServedUnchecked, TouchesAreNow, Measured, Touching, Idle
    <2> QED
        BY <2>1, <2>2, <2>3
<1> QED
    BY <1>2, <1>3, <1>4

LEMMA TouchKeeps ==
    ASSUME IInv, NEW q \in Requests, TouchWrites(q) \/ TouchFails(q)
    PROVE  IInv'
<1> USE DEF IInv
<1>0. /\ user \in User /\ clock \in Nat \ {0} /\ request \in [Requests -> Nat]
      /\ served \in Nat /\ Debounce \in Nat /\ Timeout \in Nat
    BY LimitTypes DEF GateTypeOK
<1>1. request[q] = clock /\ served = clock /\ ~Idle(user)
    BY DEF TouchWrites, TouchFails, TouchesAreNow, Touching
<1>2. /\ user' \in User /\ user'.failed = user.failed /\ user'.lastFailed = user.lastFailed
      /\ user'.lockedUntil = user.lockedUntil
      /\ UNCHANGED <<clock, attempt, session, served, unseen, streak, lastWrong>>
      /\ request' = [request EXCEPT ![q] = Null]
      /\ slipped' \in BOOLEAN /\ (~slipped' => ~slipped)
    BY <1>0, <1>1 DEF TouchWrites, TouchFails, User, GateTypeOK
<1>3. user'.lastActive = clock \/ (user'.lastActive = user.lastActive /\ slipped')
    BY <1>0, <1>1 DEF TouchWrites, TouchFails, User
<1>4. GateTypeOK'
    BY <1>0, <1>2 DEF GateTypeOK, Null
<1>5. ReadHolds' /\ Mirrored' /\ StreakLocks'
    BY <1>2 DEF ReadHolds, Mirrored, StreakLocks, Comparing, Fresh, Locked
<1>6. TouchesAreNow'
    <2>1. \A p \in Requests : request'[p] \in {Null, clock'}
        BY <1>0, <1>1, <1>2 DEF TouchesAreNow, Touching
    <2> QED
        BY <1>0, <1>1, <1>2, <1>3, <2>1 DEF TouchesAreNow, Idle, Null
<1>7. Measured'
    <2>1. user.lastActive <= served
        BY DEF Measured
    <2> QED
        BY <1>0, <1>1, <1>2, <1>3, <2>1 DEF Measured, Null
<1> QED
    BY <1>4, <1>5, <1>6, <1>7

LEMMA TickKeeps == ASSUME IInv, Tick PROVE IInv'
<1> USE DEF IInv
<1>1. GateTypeOK'
    BY DEF Tick, GateTypeOK
<1>2. ~Touching'
    BY DEF Tick, Touching
<1>3. \A a \in Attempts : ~Comparing(a)'
    BY DEF Tick, Comparing
<1>4. UNCHANGED <<user, attempt, request, session, served, unseen, streak, lastWrong, slipped>>
      /\ clock' = clock + 1
    BY DEF Tick
<1>5. ReadHolds' /\ TouchesAreNow'
    BY <1>2, <1>3 DEF ReadHolds, TouchesAreNow
<1>6. Mirrored' /\ StreakLocks'
    BY <1>4 DEF Mirrored, StreakLocks
<1>7. Measured'
    <2>1. ~Touching /\ served <= clock + 1
        BY DEF Tick, Touching, Measured, GateTypeOK
    <2> QED
        BY <1>4, <2>1 DEF Measured
<1> QED
    BY <1>1, <1>5, <1>6, <1>7

LEMMA NextKeeps == IInv /\ [GateNext]_gateVars => IInv'
<1> SUFFICES ASSUME IInv, [GateNext]_gateVars PROVE IInv'
    OBVIOUS
<1>1. CASE UNCHANGED gateVars
    <2>1. UNCHANGED <<clock, user, attempt, request, session, served, unseen, streak, lastWrong, slipped>>
        BY <1>1 DEF gateVars
    <2>2. GateTypeOK' /\ Mirrored' /\ StreakLocks'
        BY <2>1 DEF IInv, GateTypeOK, Mirrored, StreakLocks
    <2>3. ReadHolds'
        BY <2>1 DEF IInv, ReadHolds, Comparing, Fresh, Locked
    <2>4. TouchesAreNow' /\ Measured'
        BY <2>1 DEF IInv, TouchesAreNow, Touching, Measured, Idle
    <2> QED
        BY <2>2, <2>3, <2>4 DEF IInv
<1>2. ASSUME NEW a \in Attempts,
             LoginReads(a) \/ WrongPassword(a) \/ RightPassword(a) \/ LoginRefused(a) \/ CounterLost(a)
      PROVE  IInv'
    BY <1>2, ReadKeeps, WrongKeeps, RightKeeps, RefusedKeeps
<1>3. ASSUME NEW q \in Requests,
             Bounced(q) \/ Served(q) \/ ServedUnchecked(q) \/ TouchWrites(q) \/ TouchFails(q)
      PROVE  IInv'
    BY <1>3, GuardKeeps, TouchKeeps
<1>4. CASE Tick
    BY <1>4, TickKeeps
<1> QED
    BY <1>1, <1>2, <1>3, <1>4 DEF GateNext

----------------------------------------------------------------------------
LEMMA Invariant == GateSpec => []IInv
<1> QED
    BY InitIInv, NextKeeps, PTL DEF GateSpec

\* The variables keep their types.
THEOREM GateTyped == GateSpec => []GateTypeOK
<1>1. IInv => GateTypeOK
    BY DEF IInv
<1> QED
    BY <1>1, Invariant, PTL

\* Threshold wrong passwords in a row lock the account for the whole duration,
\* as long as no login wrote over a row it had not read.
THEOREM StreaksLock == GateSpec => []StreakLocks
<1>1. IInv => StreakLocks
    BY DEF IInv
<1> QED
    BY <1>1, Invariant, PTL

LEMMA LockStep ==
    ASSUME IInv, [GateNext]_gateVars, ~slipped', user.lockedUntil > clock
    PROVE  user'.lockedUntil >= user.lockedUntil
<1> USE DEF IInv
<1>0. user \in User /\ user.lockedUntil \in Nat /\ clock \in Nat
    BY DEF GateTypeOK, User
<1>1. CASE user' = user
    BY <1>0, <1>1
<1>2. ASSUME NEW a \in Attempts, WrongPassword(a) \/ RightPassword(a), user' # user
      PROVE  FALSE
    <2>1. Comparing(a) /\ Fresh(a)
        BY <1>2 DEF WrongPassword, RightPassword, AttemptEnds, Fresh
    <2> QED
        BY <1>0, <2>1 DEF ReadHolds, Locked
<1>3. ASSUME NEW q \in Requests, TouchWrites(q) PROVE user'.lockedUntil >= user.lockedUntil
    BY <1>0, <1>3 DEF TouchWrites, User
<1>4. CASE user' # user
    <2>1. ~UNCHANGED gateVars /\ ~Tick
        BY <1>4 DEF gateVars, Tick
    <2>2. \A a \in Attempts : ~LoginReads(a) /\ ~LoginRefused(a) /\ ~CounterLost(a)
        BY <1>4 DEF LoginReads, LoginRefused, CounterLost
    <2>3. \A q \in Requests : ~Bounced(q) /\ ~Served(q) /\ ~ServedUnchecked(q) /\ ~TouchFails(q)
        BY <1>4 DEF Bounced, Served, ServedUnchecked, TouchFails
    <2> QED
        BY <1>2, <1>3, <1>4, <2>1, <2>2, <2>3 DEF GateNext
<1> QED
    BY <1>1, <1>4

\* No step shortens a lock that is running, as long as no login writes over a
\* row it had not read.
THEOREM LocksHold == GateSpec => LockHolds
<1>1. IInv /\ [GateNext]_gateVars =>
          [~slipped' /\ user.lockedUntil > clock => user'.lockedUntil >= user.lockedUntil]_gateVars
    BY LockStep
<1> QED
    BY <1>1, Invariant, PTL DEF GateSpec, LockHolds

LEMMA IdleStep ==
    ASSUME IInv, NEW q \in Requests, ~slipped', ~unseen, served # Null
    PROVE  /\ Served(q) => clock - served <= Timeout
           /\ Bounced(q) => clock - served > Timeout - Debounce
<1> USE DEF IInv
<1>0. /\ user.lastActive \in Nat /\ clock \in Nat /\ served \in Nat
      /\ Debounce \in Nat /\ Timeout \in Nat
    BY LimitTypes DEF GateTypeOK, User
<1>1. ASSUME Served(q) PROVE clock - served <= Timeout
    <2>1. ~slipped /\ ~Idle(user)
        BY <1>1 DEF Served
    <2>2. CASE Touching
        BY <1>0, <2>2 DEF TouchesAreNow
    <2>3. CASE ~Touching
        BY <1>0, <2>1, <2>3 DEF Measured, Idle
    <2> QED
        BY <2>2, <2>3
<1>2. ASSUME Bounced(q) PROVE clock - served > Timeout - Debounce
    <2>1. ~slipped /\ Idle(user)
        BY <1>2 DEF Bounced
    <2>2. ~Touching
        BY <2>1 DEF TouchesAreNow
    <2> QED
        BY <1>0, <2>1, <2>2 DEF Measured, Idle
<1> QED
    BY <1>1, <1>2

\* Whoever passes the idle check was active within the limit, and whoever is bounced
\* was not for the limit less one debounce, unless the last request of theirs went
\* unchecked.
THEOREM IdlenessIsMeasured == GateSpec => IdleIsMeasured
<1>1. IInv /\ [GateNext]_gateVars =>
          [\A q \in Requests : ~slipped' /\ ~unseen /\ served # Null =>
              /\ Served(q) => clock - served <= Timeout
              /\ Bounced(q) => clock - served > Timeout - Debounce]_gateVars
    BY IdleStep
<1> QED
    BY <1>1, Invariant, PTL DEF GateSpec, IdleIsMeasured

----------------------------------------------------------------------------
(* LoginGate implements Lockout. *)

\* A lost write, or one over a newer row: nothing is promised any more.
LEMMA LostIsLoose ==
    ASSUME slipped' = TRUE
    PROVE  [Counters!LockNext]_(Counters!lockVars)
BY DEF Counters!LockNext

\* A step that leaves the counters, the clock and the history alone.
LEMMA NoCounterStep ==
    ASSUME UNCHANGED <<clock, slipped>>,
           user'.failed = user.failed, user'.lastFailed = user.lastFailed,
           user'.lockedUntil = user.lockedUntil
    PROVE  [Counters!LockNext]_(Counters!lockVars)
BY DEF Counters!lockVars

\* A wrong password, counted upon the row of before the comparison, counts upon
\* the row of now.
LEMMA WrongStrikes ==
    ASSUME IInv, NEW a \in Attempts, WrongPassword(a)
    PROVE  [Counters!LockNext]_(Counters!lockVars)
<1> USE DEF IInv
<1>0. user \in User /\ clock \in Nat /\ slipped \in BOOLEAN /\ AttemptEnds(a, TRUE)
    BY DEF GateTypeOK, WrongPassword
<1>1. slipped' \in BOOLEAN /\ (~slipped' => ~slipped /\ Fresh(a))
    BY <1>0, EndingTyped, EndingWrote
<1>2. CASE ~slipped'
    <2>1. ~slipped /\ Fresh(a) /\ Comparing(a) /\ slipped' = slipped
        BY <1>0, <1>1, <1>2 DEF WrongPassword
    <2>2. /\ attempt[a].seen.failed = user.failed
          /\ attempt[a].seen.lastFailed = user.lastFailed
          /\ Counters!Open
        BY <1>0, <2>1 DEF ReadHolds, Locked, Counters!Open, User
    <2>3. PICK n : n = Counted(attempt[a].seen)
        OBVIOUS
    <2>4. n = IF user.lastFailed # 0 /\ clock - user.lastFailed < Window
              THEN user.failed + 1 ELSE 1
        BY <2>2, <2>3 DEF Counted, Null
    <2>5. /\ user'.failed = n /\ user'.lastFailed = clock /\ clock' = clock
          /\ user'.lockedUntil = IF Locks(n) THEN clock + Duration ELSE user.lockedUntil
        BY <1>0, <2>3 DEF WrongPassword, User
    <2>6. Counters!Strike
        BY <2>2, <2>4, <2>5 DEF Counters!Strike, Locks
    <2> QED
        BY <2>1, <2>6 DEF Counters!LockNext
<1> QED
    BY <1>1, <1>2, LostIsLoose

\* A right password clears the row of now, or there was nothing to clear.
LEMMA RightClears ==
    ASSUME IInv, NEW a \in Attempts, RightPassword(a)
    PROVE  [Counters!LockNext]_(Counters!lockVars)
<1> USE DEF IInv
<1>0. user \in User /\ clock \in Nat /\ slipped \in BOOLEAN
    BY DEF GateTypeOK
<1>1. CASE ~HasCounters(attempt[a].seen)
    <2>1. UNCHANGED <<clock, user>> /\ slipped' = slipped
        BY <1>0, <1>1 DEF RightPassword, AttemptEnds
    <2> QED
        BY <2>1, NoCounterStep
<1>2. CASE HasCounters(attempt[a].seen)
    <2>1. AttemptEnds(a, TRUE)
        BY <1>2 DEF RightPassword, HasCounters
    <2>2. slipped' \in BOOLEAN /\ (~slipped' => ~slipped /\ Fresh(a))
        BY <2>1, EndingTyped, EndingWrote
    <2>3. CASE ~slipped'
        <3>1. ~slipped /\ Fresh(a) /\ Comparing(a) /\ slipped' = slipped
            BY <1>0, <2>2, <2>3 DEF RightPassword
        <3>2. Counters!Open
            BY <1>0, <3>1 DEF ReadHolds, Locked, Counters!Open, User
        <3>3. /\ user'.failed = 0 /\ user'.lastFailed = 0 /\ user'.lockedUntil = 0
              /\ clock' = clock
            BY <1>0, <1>2 DEF RightPassword, User, Null
        <3> QED
            BY <3>1, <3>2, <3>3 DEF Counters!LockNext, Counters!Clear
    <2> QED
        BY <2>2, <2>3, LostIsLoose
<1> QED
    BY <1>1, <1>2

\* Whatever else a login, a request or the clock does.
LEMMA OthersKeepCounters ==
    ASSUME IInv,
           \/ \E a \in Attempts : LoginReads(a) \/ LoginRefused(a) \/ CounterLost(a)
           \/ \E q \in Requests : Bounced(q) \/ Served(q) \/ ServedUnchecked(q) \/ TouchWrites(q) \/ TouchFails(q)
           \/ Tick
    PROVE  [Counters!LockNext]_(Counters!lockVars)
<1>0. user \in User /\ slipped \in BOOLEAN
    BY DEF IInv, GateTypeOK
<1>1. ASSUME NEW a \in Attempts, LoginReads(a) \/ LoginRefused(a)
      PROVE  UNCHANGED <<clock, user>> /\ slipped' = slipped
    BY <1>0, <1>1 DEF LoginReads, LoginRefused, AttemptEnds
<1>2. ASSUME NEW q \in Requests, Bounced(q) \/ Served(q) \/ ServedUnchecked(q)
      PROVE  UNCHANGED <<clock, user, slipped>>
    BY <1>2 DEF Bounced, Served, ServedUnchecked
<1>3. ASSUME NEW q \in Requests, TouchWrites(q)
      PROVE  /\ UNCHANGED <<clock, slipped>>
             /\ user'.failed = user.failed /\ user'.lastFailed = user.lastFailed
             /\ user'.lockedUntil = user.lockedUntil
    BY <1>0, <1>3 DEF TouchWrites, User
<1>4. ASSUME Tick PROVE [Counters!LockNext]_(Counters!lockVars)
    BY <1>4 DEF Tick, Counters!LockNext, Counters!Pass
<1>5. ASSUME NEW a \in Attempts, CounterLost(a) PROVE slipped' = TRUE
    BY <1>5 DEF CounterLost
<1>6. ASSUME NEW q \in Requests, TouchFails(q) PROVE slipped' = TRUE
    BY <1>6 DEF TouchFails
<1> QED
    BY <1>1, <1>2, <1>3, <1>4, <1>5, <1>6, NoCounterStep, LostIsLoose

\* For any limits and any number of logins and requests: the counters that each
\* login computes from what it read are those of a lockout that acts at one
\* instant, until a login overtakes another or a write is lost.
THEOREM LockoutAtOnce == GateSpec => LocksAtOnce
<1>1. GateInit => Counters!LockInit
    BY DEF GateInit, Counters!LockInit, NoUser, Null
<1>2. IInv /\ [GateNext]_gateVars => [Counters!LockNext]_(Counters!lockVars)
    <2> SUFFICES ASSUME IInv, [GateNext]_gateVars
                 PROVE  [Counters!LockNext]_(Counters!lockVars)
        OBVIOUS
    <2>1. CASE UNCHANGED gateVars
        BY <2>1, NoCounterStep DEF gateVars
    <2>2. CASE GateNext
        BY <2>2, WrongStrikes, RightClears, OthersKeepCounters DEF GateNext
    <2> QED
        BY <2>1, <2>2
<1> QED
    BY <1>1, <1>2, Invariant, PTL DEF GateSpec, LocksAtOnce, Counters!LockSpec
=============================================================================
