------------------------------- MODULE Lockout -------------------------------
(***************************************************************************)
(* The lockout of an account as if a login took no time: a wrong password  *)
(* counts with those that came within the window of one another, the       *)
(* threshold locks the account for the whole duration, a right password    *)
(* clears the count, and no password is compared while the lock runs.      *)
(* loose says that a login wrote over a row that had changed since it read *)
(* it, or that a write was lost; nothing is promised from there on.        *)
(* LoginGate implements it.                                                *)
(***************************************************************************)
EXTENDS Integers

CONSTANTS Threshold, Window, Duration

VARIABLES
    now,
    strikes,  \* wrong passwords that count
    last,     \* the time of the last one, 0 if none
    until,    \* the end of the lock, 0 if none
    loose

lockVars == <<now, strikes, last, until, loose>>

LockInit ==
    /\ now = 1
    /\ strikes = 0 /\ last = 0 /\ until = 0
    /\ loose = FALSE

Open == until <= now

Strike ==
    /\ Open
    /\ strikes' = IF last # 0 /\ now - last < Window THEN strikes + 1 ELSE 1
    /\ last' = now
    /\ until' = IF strikes' >= Threshold THEN now + Duration ELSE until
    /\ UNCHANGED now

Clear ==
    /\ Open
    /\ strikes' = 0 /\ last' = 0 /\ until' = 0
    /\ UNCHANGED now

Pass == now' = now + 1 /\ UNCHANGED <<strikes, last, until>>

LockNext == loose' = TRUE \/ (UNCHANGED loose /\ (Strike \/ Clear \/ Pass))
LockSpec == LockInit /\ [][LockNext]_lockVars
=============================================================================
