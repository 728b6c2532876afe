------------------------------- MODULE Sessions -------------------------------
(***************************************************************************)
(* What logins, rotation, logout and password changes promise together: a  *)
(* session has at most one key, a rotation replaces it by one that was     *)
(* never used, a session that has ended does not begin again, and a change *)
(* of the password ends all of them at one instant.  loose says that two   *)
(* activities ran over one another or half of a change of the password     *)
(* failed; nothing is promised from there on.                              *)
(* RefreshTokens implements it.                                            *)
(***************************************************************************)
EXTENDS Naturals

CONSTANTS
    Names,  \* sessions
    Keys    \* what a session is continued with

VARIABLES
    key,     \* the keys a session can be continued with: none or one
    used,    \* the keys ever given
    begun,   \* the sessions ever begun
    era,     \* how often the password has changed
    loose

sessionVars == <<key, used, begun, era, loose>>

SessionsInit ==
    /\ key = [s \in Names |-> {}]
    /\ used = {} /\ begun = {}
    /\ era = 0
    /\ loose = FALSE

Hands(s) == \E k \in Keys \ used :
    key' = [key EXCEPT ![s] = {k}] /\ used' = used \cup {k}

Begin(s) ==
    /\ s \notin begun
    /\ Hands(s)
    /\ begun' = begun \cup {s}
    /\ UNCHANGED era

Rotate(s) ==
    /\ key[s] # {}
    /\ Hands(s)
    /\ UNCHANGED <<begun, era>>

End(s) ==
    /\ key' = [key EXCEPT ![s] = {}]
    /\ UNCHANGED <<used, begun, era>>

\* A key that is handed out after its session has ended opens nothing.
HandVoid ==
    /\ \E k \in Keys \ used : used' = used \cup {k}
    /\ UNCHANGED <<key, begun, era>>

ChangePassword ==
    /\ era' = era + 1
    /\ key' = [s \in Names |-> {}]
    /\ UNCHANGED <<used, begun>>

SessionsNext ==
    \/ loose' = TRUE
    \/ /\ UNCHANGED loose
       /\ \/ \E s \in Names : Begin(s) \/ Rotate(s) \/ End(s)
          \/ HandVoid \/ ChangePassword

SessionsSpec == SessionsInit /\ [][SessionsNext]_sessionVars
=============================================================================
