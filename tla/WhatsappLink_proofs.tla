------------------------ MODULE WhatsappLink_proofs ------------------------
(***************************************************************************)
(* Proofs about WhatsappLink, for any number of sockets and of requests.   *)
(***************************************************************************)
EXTENDS WhatsappLink, TLAPS

IInv == TypeOK /\ ConnectedIsReal

LEMMA EndedTyped ==
    ASSUME TypeOK
    PROVE  Ended \in [Sockets -> Phases]
BY DEF TypeOK, Ended, Phases

LEMMA InitIInv == Init => IInv
<1> SUFFICES ASSUME Init PROVE IInv
    OBVIOUS
<1>1. act \in [Activities -> Activity]
    <2>1. \A point \in {"idle", "loading"} : Doing(point) \in Activity
        BY DEF Doing, Activity
    <2> QED
        BY <2>1 DEF Init
<1>2. socket \in [Sockets -> Phases]
    BY DEF Init, Phases
<1>3. TypeOK
    <2>1. faults \in 0 .. MaxLoadFaults
        BY FaultBound DEF Init
    <2> QED
        BY <1>1, <1>2, <2>1 DEF Init, TypeOK, Statuses
<1>4. ConnectedIsReal
    BY DEF Init, ConnectedIsReal
<1> QED
    BY <1>3, <1>4 DEF IInv

\* start(), before and after its await
LEMMA StartStep == IInv /\ Start => IInv'
<1> SUFFICES ASSUME IInv, Start PROVE IInv'
    OBVIOUS
<1> USE DEF IInv, TypeOK, ConnectedIsReal
<1>1. ASSUME NEW a \in Activities, NEW phase \in {"opening", "mute"}, Loaded(a, phase)
      PROVE  IInv'
    <2> PICK s \in Sockets \ {sock} : /\ socket[s] = "closed"
                                      /\ sock' = s
                                      /\ socket' = [socket EXCEPT ![s] = phase]
        BY <1>1 DEF Loaded
    <2>1. TypeOK'
        BY <1>1 DEF Loaded, Goto, Doing, Activity, Phases, Living
    <2>2. ConnectedIsReal'
        BY <1>1 DEF Loaded
    <2> QED
        BY <2>1, <2>2
<1>2. ASSUME NEW a \in Activities, LoadFails(a) PROVE IInv'
    <2>1. TypeOK'
        BY <1>2, FaultBound DEF LoadFails, Goto, Doing, Activity, Statuses
    <2> QED
        BY <1>2, <2>1 DEF LoadFails
<1> QED
    BY <1>1, <1>2 DEF Start

LEMMA DoingTyped ==
    ASSUME TypeOK, NEW a \in Activities, NEW act2,
           NEW point \in {"idle", "loading", "pause"},
           act2 = [act EXCEPT ![a] = Doing(point)]
    PROVE  act2 \in [Activities -> Activity]
<1>1. Doing(point) \in Activity
    BY DEF Doing, Activity
<1> QED
    BY <1>1 DEF TypeOK

LEMMA BeginStartStep ==
    ASSUME IInv, NEW a \in Activities, BeginStart(a),
           UNCHANGED <<sock, socket, encoding, session, faults>>,
           armed' \in BOOLEAN, watch' = watch
    PROVE  IInv'
<1>1. TypeOK'
    <2>1. act' \in [Activities -> Activity]
        BY DoingTyped DEF IInv, BeginStart, Goto
    <2> QED
        BY <2>1 DEF IInv, TypeOK, BeginStart, Statuses
<1>2. ConnectedIsReal'
    BY DEF IInv, TypeOK, BeginStart, ConnectedIsReal
<1> QED
    BY <1>1, <1>2 DEF IInv

LEMMA AdminStep == IInv /\ Admin => IInv'
<1> SUFFICES ASSUME IInv, NEW a \in Admins,
                    \/ AdminStart(a)
                    \/ \E wipe \in BOOLEAN : AdminDisconnect(a, wipe)
                    \/ LogoutDone(a)
                    \/ DisconnectEnds(a)
             PROVE  IInv'
    BY DEF Admin
<1> a \in Activities
    BY DEF Activities
<1>1. CASE AdminStart(a)
    BY <1>1, BeginStartStep DEF AdminStart, IInv, TypeOK
<1>2. ASSUME NEW wipe \in BOOLEAN, AdminDisconnect(a, wipe) PROVE IInv'
    <2>1. TypeOK'
        <3>1. [at |-> "logout", wipe |-> wipe] \in Activity
            BY DEF Activity
        <3>2. act' \in [Activities -> Activity]
            BY <1>2, <3>1 DEF IInv, TypeOK, AdminDisconnect
        <3>3. /\ status' \in Statuses /\ sock' \in Sockets \cup {None}
              /\ session' \in BOOLEAN
            BY <1>2 DEF IInv, TypeOK, AdminDisconnect, Disconnected, Statuses
        <3> QED
            BY <1>2, <3>2, <3>3 DEF IInv, TypeOK, AdminDisconnect
    <2>2. ConnectedIsReal'
        BY <1>2 DEF IInv, ConnectedIsReal, AdminDisconnect, Disconnected
    <2> QED
        BY <2>1, <2>2 DEF IInv
<1>3. CASE LogoutDone(a)
    <2>1. TypeOK'
        BY <1>3 DEF IInv, TypeOK, LogoutDone, Phases
    <2>2. ConnectedIsReal'
        BY <1>3 DEF IInv, TypeOK, ConnectedIsReal, LogoutDone
    <2> QED
        BY <2>1, <2>2 DEF IInv
<1>4. CASE DisconnectEnds(a)
    <2>1. act[a].wipe \in BOOLEAN
        BY DEF IInv, TypeOK, Activity
    <2>2. TypeOK'
        BY <1>4, <2>1, EndedTyped
        DEF IInv, TypeOK, DisconnectEnds, Disconnected, Goto, Doing, Activity, Statuses
    <2>3. ConnectedIsReal'
        BY <1>4 DEF ConnectedIsReal, DisconnectEnds, Disconnected
    <2> QED
        BY <2>2, <2>3 DEF IInv
<1> QED
    BY <1>1, <1>2, <1>3, <1>4

LEMMA TimerStep == IInv /\ Timers => IInv'
<1> SUFFICES ASSUME IInv, Timers PROVE IInv'
    OBVIOUS
<1> "timer" \in Activities /\ "watchdog" \in Activities
    BY DEF Activities
<1>1. CASE ReconnectFires
    BY <1>1, BeginStartStep DEF ReconnectFires
<1>2. CASE WatchdogNotes
    BY <1>2 DEF WatchdogNotes, IInv, TypeOK, ConnectedIsReal
<1>3. CASE HardReset
    <2>1. TypeOK'
        BY <1>3, EndedTyped DEF HardReset, IInv, TypeOK, Goto, Doing, Activity, Statuses
    <2>2. ConnectedIsReal'
        BY <1>3 DEF HardReset, ConnectedIsReal
    <2> QED
        BY <2>1, <2>2 DEF IInv
<1>4. CASE ResetRestarts
    BY <1>4, BeginStartStep DEF ResetRestarts, IInv, TypeOK
<1> QED
    BY <1>1, <1>2, <1>3, <1>4 DEF Timers

\* connection.update: only 'open' makes the status connected, and then s is open.
LEMMA UpdateStep == IInv /\ Updates => IInv'
<1> SUFFICES ASSUME IInv, NEW s \in Sockets,
                    \/ QrArrives(s)
                    \/ QrReady(s)
                    \/ Opens(s)
                    \/ PhoneUnlinksDevice(s)
                    \/ Closes(s)
                    \/ ClosesLoggedOut(s)
             PROVE  IInv'
    BY DEF Updates
<1>1. TypeOK'
    BY DEF IInv, TypeOK, QrArrives, QrReady, Opens, PhoneUnlinksDevice, Closes,
           ClosesLoggedOut, Statuses, Phases, Living
<1>2. CASE QrArrives(s) \/ QrReady(s) \/ Closes(s) \/ ClosesLoggedOut(s)
    BY <1>1, <1>2 DEF IInv, ConnectedIsReal, QrArrives, QrReady, Closes, ClosesLoggedOut
<1>3. CASE Opens(s)
    <2>1. socket'[s] = "open"
        BY <1>3 DEF IInv, TypeOK, Opens
    <2> QED
        BY <1>1, <2>1 DEF IInv, ConnectedIsReal
<1>4. CASE PhoneUnlinksDevice(s)
    BY <1>1, <1>4 DEF IInv, TypeOK, ConnectedIsReal, PhoneUnlinksDevice
<1> QED
    BY <1>2, <1>3, <1>4

LEMMA IInvHolds == Spec => []IInv
<1>1. IInv /\ [Next]_vars => IInv'
    <2> SUFFICES ASSUME IInv, [Next]_vars PROVE IInv'
        OBVIOUS
    <2>1. CASE UNCHANGED vars
        BY <2>1 DEF vars, IInv, TypeOK, ConnectedIsReal
    <2> QED
        BY <2>1, StartStep, AdminStep, TimerStep, UpdateStep DEF Next
<1> QED
    BY <1>1, InitIInv, PTL DEF Spec

\* The fields of the service, the sockets and the activities keep their types.
THEOREM TypeCorrect == Spec => []TypeOK
<1>1. IInv => TypeOK
  BY DEF IInv
<1> QED
  BY <1>1, IInvHolds, PTL

\* The status shown to the operator, to /health and to sendMessage is honest:
\* "connected" means that a socket is open, however many starts, disconnects,
\* resets and late events of old sockets overlap.
THEOREM ConnectedStatusIsReal == Spec => []ConnectedIsReal
<1>1. IInv => ConnectedIsReal
    BY DEF IInv
<1> QED
    BY <1>1, IInvHolds, PTL

----------------------------------------------------------------------------
(* With nobody at the controller, and local work done before a timer fires. *)

Unattended == Admins = {} /\ Prompt

\* A live socket is this.sock, the status counts it as running, and nothing else is
\* under way; while a start awaits the session there is no socket at all.
LiveIsSock ==
    \A s \in Sockets : Live(s) =>
        /\ s = sock /\ status \in Transient \cup {"connected"}
        /\ Dying = {} /\ \A a \in Activities : At(a, "idle")

StartIsAlone ==
    /\ \A a, b \in Activities : At(a, "idle") \/ At(b, "idle") \/ a = b
    /\ \A a \in Activities : At(a, "loading") => Dying = {} /\ status \in {"starting", "waiting_qr"}
    /\ \A a \in Activities : ~At(a, "logout")

AloneInv == TypeOK /\ LiveIsSock /\ StartIsAlone /\ SendsReachWhatsApp

LEMMA InitAlone == Init => AloneInv
BY InitIInv DEF IInv, Init, AloneInv, LiveIsSock, StartIsAlone, SendsReachWhatsApp, Live, Living,
                At, Doing, Dying

LEMMA LoadAlone ==
    ASSUME AloneInv, NEW a \in Activities, Loaded(a, "opening") \/ Loaded(a, "mute")
    PROVE  LiveIsSock' /\ StartIsAlone' /\ SendsReachWhatsApp'
<1> PICK s \in Sockets : socket[s] = "closed" /\ sock' = s
                         /\ \E phase \in {"opening", "mute"} : socket' = [socket EXCEPT ![s] = phase]
    BY DEF Loaded
<1>1. At(a, "loading") /\ act' = [act EXCEPT ![a] = Doing("idle")] /\ status' = status
    BY DEF Loaded, Goto
<1>2. Dying = {} /\ status \in {"starting", "waiting_qr"}
    BY <1>1 DEF AloneInv, StartIsAlone
<1>3. \A t \in Sockets : ~Live(t)
    BY <1>1 DEF AloneInv, LiveIsSock, At
<1>4. \A b \in Activities : act'[b].at = "idle"
    BY <1>1 DEF AloneInv, TypeOK, StartIsAlone, At, Doing
<1>5. socket'[s] \in {"opening", "mute"} /\ \A t \in Sockets : t # s => socket'[t] = socket[t]
    BY DEF AloneInv, TypeOK
<1>6. Dying' = {}
    BY <1>2, <1>5 DEF Dying
<1>7. \A t \in Sockets : Live(t)' => t = s
    BY <1>3, <1>5 DEF Live
<1>8. LiveIsSock'
    BY <1>1, <1>2, <1>4, <1>6, <1>7 DEF LiveIsSock, At, Transient
<1> QED BY <1>1, <1>2, <1>4, <1>8 DEF StartIsAlone, SendsReachWhatsApp, At

LEMMA LoadFailsAlone ==
    ASSUME AloneInv, NEW a \in Activities, LoadFails(a)
    PROVE  LiveIsSock' /\ StartIsAlone' /\ SendsReachWhatsApp'
<1>1. At(a, "loading") /\ act' = [act EXCEPT ![a] = Doing("idle")] /\ status' = "errored"
      /\ UNCHANGED <<sock, socket>>
    BY DEF LoadFails, Goto
<1>2. \A s \in Sockets : ~Live(s)
    BY <1>1 DEF AloneInv, LiveIsSock, At
<1>3. \A b \in Activities : act'[b].at = "idle"
    BY <1>1 DEF AloneInv, TypeOK, StartIsAlone, At, Doing
<1> QED BY <1>1, <1>2, <1>3 DEF LiveIsSock, StartIsAlone, SendsReachWhatsApp, At, Live

\* A start begins when everything is idle and no socket is dying; if one lives,
\* Running refuses.
LEMMA BeginAlone ==
    ASSUME AloneInv, NEW a \in Activities, BeginStart(a), Dying = {},
           \A b \in Activities : b # a => At(b, "idle"), UNCHANGED <<sock, socket>>
    PROVE  LiveIsSock' /\ StartIsAlone' /\ SendsReachWhatsApp'
<1>1. Dying' = {} /\ \A s \in Sockets : Live(s)' = Live(s)
    BY DEF Dying, Live
<1>2. CASE Running
    <2>1. act' = [act EXCEPT ![a] = Doing("idle")] /\ status' = status
        BY <1>2 DEF BeginStart, Goto
    <2>2. \A b \in Activities : act'[b].at = "idle"
        BY <2>1 DEF AloneInv, TypeOK, At, Doing
    <2> QED BY <1>1, <2>1, <2>2 DEF AloneInv, LiveIsSock, StartIsAlone, SendsReachWhatsApp, At
<1>3. CASE ~Running
    <2>1. act' = [act EXCEPT ![a] = Doing("loading")] /\ status' = "starting"
        BY <1>3 DEF BeginStart, Goto
    <2>2. \A s \in Sockets : ~Live(s)
        BY <1>3, NoSocket DEF Running, AloneInv, LiveIsSock
    <2>3. act'[a].at = "loading" /\ \A b \in Activities : b # a => act'[b].at = "idle"
        BY <2>1 DEF AloneInv, TypeOK, At, Doing
    <2> QED BY <1>1, <2>1, <2>2, <2>3 DEF LiveIsSock, StartIsAlone, SendsReachWhatsApp, At
<1> QED BY <1>2, <1>3

LEMMA TimersAlone ==
    ASSUME Unattended, AloneInv, Timers
    PROVE  LiveIsSock' /\ StartIsAlone' /\ SendsReachWhatsApp'
<1> "timer" \in Activities /\ "watchdog" \in Activities
    BY DEF Activities
<1>1. CASE ReconnectFires
    BY <1>1, BeginAlone DEF ReconnectFires, MayFire, Unattended
<1>2. CASE WatchdogNotes
    BY <1>2 DEF WatchdogNotes, AloneInv, LiveIsSock, StartIsAlone, SendsReachWhatsApp, Live, Dying, At
<1>3. CASE HardReset
    <2>1. sock' = None /\ status' = "disconnected" /\ socket' = Ended
          /\ act' = [act EXCEPT !["watchdog"] = Doing("pause")]
        BY <1>3 DEF HardReset, Goto
    <2>2. \A a \in Activities : At(a, "idle")
        BY <1>3 DEF HardReset, MayFire, Unattended
    <2>3. \A s \in Sockets : socket'[s] \notin Living
        <3>1. ASSUME NEW s \in Sockets, Live(s) PROVE socket'[s] = "ended"
            <4>1. s = sock /\ sock # None
                BY <3>1, NoSocket DEF AloneInv, LiveIsSock
            <4> QED BY <2>1, <3>1, <4>1 DEF Ended, AloneInv, TypeOK
        <3>2. ASSUME NEW s \in Sockets, ~Live(s) PROVE socket'[s] \notin Living
            <4>1. socket'[s] = socket[s] \/ socket'[s] = "ended"
                BY <2>1 DEF Ended, AloneInv, TypeOK
            <4> QED BY <3>2, <4>1 DEF Live, Living
        <3> QED BY <3>1, <3>2 DEF Living
    <2>4. \A a \in Activities : act'[a].at = IF a = "watchdog" THEN "pause" ELSE "idle"
        BY <2>1, <2>2 DEF AloneInv, TypeOK, At, Doing
    <2> QED BY <2>1, <2>3, <2>4 DEF LiveIsSock, StartIsAlone, SendsReachWhatsApp, Live, At
<1>4. CASE ResetRestarts
    <2>1. Dying = {} /\ \A b \in Activities : b # "watchdog" => At(b, "idle")
        BY <1>4 DEF ResetRestarts, Unattended, AloneInv, StartIsAlone, At
    <2> QED BY <1>4, <2>1, BeginAlone DEF ResetRestarts
<1> QED BY <1>1, <1>2, <1>3, <1>4 DEF Timers

\* An event of a socket: the current one, or one that is dying.
LEMMA UpdatesAlone ==
    ASSUME AloneInv, Updates
    PROVE  LiveIsSock' /\ StartIsAlone' /\ SendsReachWhatsApp'
<1> PICK s \in Sockets :
        QrArrives(s) \/ QrReady(s) \/ Opens(s) \/ PhoneUnlinksDevice(s) \/ Closes(s) \/ ClosesLoggedOut(s)
    BY DEF Updates
<1> USE DEF AloneInv
<1>1. CASE QrArrives(s) \/ QrReady(s)
    <2>1. UNCHANGED <<sock, socket, act>> /\ (status' = status \/ status' = "waiting_qr")
        BY <1>1 DEF QrArrives, QrReady
    <2> QED BY <2>1 DEF LiveIsSock, StartIsAlone, SendsReachWhatsApp, Live, Dying, At, Transient
<1>2. CASE Opens(s)
    <2>1. s = sock /\ Dying = {} /\ \A a \in Activities : At(a, "idle")
        BY <1>2 DEF Opens, LiveIsSock, Live, Living
    <2>2. socket'[s] = "open" /\ \A t \in Sockets : t # s => socket'[t] = socket[t]
        BY <1>2 DEF Opens, TypeOK
    <2>3. UNCHANGED <<sock, act>> /\ status' = "connected"
        BY <1>2 DEF Opens
    <2>4. Dying' = {}
        BY <2>1, <2>2 DEF Dying
    <2>5. \A t \in Sockets : Live(t)' => t = s
        BY <2>1, <2>2 DEF LiveIsSock, Live
    <2> QED BY <2>1, <2>2, <2>3, <2>4, <2>5 DEF LiveIsSock, StartIsAlone, SendsReachWhatsApp, At
<1>3. CASE PhoneUnlinksDevice(s)
    <2>1. s = sock /\ \A a \in Activities : At(a, "idle")
        BY <1>3 DEF PhoneUnlinksDevice, LiveIsSock, Live, Living
    <2>2. socket'[s] = "unlinked" /\ \A t \in Sockets : t # s => socket'[t] = socket[t]
        BY <1>3 DEF PhoneUnlinksDevice, TypeOK
    <2>3. UNCHANGED <<sock, act, status>>
        BY <1>3 DEF PhoneUnlinksDevice
    <2>4. \A t \in Sockets : ~Live(t)'
        BY <2>1, <2>2 DEF LiveIsSock, Live, Living
    <2> QED BY <2>1, <2>2, <2>3, <2>4 DEF LiveIsSock, StartIsAlone, SendsReachWhatsApp, At
<1>4. CASE Closes(s) \/ ClosesLoggedOut(s)
    <2>1. socket'[s] = "closed" /\ \A t \in Sockets : t # s => socket'[t] = socket[t]
        BY <1>4 DEF Closes, ClosesLoggedOut, TypeOK
    <2>2. UNCHANGED <<sock, act>> /\ status' = "disconnected" /\ socket[s] \in {"ended", "unlinked", "opening", "open"}
        BY <1>4 DEF Closes, ClosesLoggedOut
    <2>3. \A a \in Activities : ~At(a, "loading")
        BY <2>2 DEF LiveIsSock, StartIsAlone, Live, Living, Dying, At
    <2>4. \A t \in Sockets : ~Live(t)'
        BY <2>1, <2>2 DEF LiveIsSock, Live, Living, Dying
    <2> QED BY <2>2, <2>3, <2>4 DEF LiveIsSock, StartIsAlone, SendsReachWhatsApp, At
<1> QED BY <1>1, <1>2, <1>3, <1>4

LEMMA AloneHolds == ASSUME Unattended PROVE Spec => []AloneInv
<1>1. IInv /\ AloneInv /\ [Next]_vars => AloneInv'
    <2> SUFFICES ASSUME IInv, AloneInv, [Next]_vars PROVE AloneInv'
        OBVIOUS
    <2>1. TypeOK'
        <3>1. CASE UNCHANGED vars
            BY <3>1 DEF IInv, TypeOK, vars
        <3>2. CASE Next
            BY <3>2, StartStep, AdminStep, TimerStep, UpdateStep DEF IInv, Next
        <3> QED BY <3>1, <3>2
    <2>2. CASE UNCHANGED vars
        BY <2>2, <2>1 DEF vars, AloneInv, LiveIsSock, StartIsAlone, SendsReachWhatsApp, Live, Dying, At
    <2>3. ~Admin
        BY DEF Admin, Unattended
    <2>4. CASE Start
        BY <2>1, <2>4, LoadAlone, LoadFailsAlone DEF Start, AloneInv
    <2>5. CASE Timers \/ Updates
        BY <2>1, <2>5, TimersAlone, UpdatesAlone DEF AloneInv
    <2> QED BY <2>2, <2>3, <2>4, <2>5 DEF Next
<1> QED BY <1>1, InitAlone, IInvHolds, PTL DEF Spec

\* With no request to the controller, the timers and the watchdog never make a
\* second live socket, for any number of sockets created one after another.
THEOREM OneSocketLives == Unattended => (Spec => []OneLiveSocket)
<1> SUFFICES ASSUME Unattended PROVE Spec => []OneLiveSocket
    OBVIOUS
<1>1. AloneInv => OneLiveSocket
    BY DEF AloneInv, LiveIsSock, OneLiveSocket
<1> QED BY <1>1, AloneHolds, PTL

\* Under the same conditions a message is only handed to a socket that is open.
THEOREM SendsGoOut == Unattended => (Spec => []SendsReachWhatsApp)
<1> SUFFICES ASSUME Unattended PROVE Spec => []SendsReachWhatsApp
    OBVIOUS
<1>1. AloneInv => SendsReachWhatsApp
    BY DEF AloneInv
<1> QED BY <1>1, AloneHolds, PTL
=============================================================================
