---------------------------- MODULE WhatsappLink ----------------------------
(***************************************************************************)
(* The life of the Baileys connection kept by WhatsappQrService            *)
(* (backend/src/adapters/whatsapp-qr/whatsapp-qr.service.ts): start,       *)
(* disconnect, the 5 s reconnect timer, the watchdog with its hard reset,  *)
(* and the connection.update handler.  Node is single-threaded; every      *)
(* await is a point where another activity or a socket event may run.      *)
(***************************************************************************)
EXTENDS Integers, FiniteSets

CONSTANTS
    Sockets,      \* Baileys sockets that may exist at once (closed ones are reused)
    Admins,       \* requests to the QR controller that may run at once
    Prompt,       \* TRUE: loading the session, the 1 s pause of the reset and the
                  \* close event of a socket already dead come before a timer
                  \* of 5 s or 120 s fires, that event before the pause ends
    MaxLoadFaults,\* bound on failures of useMultiFileAuthState / makeWASocket
    PhoneUnlinks, \* TRUE: the phone's owner may unlink the device
    None          \* null

ASSUME PromptType == Prompt \in BOOLEAN /\ PhoneUnlinks \in BOOLEAN
ASSUME FaultBound == MaxLoadFaults \in Nat
ASSUME NoSocket == None \notin Sockets
ASSUME OwnActivities == Admins \cap {"boot", "timer", "watchdog"} = {}

VARIABLES
    status,    \* this.status
    sock,      \* this.sock
    socket,    \* what every Baileys socket is really doing
    encoding,  \* sockets whose QR is being encoded (await QRCode.toDataURL)
    session,   \* the session directory holds usable credentials
    armed,     \* reconnectTimer is set
    watch,     \* whether transientSince is set
    act,       \* the local state of every activity
    faults

vars == <<status, sock, socket, encoding, session, armed, watch, act, faults>>

Activities == Admins \cup {"boot", "timer", "watchdog"}
Statuses == {"starting", "waiting_qr", "connecting", "connected", "disconnected", "errored"}
Transient == {"starting", "connecting", "waiting_qr"}

\* "mute" is a socket that emits nothing; "ended" has been ended by us, and
\* "unlinked" by WhatsApp, but their close event has not been handled yet.
Living == {"mute", "opening", "open"}
Phases == {"closed", "ended", "unlinked"} \cup Living

Activity == [at : {"idle", "loading", "pause", "logout"}, wipe : BOOLEAN]
Doing(point) == [at |-> point, wipe |-> FALSE]

\* onModuleInit: the watchdog is running and start() awaits the session.
Init ==
    /\ status = "starting"
    /\ sock = None
    /\ socket = [s \in Sockets |-> "closed"]
    /\ encoding = {}
    /\ session \in BOOLEAN
    /\ armed = FALSE
    /\ watch = "unset"
    /\ act = [a \in Activities |-> IF a = "boot" THEN Doing("loading") ELSE Doing("idle")]
    /\ faults = 0

----------------------------------------------------------------------------
At(a, point) == act[a].at = point
Goto(a, point) == act' = [act EXCEPT ![a] = Doing(point)]
Live(s) == socket[s] \in Living
Ended == IF sock # None /\ Live(sock) THEN [socket EXCEPT ![sock] = "ended"] ELSE socket

Dying == {s \in Sockets : socket[s] \in {"ended", "unlinked"}}

\* When Prompt, no timer fires while an activity is between two statements.
MayFire == Prompt => Dying = {} /\ \A a \in Activities : At(a, "idle")

\* Nest awaits onModuleInit before it listens for requests.
Listening == At("boot", "idle")

\* Mutant: the guard before 2026-07-30 let start() run while one was starting.
RunningAllowsStarting == sock # None /\ status \in {"connecting", "connected", "waiting_qr"}

\* start's early return
Running == sock # None /\ status \in Transient \cup {"connected"}

\* start() up to its await, by activity a
BeginStart(a) ==
    IF Running
    THEN Goto(a, "idle") /\ UNCHANGED status
    ELSE Goto(a, "loading") /\ status' = "starting"

\* start() after its await: a new socket with its handlers
Loaded(a, phase) ==
    /\ At(a, "loading")
    /\ \E s \in Sockets \ {sock} :
          /\ socket[s] = "closed"
          /\ s \notin encoding
          /\ sock' = s
          /\ socket' = [socket EXCEPT ![s] = phase]
    /\ Goto(a, "idle")
    /\ UNCHANGED <<status, encoding, session, armed, watch, faults>>

LoadFails(a) ==
    /\ At(a, "loading")
    /\ faults < MaxLoadFaults
    /\ faults' = faults + 1
    /\ status' = "errored"
    /\ Goto(a, "idle")
    /\ UNCHANGED <<sock, socket, encoding, session, armed, watch>>

----------------------------------------------------------------------------
(* The controller: POST start and POST disconnect. *)

AdminStart(a) ==
    /\ a \in Admins /\ At(a, "idle") /\ Listening
    /\ BeginStart(a)
    /\ UNCHANGED <<sock, socket, encoding, session, armed, watch, faults>>

\* The status, the socket and the session once disconnect() returns
Disconnected(wipe) ==
    /\ status' = "disconnected"
    /\ sock' = None
    /\ session' = (session /\ ~wipe)

AdminDisconnect(a, wipe) ==
    /\ a \in Admins /\ At(a, "idle") /\ Listening
    /\ armed' = FALSE
    /\ IF sock # None
       THEN /\ act' = [act EXCEPT ![a] = [at |-> "logout", wipe |-> wipe]]
            /\ UNCHANGED <<status, sock, session>>
       ELSE Disconnected(wipe) /\ UNCHANGED act
    /\ UNCHANGED <<socket, encoding, watch, faults>>

\* WhatsApp carries out the logout of the socket the activity waits on.
LogoutDone(a) ==
    /\ At(a, "logout")
    /\ sock # None /\ Live(sock)
    /\ socket' = [socket EXCEPT ![sock] = "unlinked"]
    /\ UNCHANGED <<status, sock, encoding, session, armed, watch, act, faults>>

\* logout returned or threw; this.sock may be another socket by now.
DisconnectEnds(a) ==
    /\ At(a, "logout")
    /\ socket' = Ended
    /\ Disconnected(act[a].wipe)
    /\ Goto(a, "idle")
    /\ UNCHANGED <<encoding, armed, watch, faults>>

----------------------------------------------------------------------------
(* The timers *)

ReconnectFires ==
    /\ armed /\ MayFire /\ At("timer", "idle")
    /\ armed' = FALSE
    /\ BeginStart("timer")
    /\ UNCHANGED <<sock, socket, encoding, session, watch, faults>>

\* watchdogTick outside the transient states, or at the first tick in one
WatchdogNotes ==
    /\ watch' = (IF status \in Transient THEN "set" ELSE "unset")
    /\ watch' # watch
    /\ UNCHANGED <<status, sock, socket, encoding, session, armed, act, faults>>

\* Mutant: the reset does not start the service again.
ResetWithoutStart ==
    /\ watch = "set" /\ status \in Transient /\ MayFire /\ At("watchdog", "idle")
    /\ watch' = "unset"
    /\ armed' = FALSE
    /\ socket' = Ended
    /\ sock' = None
    /\ status' = "disconnected"
    /\ UNCHANGED <<encoding, session, act, faults>>

\* watchdogTick after the timeout: hardResetAndRestart up to its pause
HardReset ==
    /\ watch = "set" /\ status \in Transient /\ MayFire /\ At("watchdog", "idle")
    /\ watch' = "unset"
    /\ armed' = FALSE
    /\ socket' = Ended
    /\ sock' = None
    /\ status' = "disconnected"
    /\ Goto("watchdog", "pause")
    /\ UNCHANGED <<encoding, session, faults>>

ResetRestarts ==
    /\ At("watchdog", "pause")
    /\ Prompt => Dying = {}
    /\ BeginStart("watchdog")
    /\ UNCHANGED <<sock, socket, encoding, session, armed, watch, faults>>

----------------------------------------------------------------------------
(* onConnectionUpdate: no handler checks that its socket is still this.sock. *)

QrArrives(s) ==
    /\ socket[s] = "opening" /\ ~session
    /\ encoding' = encoding \cup {s}
    /\ UNCHANGED <<status, sock, socket, session, armed, watch, act, faults>>

QrReady(s) ==
    /\ s \in encoding
    /\ encoding' = encoding \ {s}
    /\ status' = "waiting_qr"
    /\ UNCHANGED <<sock, socket, session, armed, watch, act, faults>>

\* connection = 'open': the stored credentials, or the QR just scanned
Opens(s) ==
    /\ socket[s] = "opening"
    /\ socket' = [socket EXCEPT ![s] = "open"]
    /\ session' = TRUE
    /\ status' = "connected"
    /\ UNCHANGED <<sock, encoding, armed, watch, act, faults>>

\* The owner of the phone removes the linked device.
PhoneUnlinksDevice(s) ==
    /\ PhoneUnlinks
    /\ socket[s] = "open"
    /\ socket' = [socket EXCEPT ![s] = "unlinked"]
    /\ UNCHANGED <<status, sock, encoding, session, armed, watch, act, faults>>

\* Mutant: a closing socket leaves the status as it was.
CloseKeepsStatus(s) ==
    /\ socket[s] \in {"opening", "open", "ended"}
    /\ socket' = [socket EXCEPT ![s] = "closed"]
    /\ armed' = TRUE
    /\ UNCHANGED <<status, sock, encoding, session, watch, act, faults>>

\* connection = 'close' for any reason but a logout: the network drops, the
\* server answers 405 or 515, or the close that our own end() emits
Closes(s) ==
    /\ socket[s] \in {"opening", "open", "ended"}
    /\ socket' = [socket EXCEPT ![s] = "closed"]
    /\ status' = "disconnected"
    /\ armed' = TRUE
    /\ UNCHANGED <<sock, encoding, session, watch, act, faults>>

ClosesLoggedOut(s) ==
    /\ socket[s] = "unlinked"
    /\ socket' = [socket EXCEPT ![s] = "closed"]
    /\ status' = "disconnected"
    /\ session' = FALSE
    /\ UNCHANGED <<sock, encoding, armed, watch, act, faults>>

----------------------------------------------------------------------------
Start == \E a \in Activities : Loaded(a, "opening") \/ Loaded(a, "mute") \/ LoadFails(a)
Admin == \E a \in Admins :
    \/ AdminStart(a)
    \/ \E wipe \in BOOLEAN : AdminDisconnect(a, wipe)
    \/ LogoutDone(a)
    \/ DisconnectEnds(a)
Timers == ReconnectFires \/ WatchdogNotes \/ HardReset \/ ResetRestarts
Updates == \E s \in Sockets :
    \/ QrArrives(s)
    \/ QrReady(s)
    \/ Opens(s)
    \/ PhoneUnlinksDevice(s)
    \/ Closes(s)
    \/ ClosesLoggedOut(s)

Next == Start \/ Admin \/ Timers \/ Updates
Spec == Init /\ [][Next]_vars

\* Due timers fire, awaits return, Baileys reports the close of a socket we ended,
\* and the network is not down for ever: of the sockets created some are not
\* mute, and of those some get through the handshake.
Fairness ==
    /\ SF_vars(ReconnectFires) /\ SF_vars(HardReset)
    /\ WF_vars(WatchdogNotes) /\ WF_vars(ResetRestarts)
    /\ \A a \in Activities : WF_vars(Loaded(a, "opening") \/ Loaded(a, "mute"))
    /\ SF_vars(\E a \in Activities : Loaded(a, "opening"))
    /\ \A s \in Sockets : WF_vars(s \in Dying /\ (Closes(s) \/ ClosesLoggedOut(s))) /\ WF_vars(QrReady(s))
    /\ SF_vars(\E s \in Sockets : Opens(s))

LiveSpec == Spec /\ Fairness

----------------------------------------------------------------------------
TypeOK ==
    /\ status \in Statuses
    /\ sock \in Sockets \cup {None}
    /\ socket \in [Sockets -> Phases]
    /\ encoding \subseteq Sockets
    /\ session \in BOOLEAN /\ armed \in BOOLEAN
    /\ watch \in {"unset", "set"}
    /\ act \in [Activities -> Activity]
    /\ faults \in 0 .. MaxLoadFaults

\* The status that /health, the panel and sendMessage read says "connected" only
\* if some socket is open, or was until WhatsApp unlinked it an instant ago,
\* whatever activities overlap and whichever socket emitted the last event.
ConnectedIsReal ==
    status = "connected" => \E s \in Sockets : socket[s] \in {"open", "unlinked"}

\* start() never leaves an orphan: two sockets are never alive at once, so one
\* set of handlers feeds the conversation pipeline (service lines 196-208).
OneLiveSocket == \A s, t \in Sockets : Live(s) /\ Live(t) => s = t

\* A message is handed to a socket that is open: the check of sendMessage
\* (this.sock set and status connected) is enough.
SendsReachWhatsApp ==
    status = "connected" /\ sock # None => socket[sock] \in {"open", "unlinked"}

\* A lost connection comes back by itself while the device stays linked: the
\* reconnect timer and the watchdog together leave no state that only a
\* deployment can repair (the 30 h outage of lines 66-72), except a start that
\* threw, which nothing retries.
Recovers ==
    (status # "connected" /\ session) ~> (status \in {"connected", "errored"} \/ ~session)

\* "el watchdog re-arranca despues" (onConnectionUpdate): a failed start is retried.
ErroredIsRetried == (status = "errored") ~> (status # "errored")

\* A disconnect without wipeSession keeps the session, so that the next start
\* connects the same account without a new QR (whatsapp-qr.controller.ts 53-56).
SessionOutlivesDisconnect ==
    [][session /\ ~session' =>
           \E a \in Admins : \/ DisconnectEnds(a) /\ act[a].wipe
                            \/ AdminDisconnect(a, TRUE)]_vars
=============================================================================
