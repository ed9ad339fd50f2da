------------------------------ MODULE VueClient ------------------------------
(***************************************************************************)
(* The page vue.html, a client of /annotation.ws that keeps its connection *)
(* alive: a heartbeat timer, a timer for the answer, and a timer for the   *)
(* next attempt to connect.  The handlers of every WebSocket the page ever *)
(* made act on the page, not on their socket.                              *)
(*                                                                         *)
(* Time is left out: an armed timer may fire at any moment.  Events and    *)
(* timers of a page run one at a time, so a handler is one step.           *)
(***************************************************************************)
EXTENDS Naturals, FiniteSets

CONSTANT Socket    \* the sockets that may exist at once (a bound for TLC); the
                   \* name of a closed one is taken again

ASSUME SocketAssumption == IsFiniteSet(Socket) /\ Socket # {}

VARIABLES sock,           \* sock[s]: readyState of the WebSocket s
          websocket,      \* the page's current WebSocket
          dead,           \* the sockets nothing arrives from any more
          timeoutObj,     \* is the heartbeat timer armed
          serverTimeoutObj, \* is the timer for the answer armed
          timeoutnum,     \* is the timer for the next attempt armed
          lockReconnect,
          strayed         \* history: the heartbeat timer has fired during an
                          \* attempt to connect

timers == <<timeoutObj, serverTimeoutObj>>
vars == <<sock, websocket, dead, timers, timeoutnum, lockReconnect, strayed>>

ReadyState == {"connecting", "open", "closing", "closed"}

TypeOK ==
    /\ sock \in [Socket -> ReadyState]
    /\ websocket \in Socket
    /\ dead \subseteq Socket
    /\ timeoutObj \in BOOLEAN
    /\ serverTimeoutObj \in BOOLEAN
    /\ timeoutnum \in BOOLEAN
    /\ lockReconnect \in BOOLEAN
    /\ strayed \in BOOLEAN

\* created(): the page makes its first WebSocket.
Init ==
    /\ websocket \in Socket
    /\ sock = [s \in Socket |-> IF s = websocket THEN "connecting" ELSE "closed"]
    /\ dead = {}
    /\ timeoutObj = FALSE
    /\ serverTimeoutObj = FALSE
    /\ timeoutnum = FALSE
    /\ lockReconnect = FALSE
    /\ strayed = FALSE

-----------------------------------------------------------------------------
\* reconnect: one attempt in five seconds, unless one is under way.
Reconnect ==
    IF lockReconnect
    THEN UNCHANGED <<timeoutnum, lockReconnect>>
    ELSE timeoutnum' = TRUE /\ lockReconnect' = TRUE

\* A wrong variant: start leaves the timer for the answer armed.
StartBeat == timeoutObj' = TRUE /\ UNCHANGED serverTimeoutObj

\* start and reset: both timers are cleared, the heartbeat timer is armed.
Start == timeoutObj' = TRUE /\ serverTimeoutObj' = FALSE

\* WebSocket.close(): nothing happens to a socket that is closing or closed.
CloseSocket ==
    sock' = [sock EXCEPT ![websocket] = IF @ = "closed" THEN @ ELSE "closing"]

\* setOnopenMessage.
Opens(s) ==
    /\ sock[s] = "connecting"
    /\ sock' = [sock EXCEPT ![s] = "open"]
    /\ Start
    /\ UNCHANGED <<websocket, dead, timeoutnum, lockReconnect, strayed>>

\* setOnmessageMessage: the hub sends every heartbeat to every member, so one may
\* arrive on any open socket at any time.  Messages of other types change nothing.
HeartbeatArrives(s) ==
    /\ sock[s] = "open"
    /\ s \notin dead
    /\ Start
    /\ UNCHANGED <<sock, websocket, dead, timeoutnum, lockReconnect, strayed>>

\* setErrorMessage and setOncloseMessage: the attempt fails, the peer or the
\* network ends the connection, or close() has come to its end.
Closes(s) ==
    /\ sock[s] # "closed"
    /\ sock' = [sock EXCEPT ![s] = "closed"]
    /\ dead' = dead \ {s}
    /\ Reconnect
    /\ UNCHANGED <<websocket, timers, strayed>>

GoesSilent(s) ==
    /\ sock[s] = "open"
    /\ dead' = dead \cup {s}
    /\ UNCHANGED <<sock, websocket, timers, timeoutnum, lockReconnect, strayed>>

-----------------------------------------------------------------------------
\* A wrong variant: the timer for the answer is armed only after a heartbeat that
\* could not be sent.
ArmsWhenNotOpen == serverTimeoutObj' = (sock[websocket] # "open")

ArmsServerTimeout == serverTimeoutObj' = TRUE

\* The heartbeat timer: send a heartbeat, or connect again.
Beat ==
    /\ timeoutObj
    /\ timeoutObj' = FALSE
    /\ ArmsServerTimeout
    /\ IF sock[websocket] = "open" THEN UNCHANGED <<timeoutnum, lockReconnect>>
                                   ELSE Reconnect
    /\ strayed' = (strayed \/ sock[websocket] = "connecting")
    /\ UNCHANGED <<sock, websocket, dead>>

\* The timer for the answer: close the current socket, whichever it is.
ServerTimeout ==
    /\ serverTimeoutObj
    /\ serverTimeoutObj' = FALSE
    /\ CloseSocket
    /\ UNCHANGED <<websocket, dead, timeoutObj, timeoutnum, lockReconnect, strayed>>

\* A wrong variant: the new attempt does not release the lock.
InitKeepsLock(s) ==
    /\ timeoutnum
    /\ sock[s] = "closed"
    /\ sock' = [sock EXCEPT ![s] = "connecting"]
    /\ websocket' = s
    /\ timeoutnum' = FALSE
    /\ UNCHANGED <<dead, timers, lockReconnect, strayed>>

\* The timer for the next attempt: initWebSocket, then unlock.
InitWebSocket(s) ==
    /\ timeoutnum
    /\ sock[s] = "closed"
    /\ sock' = [sock EXCEPT ![s] = "connecting"]
    /\ websocket' = s
    /\ timeoutnum' = FALSE
    /\ lockReconnect' = FALSE
    /\ UNCHANGED <<dead, timers, strayed>>

Timer == Beat \/ ServerTimeout \/ \E s \in Socket : InitWebSocket(s)

Next ==
    \/ \E s \in Socket : \/ Opens(s)
                         \/ HeartbeatArrives(s)
                         \/ Closes(s)
                         \/ GoesSilent(s)
    \/ Timer

\* Armed timers fire, and close() and an attempt to connect come to an end.
Fairness ==
    /\ WF_vars(Beat)
    /\ WF_vars(ServerTimeout)
    /\ WF_vars(\E s \in Socket : InitWebSocket(s))
    /\ \A s \in Socket : WF_vars(sock[s] \in {"closing", "connecting"} /\ (Closes(s) \/ Opens(s)))

Spec == Init /\ [][Next]_vars
FairSpec == Spec /\ Fairness

-----------------------------------------------------------------------------
\* A page without a connection has the next attempt armed: it cannot be stuck
\* behind its own lock, whichever events and timers came before.
RetryIsArmed == sock[websocket] = "closed" => timeoutnum

\* The page holds one connection at a time, unless its heartbeat timer has fired
\* during an attempt to connect.
OneConnection ==
    strayed \/ \A s \in Socket \ {websocket} : sock[s] = "closed"

\* "While not connected it keeps reconnecting": a new WebSocket is made only when
\* the page is not connected.
ReconnectsOnlyWhenNotConnected ==
    [][websocket' # websocket => sock[websocket] # "open"]_vars

\* A page that is connected never waits in vain: an open connection from which
\* nothing arrives is left.
SilentConnectionIsLeft ==
    []<>(strayed \/ sock[websocket] # "open" \/ websocket \notin dead)

\* The page never gives up: without a connection it gets to the next attempt.
NeverGivesUp == []<>(sock[websocket] # "closed")
=============================================================================
