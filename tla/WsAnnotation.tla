---------------------------- MODULE WsAnnotation ----------------------------
(***************************************************************************)
(* The endpoint /annotation.ws: com.hg.hyy.websocket.WsAnnotation, with    *)
(* the two other callers of its send methods, the five-second timer        *)
(* (scheduling.TimerSocketMessage) and the request GET /v1/ws              *)
(* (controller.VueController.sendMsg).                                     *)
(*                                                                         *)
(* Threads: the container runs onOpen(c), onMessage(c) and onClose(c) for  *)
(* each connection c; onClose may overlap any other handler of c, because  *)
(* a broadcast of another thread may close c.  The timer and the request   *)
(* run beside them.  The order in which a loop over the copy-on-write set  *)
(* visits its members is left open.                                        *)
(***************************************************************************)
EXTENDS WsContainer, Integers, Sequences

CONSTANTS Talker,      \* the clients that send messages (a bound for TLC)
          Background   \* which of "timer" and "http" run (a bound for TLC)

ASSUME PusherAssumption ==
    Talker \subseteq Client /\ Background \subseteq {"timer", "http"}

VARIABLES webSocketSet,  \* the registered endpoints, one per client
          onlineCount,   \* the static counter of connections
          openPc,        \* openPc[c]: where onOpen of c stands
          frames,        \* frames[c]: for each nested broadcast of onOpen of c,
                         \* innermost first, the clients it still has to visit
          victim,        \* victim[c]: the client whose send failed there
          closePc,       \* closePc[c]: where onClose of c stands
          todo           \* todo[p]: the clients push p still has to visit

hubVars == <<webSocketSet, onlineCount, openPc, frames, victim, closePc, todo>>
vars == <<containerVars, hubVars>>

OpenPc == {"idle", "count", "join", "broadcast", "drop", "announce",
           "welcome", "failed", "done"}
ClosePc == {"idle", "sub", "done"}

OnOpen(c) == Thread("onOpen", c)

\* The callers of sendInfo, and the request that calls sendMessageString.
Pusher == {Thread("onMessage", c) : c \in Talker}
              \cup {Thread(kind, NoClient) : kind \in Background}
InfoPusher == {p \in Pusher : p.kind # "http"}
Request == Thread("http", NoClient)

TypeOK ==
    /\ ContainerTypeOK
    /\ webSocketSet \subseteq Client
    /\ onlineCount \in Int
    /\ openPc \in [Client -> OpenPc]
    /\ frames \in [Client -> Seq(SUBSET Client)]
    /\ victim \in [Client -> Client \cup {NoClient}]
    /\ closePc \in [Client -> ClosePc]
    /\ todo \in [Pusher -> SUBSET Client]
    /\ \A c \in Client : openPc[c] \in {"drop", "announce"} => victim[c] \in Client

Init ==
    /\ ContainerInit
    /\ webSocketSet = {}
    /\ onlineCount = 0
    /\ openPc = [c \in Client |-> "idle"]
    /\ frames = [c \in Client |-> <<>>]
    /\ victim = [c \in Client |-> NoClient]
    /\ closePc = [c \in Client |-> "idle"]
    /\ todo = [p \in Pusher |-> {}]

-----------------------------------------------------------------------------
\* The two monitors.  broadcast locks the endpoint object of the receiver,
\* sendMessageObj locks the receiver's session, sendMessageString locks nothing.
HoldsEndpoint(t) == t.kind = "onOpen" /\ openPc[t.of] = "broadcast"

HoldsSession(t) ==
    \/ t.kind \in {"timer", "onMessage"}
    \/ t.kind = "onOpen" /\ openPc[t.of] = "welcome"

\* A wrong variant: no monitor is taken.
NoMonitor(c) == c \in Client

EndpointMonitorFree(c) == \A s \in WritersTo(c) : ~HoldsEndpoint(s.thread)
SessionMonitorFree(c) == \A s \in WritersTo(c) : ~HoldsSession(s.thread)

\* A loop over no more clients returns at once: its frame is not kept.
Frame(members, rest) == IF members = {} THEN rest ELSE <<members>> \o rest

\* A wrong variant: the set keeps the endpoint.
StaysRegistered(c) == c \in Client /\ UNCHANGED webSocketSet

Unregister(c) == webSocketSet' = webSocketSet \ {c}

\* A wrong variant: the counter is kept from going below zero.
DecrementToZero == IF onlineCount > 0 THEN onlineCount - 1 ELSE 0

Decrement == onlineCount - 1

RememberVictim(c, d) == victim' = [victim EXCEPT ![c] = d]

-----------------------------------------------------------------------------
\* onOpen: remember the session, then publish the endpoint in webSocketSet.
OnOpenRegister(c) ==
    /\ session[c] = "none"
    /\ session' = [session EXCEPT ![c] = "open"]
    /\ webSocketSet' = webSocketSet \cup {c}
    /\ openPc' = [openPc EXCEPT ![c] = "count"]
    /\ UNCHANGED <<broken, sending, onlineCount, frames, victim, closePc, todo>>

AddOnlineCount(c) ==
    /\ openPc[c] = "count"
    /\ onlineCount' = onlineCount + 1
    /\ openPc' = [openPc EXCEPT ![c] = "join"]
    /\ UNCHANGED <<containerVars, webSocketSet, frames, victim, closePc, todo>>

\* A (possibly nested) call of broadcast: iterate over a snapshot of the set.
Broadcast(c) ==
    /\ openPc[c] \in {"join", "announce"}
    /\ frames' = [frames EXCEPT ![c] = Frame(webSocketSet, @)]
    /\ victim' = [victim EXCEPT ![c] = NoClient]
    /\ openPc' = [openPc EXCEPT ![c] = "broadcast"]
    /\ UNCHANGED <<containerVars, webSocketSet, onlineCount, closePc, todo>>

\* A wrong variant: onOpen is synchronized, so that it holds the monitor of its
\* own endpoint while it broadcasts.
VisitsFromOwnMonitor(c, d) ==
    /\ openPc[c] = "broadcast"
    /\ ~Sending(OnOpen(c))
    /\ frames[c] # <<>>
    /\ d \in Head(frames[c])
    /\ d # c => openPc[d] \in {"idle", "failed", "done"}

\* The innermost broadcast of onOpen(c) is about to send to d.
Visits(c, d) ==
    /\ openPc[c] = "broadcast"
    /\ ~Sending(OnOpen(c))
    /\ frames[c] # <<>>
    /\ d \in Head(frames[c])
    /\ EndpointMonitorFree(d)

BroadcastSend(c, d) ==
    /\ Visits(c, d)
    /\ StartText(OnOpen(c), d)
    /\ frames' = [frames EXCEPT ![c] = Frame(Head(@) \ {d}, Tail(@))]
    /\ UNCHANGED <<session, broken, webSocketSet, onlineCount, openPc, victim,
                   closePc, todo>>

\* An IllegalStateException is no IOException: it leaves every nested broadcast
\* and onOpen itself.
BroadcastRefused(c, d) ==
    /\ Visits(c, d)
    /\ ~CanWrite(d)
    /\ frames' = [frames EXCEPT ![c] = <<>>]
    /\ openPc' = [openPc EXCEPT ![c] = "failed"]
    /\ UNCHANGED <<containerVars, webSocketSet, onlineCount, victim, closePc, todo>>

BroadcastSent(c, d) ==
    /\ openPc[c] = "broadcast"
    /\ EndText(OnOpen(c), d)
    /\ UNCHANGED <<session, broken, hubVars>>

\* The catch block, in three steps: take the client out of the set, ...
BroadcastFails(c, d) ==
    /\ openPc[c] = "broadcast"
    /\ EndText(OnOpen(c), d)
    /\ MayFail(d)
    /\ Unregister(d)
    /\ RememberVictim(c, d)
    /\ openPc' = [openPc EXCEPT ![c] = "drop"]
    /\ UNCHANGED <<session, broken, onlineCount, frames, closePc, todo>>

\* ... close its session, and then tell the others by a nested broadcast.
DropClient(c) ==
    /\ openPc[c] = "drop"
    /\ Close(victim[c])
    /\ openPc' = [openPc EXCEPT ![c] = "announce"]
    /\ UNCHANGED <<broken, sending, webSocketSet, onlineCount, frames, victim,
                   closePc, todo>>

BroadcastDone(c) ==
    /\ openPc[c] = "broadcast"
    /\ ~Sending(OnOpen(c))
    /\ frames[c] = <<>>

\* sendMessageObj at the end of onOpen; every exception is swallowed there.
WelcomeSend(c) ==
    /\ BroadcastDone(c)
    /\ SessionMonitorFree(c)
    /\ StartText(OnOpen(c), c)
    /\ openPc' = [openPc EXCEPT ![c] = "welcome"]
    /\ UNCHANGED <<session, broken, webSocketSet, onlineCount, frames, victim,
                   closePc, todo>>

WelcomeRefused(c) ==
    /\ BroadcastDone(c)
    /\ SessionMonitorFree(c)
    /\ ~CanWrite(c)
    /\ openPc' = [openPc EXCEPT ![c] = "done"]
    /\ UNCHANGED <<containerVars, webSocketSet, onlineCount, frames, victim,
                   closePc, todo>>

WelcomeEnds(c) ==
    /\ openPc[c] = "welcome"
    /\ EndText(OnOpen(c), c)
    /\ openPc' = [openPc EXCEPT ![c] = "done"]
    /\ UNCHANGED <<session, broken, webSocketSet, onlineCount, frames, victim,
                   closePc, todo>>

\* After an exception in onOpen the container calls onError, which only prints,
\* and may close the session.
OnError(c) ==
    /\ openPc[c] = "failed"
    /\ openPc' = [openPc EXCEPT ![c] = "done"]
    /\ Close(c) \/ UNCHANGED session
    /\ UNCHANGED <<broken, sending, webSocketSet, onlineCount, frames, victim,
                   closePc, todo>>

-----------------------------------------------------------------------------
\* onClose: the container calls it once for a closed session.
OnCloseRemove(c) ==
    /\ session[c] = "closed"
    /\ closePc[c] = "idle"
    /\ Unregister(c)
    /\ closePc' = [closePc EXCEPT ![c] = "sub"]
    /\ UNCHANGED <<containerVars, onlineCount, openPc, frames, victim, todo>>

\* The session.close() that follows finds the session closed already.
SubOnlineCount(c) ==
    /\ closePc[c] = "sub"
    /\ onlineCount' = Decrement
    /\ closePc' = [closePc EXCEPT ![c] = "done"]
    /\ UNCHANGED <<containerVars, webSocketSet, openPc, frames, victim, todo>>

-----------------------------------------------------------------------------
\* sendInfo, called by the timer and by onMessage, and the loop of sendMsg: each
\* iterates over a snapshot of the set.
Idle(p) == todo[p] = {} /\ ~Sending(p)

Push(p) ==
    /\ Idle(p)
    /\ p.kind = "onMessage" => session[p.of] = "open" /\ openPc[p.of] = "done"
    /\ todo' = [todo EXCEPT ![p] = webSocketSet]
    /\ UNCHANGED <<containerVars, webSocketSet, onlineCount, openPc, frames,
                   victim, closePc>>

PushVisits(p, c) ==
    /\ c \in todo[p]
    /\ ~Sending(p)
    /\ p \in InfoPusher => SessionMonitorFree(c)

PushSend(p, c) ==
    /\ PushVisits(p, c)
    /\ StartText(p, c)
    /\ todo' = [todo EXCEPT ![p] = @ \ {c}]
    /\ UNCHANGED <<session, broken, webSocketSet, onlineCount, openPc, frames,
                   victim, closePc>>

\* sendMessageObj swallows the IllegalStateException and the loop goes on; in
\* sendMsg it ends the request.
PushRefused(p, c) ==
    /\ PushVisits(p, c)
    /\ ~CanWrite(c)
    /\ todo' = [todo EXCEPT ![p] = IF p = Request THEN {} ELSE @ \ {c}]
    /\ UNCHANGED <<containerVars, webSocketSet, onlineCount, openPc, frames,
                   victim, closePc>>

\* An IOException is caught in both loops: nothing tells it from success.
PushEnds(p, c) ==
    /\ EndText(p, c)
    /\ UNCHANGED <<session, broken, hubVars>>

-----------------------------------------------------------------------------
\* The container: the peer leaves, or a dead connection is noticed.  It reads from
\* a connection only after onOpen has returned and between messages; a write of
\* any thread may notice too.
Reading(c) ==
    /\ openPc[c] = "done"
    /\ c \in Talker => Idle(Thread("onMessage", c))

PeerCloses(c) ==
    /\ session[c] = "open"
    /\ Reading(c) \/ WriteNotices(c)
    /\ Close(c)
    /\ UNCHANGED <<broken, sending, hubVars>>

PeerLinkBreaks(c) == LinkBreaks(c) /\ UNCHANGED hubVars

OpenStep(c) ==
    \/ AddOnlineCount(c)
    \/ Broadcast(c)
    \/ \E d \in Client : \/ BroadcastSend(c, d)
                         \/ BroadcastRefused(c, d)
                         \/ BroadcastSent(c, d)
                         \/ BroadcastFails(c, d)
    \/ DropClient(c)
    \/ WelcomeSend(c)
    \/ WelcomeRefused(c)
    \/ WelcomeEnds(c)
    \/ OnError(c)

CloseStep(c) == OnCloseRemove(c) \/ SubOnlineCount(c)

PushStep(p) == \E c \in Client : PushSend(p, c) \/ PushRefused(p, c) \/ PushEnds(p, c)

Next ==
    \/ \E c \in Client : \/ OnOpenRegister(c)
                         \/ OpenStep(c)
                         \/ CloseStep(c)
                         \/ PeerCloses(c)
                         \/ PeerLinkBreaks(c)
    \/ \E p \in Pusher : Push(p) \/ PushStep(p)

\* A thread that has begun a handler or a push goes on running.  Nobody is
\* obliged to connect, to leave, to send a message or to lose its connection.
Fairness ==
    /\ \A c \in Client : WF_vars(OpenStep(c)) /\ WF_vars(CloseStep(c))
    /\ \A p \in Pusher : WF_vars(PushStep(p))

Spec == Init /\ [][Next]_vars
FairSpec == Spec /\ Fairness

-----------------------------------------------------------------------------
\* No handler is running and no closed session waits for its onClose.
Quiescent ==
    \A c \in Client : /\ openPc[c] \in {"idle", "done"}
                      /\ session[c] = "closed" => closePc[c] = "done"

\* Whenever the handlers have come to rest, the registered endpoints are those
\* with an open session and the counter is their number, whatever the order in
\* which joining (onOpen), dropping (the catch block of broadcast) and closing
\* (onClose) overlapped.
HubSettles ==
    Quiescent => /\ webSocketSet = {c \in Client : session[c] = "open"}
                 /\ onlineCount = Cardinality(webSocketSet)

\* onlineCount, "the number of connections currently online", is never negative.
OnlineCountIsANumber == onlineCount >= 0

\* sendInfo leaves p's loop without a text to an open member only because that
\* member is being written to without the session monitor: by broadcast or by
\* sendMsg, never by another sendMessageObj.
SkippedOnlyForUnlockedWriter ==
    [][\A p \in InfoPusher, c \in Client :
          c \in todo[p] /\ c \notin todo'[p] /\ session[c] = "open"
             => \/ Text(p, c) \in sending'
                \/ \E s \in WritersTo(c) : s.thread = Request \/ HoldsEndpoint(s.thread)]_vars

\* sendInfo, "mass sending", sends to every member whose session is open when
\* its turn comes.
SendInfoReachesOpenMembers ==
    [][\A p \in InfoPusher, c \in Client :
          c \in todo[p] /\ c \notin todo'[p] /\ session[c] = "open"
             => Text(p, c) \in sending']_vars

\* The joining broadcast of c throws only over a member that was closed after
\* the snapshot was taken, or to which a sender without the endpoint monitor is
\* writing: two broadcasts never make each other fail.
JoinFailsOnlyForACause ==
    [][\A c \in Client :
          openPc[c] = "broadcast" /\ openPc'[c] = "failed"
             => \E d \in Head(frames[c]) :
                   \/ session[d] = "closed"
                   \/ \E s \in WritersTo(d) : ~HoldsEndpoint(s.thread)]_vars

\* The joining broadcast comes to an end, although it calls itself for every
\* client it finds dead and although it waits for the monitors of others.
BroadcastReturns ==
    \A c \in Client :
        []<>(openPc[c] \notin {"join", "broadcast", "drop", "announce"} \/ BroadcastDone(c))

\* The endpoint of a closed session leaves the set and never comes back.
ClosedLeavesForGood ==
    \A c \in Client : <>[](session[c] = "closed" => c \notin webSocketSet)
=============================================================================
