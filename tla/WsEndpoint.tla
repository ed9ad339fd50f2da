------------------------------ MODULE WsEndpoint ------------------------------
(***************************************************************************)
(* The chat endpoint /endpoint.ws: com.hg.hyy.websocket.WsEndpoint.  Its   *)
(* three handlers all end in broadcast, so every thread that runs one of   *)
(* them carries the state of a (recursive) broadcast.                      *)
(*                                                                         *)
(* The container runs onOpen(c), then the messages of c one at a time; a   *)
(* broadcast of another thread may close c meanwhile, and then onClose(c)  *)
(* runs beside them.                                                       *)
(***************************************************************************)
EXTENDS WsContainer, Sequences

CONSTANTS Talker,        \* the clients that send messages (a bound for TLC)
          MaxMessages    \* how many messages each of them sends (a bound)

VARIABLES connections,   \* the registered endpoints, one per client
          pc,            \* pc[t]: where handler t stands
          frames,        \* frames[t]: for each nested broadcast of t, innermost
                         \* first, the clients it still has to visit
          victim,        \* victim[t]: the client whose send failed there
          said           \* said[c]: how many messages c has sent

endpointVars == <<connections, pc, frames, victim, said>>
vars == <<containerVars, endpointVars>>

\* "call" is before a call of broadcast, the first one or a nested one.
Pc == {"idle", "handler", "call", "broadcast", "drop", "failed", "done"}

OnOpen(c) == Thread("onOpen", c)
OnMessage(c) == Thread("onMessage", c)
OnClose(c) == Thread("onClose", c)
Handler == [kind : {"onOpen", "onClose"}, of : Client] \cup {OnMessage(c) : c \in Talker}

TypeOK ==
    /\ ContainerTypeOK
    /\ connections \subseteq Client
    /\ pc \in [Handler -> Pc]
    /\ frames \in [Handler -> Seq(SUBSET Client)]
    /\ victim \in [Handler -> Client \cup {NoClient}]
    /\ said \in [Client -> 0..MaxMessages]
    /\ \A t \in Handler : pc[t] = "drop" => victim[t] \in Client

Init ==
    /\ ContainerInit
    /\ connections = {}
    /\ pc = [t \in Handler |-> "idle"]
    /\ frames = [t \in Handler |-> <<>>]
    /\ victim = [t \in Handler |-> NoClient]
    /\ said = [c \in Client |-> 0]

-----------------------------------------------------------------------------
\* A wrong variant: no monitor is taken.
NoMonitor(c) == c \in Client

\* broadcast locks the endpoint object of the receiver while it writes to it.
MonitorFree(c) == WritersTo(c) = {}

\* A wrong variant: the failed client stays registered.
StaysRegistered(c) == c \in Client /\ UNCHANGED connections

Unregister(c) == connections' = connections \ {c}

RememberVictim(t, d) == victim' = [victim EXCEPT ![t] = d]

\* A loop over no more clients returns at once: its frame is not kept.
Frame(members, rest) == IF members = {} THEN rest ELSE <<members>> \o rest

\* The iterator of the innermost loop moves on past d.
MovesOn(t, d) == frames' = [frames EXCEPT ![t] = Frame(Head(@) \ {d}, Tail(@))]

-----------------------------------------------------------------------------
\* onOpen: remember the session, then publish the endpoint.
OnOpenRegister(c) ==
    /\ session[c] = "none"
    /\ session' = [session EXCEPT ![c] = "open"]
    /\ connections' = connections \cup {c}
    /\ pc' = [pc EXCEPT ![OnOpen(c)] = "handler"]
    /\ UNCHANGED <<broken, sending, frames, victim, said>>

\* A session that another thread has closed meanwhile may refuse the handler.
AddMessageHandler(c) ==
    /\ pc[OnOpen(c)] = "handler"
    /\ \/ pc' = [pc EXCEPT ![OnOpen(c)] = "call"]
       \/ session[c] = "closed" /\ pc' = [pc EXCEPT ![OnOpen(c)] = "failed"]
    /\ UNCHANGED <<containerVars, connections, frames, victim, said>>

\* onMessage of the ChatMessageHandler: the sender's text goes to everybody.
OnMessageStarts(c) ==
    /\ session[c] = "open"
    /\ pc[OnOpen(c)] = "done"
    /\ pc[OnMessage(c)] = "idle"
    /\ said[c] < MaxMessages
    /\ said' = [said EXCEPT ![c] = @ + 1]
    /\ pc' = [pc EXCEPT ![OnMessage(c)] = "call"]
    /\ UNCHANGED <<containerVars, connections, frames, victim>>

\* onClose: the container calls it once for a closed session.
OnCloseRemove(c) ==
    /\ session[c] = "closed"
    /\ pc[OnClose(c)] = "idle"
    /\ Unregister(c)
    /\ pc' = [pc EXCEPT ![OnClose(c)] = "call"]
    /\ UNCHANGED <<containerVars, frames, victim, said>>

-----------------------------------------------------------------------------
\* A call of broadcast: iterate over a snapshot of the set.
Broadcast(t) ==
    /\ pc[t] = "call"
    /\ frames' = [frames EXCEPT ![t] = Frame(connections, @)]
    /\ pc' = [pc EXCEPT ![t] = "broadcast"]
    /\ UNCHANGED <<containerVars, connections, victim, said>>

\* A wrong variant: the handlers are synchronized, so that each holds the monitor
\* of its own endpoint while it broadcasts.
VisitsFromOwnMonitor(t, d) ==
    /\ pc[t] = "broadcast"
    /\ ~Sending(t)
    /\ frames[t] # <<>>
    /\ d \in Head(frames[t])
    /\ \A u \in Handler \ {t} : u.of = d => pc[u] \in {"idle", "done"}

\* The innermost loop of t is about to send to d.
Visits(t, d) ==
    /\ pc[t] = "broadcast"
    /\ ~Sending(t)
    /\ frames[t] # <<>>
    /\ d \in Head(frames[t])
    /\ MonitorFree(d)

BroadcastSend(t, d) ==
    /\ Visits(t, d)
    /\ StartText(t, d)
    /\ MovesOn(t, d)
    /\ UNCHANGED <<session, broken, connections, pc, victim, said>>

\* An IllegalStateException is no IOException: it leaves every nested broadcast
\* and the handler itself.
BroadcastRefused(t, d) ==
    /\ Visits(t, d)
    /\ ~CanWrite(d)
    /\ frames' = [frames EXCEPT ![t] = <<>>]
    /\ pc' = [pc EXCEPT ![t] = "failed"]
    /\ UNCHANGED <<containerVars, connections, victim, said>>

BroadcastSent(t, d) ==
    /\ EndText(t, d)
    /\ UNCHANGED <<session, broken, endpointVars>>

\* The catch block: take the client out of the set, ...
BroadcastFails(t, d) ==
    /\ EndText(t, d)
    /\ MayFail(d)
    /\ Unregister(d)
    /\ RememberVictim(t, d)
    /\ pc' = [pc EXCEPT ![t] = "drop"]
    /\ UNCHANGED <<session, broken, frames, said>>

\* ... close its session, and then tell the others by a nested broadcast.
DropClient(t) ==
    /\ pc[t] = "drop"
    /\ Close(victim[t])
    /\ victim' = [victim EXCEPT ![t] = NoClient]
    /\ pc' = [pc EXCEPT ![t] = "call"]
    /\ UNCHANGED <<broken, sending, connections, frames, said>>

BroadcastDone(t) ==
    /\ pc[t] = "broadcast"
    /\ ~Sending(t)
    /\ frames[t] = <<>>

\* The pc of a handler that has returned: the next message may come.
Returned(t) == IF t.kind = "onMessage" THEN "idle" ELSE "done"

HandlerReturns(t) ==
    /\ BroadcastDone(t)
    /\ pc' = [pc EXCEPT ![t] = Returned(t)]
    /\ UNCHANGED <<containerVars, connections, frames, victim, said>>

\* After an exception the container calls onError, which does nothing, and may
\* close the session.
OnError(t) ==
    /\ pc[t] = "failed"
    /\ pc' = [pc EXCEPT ![t] = Returned(t)]
    /\ Close(t.of) \/ UNCHANGED session
    /\ UNCHANGED <<broken, sending, connections, frames, victim, said>>

-----------------------------------------------------------------------------
\* The container: the peer leaves, or a dead connection is noticed.  It reads from
\* a connection only after onOpen has returned and between messages; a write of
\* any thread may notice too.
Reading(c) ==
    /\ pc[OnOpen(c)] = "done"
    /\ c \in Talker => pc[OnMessage(c)] = "idle"

PeerCloses(c) ==
    /\ session[c] = "open"
    /\ Reading(c) \/ WriteNotices(c)
    /\ Close(c)
    /\ UNCHANGED <<broken, sending, endpointVars>>

PeerLinkBreaks(c) == LinkBreaks(c) /\ UNCHANGED endpointVars

BroadcastStep(t) ==
    \/ Broadcast(t)
    \/ \E d \in Client : \/ BroadcastSend(t, d)
                         \/ BroadcastRefused(t, d)
                         \/ BroadcastSent(t, d)
                         \/ BroadcastFails(t, d)
    \/ DropClient(t)
    \/ HandlerReturns(t)
    \/ OnError(t)

Next ==
    \/ \E c \in Client : \/ OnOpenRegister(c)
                         \/ AddMessageHandler(c)
                         \/ OnCloseRemove(c)
                         \/ PeerCloses(c)
                         \/ PeerLinkBreaks(c)
    \/ \E c \in Talker : OnMessageStarts(c)
    \/ \E t \in Handler : BroadcastStep(t)

\* A thread that has begun a handler goes on running, and the container calls
\* onClose.  Nobody is obliged to connect, to leave or to talk.
Fairness ==
    /\ \A c \in Client : WF_vars(AddMessageHandler(c)) /\ WF_vars(OnCloseRemove(c))
    /\ \A t \in Handler : WF_vars(BroadcastStep(t))

Spec == Init /\ [][Next]_vars
FairSpec == Spec /\ Fairness

-----------------------------------------------------------------------------
\* No handler is running and no closed session waits for its onClose.
Quiescent ==
    \A c \in Client : /\ \A t \in Handler : t.of = c => pc[t] \in {"idle", "done"}
                      /\ session[c] = "closed" => pc[OnClose(c)] = "done"

\* Whenever the handlers have come to rest, the registered endpoints are those
\* with an open session, whatever the order in which onOpen, onClose and the
\* catch blocks of broadcast overlapped.
EndpointSettles ==
    Quiescent => connections = {c \in Client : session[c] = "open"}

\* A broadcast throws only over a member that was closed after the snapshot was
\* taken: the monitor of the receiver keeps two texts to one session apart.
RefusedOnlyIfClosed ==
    [][\A t \in Handler :
          pc[t] = "broadcast" /\ pc'[t] = "failed"
             => \E d \in Head(frames[t]) : session[d] = "closed"]_vars

\* Every call of broadcast comes to an end, although it calls itself for every
\* client it finds dead, waits for the monitors of the other threads, and makes
\* the onClose of those clients broadcast in turn.
BroadcastReturns ==
    \A t \in Handler : []<>(pc[t] \in {"idle", "handler", "done"})

\* The endpoint of a closed session leaves the set and never comes back.
ClosedLeavesForGood ==
    \A c \in Client : <>[](session[c] = "closed" => c \notin connections)
=============================================================================
