-------------------------- MODULE MCConnectionsProofs --------------------------
(***************************************************************************)
(* Proofs about the parts of MCConnections.  VueClient, for any            *)
(* set of sockets: the page is never stuck behind its own lock, and it     *)
(* holds one connection unless its heartbeat timer fired during an attempt *)
(* to connect.  MqttPub, for any bound on the clients and any publishers:  *)
(* clients are replaced one at a time, and the one that replaces the last  *)
(* ends up subscribed.  WebRequests, for any requests: one server, a line   *)
(* for each that greets, one answer to each message.                       *)
(***************************************************************************)
EXTENDS MCConnections, FiniteSetTheorems, TLAPS

(* The page vue.html.                                                      *)

\* The lock is taken exactly while the timer for the next attempt is armed.
LockIsTimer == lockReconnect <=> timeoutnum

\* Why one connection is enough of a promise to keep: while the page has not
\* strayed, the next attempt is armed only after the current socket is closed, the
\* two heartbeat timers are never armed together, and so a socket that is being
\* closed has no heartbeat timer that could arm an attempt.
OneSocketAtATime ==
    strayed \/ /\ \A s \in Socket \ {websocket} : sock[s] = "closed"
               /\ timeoutnum => sock[websocket] = "closed"
               /\ ~(timeoutObj /\ serverTimeoutObj)
               /\ sock[websocket] = "closing" => ~timeoutObj

PageInv == TypeOK /\ LockIsTimer /\ RetryIsArmed /\ OneSocketAtATime

\* The invariant holds when the page is created.
LEMMA PageInit == Init => PageInv
BY DEF Init, PageInv, TypeOK, ReadyState, LockIsTimer, RetryIsArmed, OneSocketAtATime

\* Every event and every timer of the page preserves it.
LEMMA PageNext == PageInv /\ [Next]_vars => PageInv'
<1> SUFFICES ASSUME PageInv, [Next]_vars
             PROVE  PageInv'
    OBVIOUS
<1>1. ASSUME NEW s \in Socket, Opens(s) PROVE PageInv'
  <2> USE <1>1 DEF PageInv, TypeOK, ReadyState, Opens, Start
  <2>1. TypeOK'
    OBVIOUS
  <2>2. LockIsTimer'
    BY DEF LockIsTimer
  <2>3. RetryIsArmed'
    BY DEF RetryIsArmed, LockIsTimer
  <2>4. OneSocketAtATime'
    BY DEF OneSocketAtATime, LockIsTimer, RetryIsArmed
  <2>5. QED
    BY <2>1, <2>2, <2>3, <2>4 DEF PageInv
<1>2. ASSUME NEW s \in Socket, HeartbeatArrives(s) PROVE PageInv'
  <2> USE <1>2 DEF PageInv, TypeOK, ReadyState, HeartbeatArrives, Start
  <2>1. TypeOK'
    OBVIOUS
  <2>2. LockIsTimer'
    BY DEF LockIsTimer
  <2>3. RetryIsArmed'
    BY DEF RetryIsArmed, LockIsTimer
  <2>4. OneSocketAtATime'
    BY DEF OneSocketAtATime, LockIsTimer, RetryIsArmed
  <2>5. QED
    BY <2>1, <2>2, <2>3, <2>4 DEF PageInv
<1>3. ASSUME NEW s \in Socket, Closes(s) PROVE PageInv'
  <2> USE <1>3 DEF PageInv, TypeOK, ReadyState, Closes, Reconnect, timers
  <2>1. TypeOK'
    OBVIOUS
  <2>2. LockIsTimer'
    BY DEF LockIsTimer
  <2>3. RetryIsArmed'
    BY DEF RetryIsArmed, LockIsTimer
  <2>4. OneSocketAtATime'
    BY DEF OneSocketAtATime, LockIsTimer, RetryIsArmed
  <2>5. QED
    BY <2>1, <2>2, <2>3, <2>4 DEF PageInv
<1>4. ASSUME NEW s \in Socket, GoesSilent(s) PROVE PageInv'
  <2> USE <1>4 DEF PageInv, TypeOK, ReadyState, GoesSilent, timers
  <2>1. TypeOK'
    OBVIOUS
  <2>2. LockIsTimer'
    BY DEF LockIsTimer
  <2>3. RetryIsArmed'
    BY DEF RetryIsArmed, LockIsTimer
  <2>4. OneSocketAtATime'
    BY DEF OneSocketAtATime, LockIsTimer, RetryIsArmed
  <2>5. QED
    BY <2>1, <2>2, <2>3, <2>4 DEF PageInv
<1>5. CASE Beat
  <2> USE <1>5 DEF PageInv, TypeOK, ReadyState, Beat, ArmsServerTimeout, Reconnect
  <2>1. TypeOK'
    OBVIOUS
  <2>2. LockIsTimer'
    BY DEF LockIsTimer
  <2>3. RetryIsArmed'
    BY DEF RetryIsArmed, LockIsTimer
  <2>4. OneSocketAtATime'
    BY DEF OneSocketAtATime, LockIsTimer, RetryIsArmed
  <2>5. QED
    BY <2>1, <2>2, <2>3, <2>4 DEF PageInv
<1>6. CASE ServerTimeout
  <2> USE <1>6 DEF PageInv, TypeOK, ReadyState, ServerTimeout, CloseSocket
  <2>1. TypeOK'
    OBVIOUS
  <2>2. LockIsTimer'
    BY DEF LockIsTimer
  <2>3. RetryIsArmed'
    BY DEF RetryIsArmed, LockIsTimer
  <2>4. OneSocketAtATime'
    BY DEF OneSocketAtATime, LockIsTimer, RetryIsArmed
  <2>5. QED
    BY <2>1, <2>2, <2>3, <2>4 DEF PageInv
<1>7. ASSUME NEW s \in Socket, InitWebSocket(s) PROVE PageInv'
  <2> USE <1>7 DEF PageInv, TypeOK, ReadyState, InitWebSocket, timers
  <2>1. TypeOK'
    OBVIOUS
  <2>2. LockIsTimer'
    BY DEF LockIsTimer
  <2>3. RetryIsArmed'
    BY DEF RetryIsArmed, LockIsTimer
  <2>4. OneSocketAtATime'
    BY DEF OneSocketAtATime, LockIsTimer, RetryIsArmed
  <2>5. QED
    BY <2>1, <2>2, <2>3, <2>4 DEF PageInv
<1>8. CASE UNCHANGED vars
  <2> USE <1>8 DEF PageInv, TypeOK, ReadyState, vars, timers
  <2>1. TypeOK'
    OBVIOUS
  <2>2. LockIsTimer'
    BY DEF LockIsTimer
  <2>3. RetryIsArmed'
    BY DEF RetryIsArmed, LockIsTimer
  <2>4. OneSocketAtATime'
    BY DEF OneSocketAtATime, LockIsTimer, RetryIsArmed
  <2>5. QED
    BY <2>1, <2>2, <2>3, <2>4 DEF PageInv
<1>9. QED
    BY <1>1, <1>2, <1>3, <1>4, <1>5, <1>6, <1>7, <1>8 DEF Next, Timer

\* The invariant of the page.
THEOREM PageInvariant == Spec => []PageInv
BY PageInit, PageNext, PTL DEF Spec

\* A page without a connection has the next attempt armed, whichever events and
\* timers came before: reconnect's lock never shuts it out (vue.html, 82-97).
THEOREM NeverStuck == Spec => []RetryIsArmed
<1>1. PageInv => RetryIsArmed
    BY DEF PageInv
<1>2. QED
    BY <1>1, PageInvariant, PTL

\* The page holds one connection at a time unless its heartbeat timer fired during
\* an attempt to connect (vue.html, 106-122).
THEOREM SingleConnection == Spec => []OneConnection
<1>1. PageInv => OneConnection
    BY DEF PageInv, OneSocketAtATime, OneConnection
<1>2. QED
    BY <1>1, PageInvariant, PTL

-----------------------------------------------------------------------------
(* The connection to the MQTT broker.                                      *)

\* The shapes of the functions that TypeOK looks into.
Shapes ==
    /\ thread \in [Mqtt!Thread -> [at : Mqtt!ThreadPc, client : Nat]]
    /\ request \in [Publisher -> [at : Mqtt!RequestPc, client : Nat]]

\* The threads that have a client to make, to connect or to give its callback.
Early == {t \in Mqtt!Thread : thread[t].at \in {"create", "connect", "callback"}}

\* There is one of them at a time: while it makes a client nobody is connected,
\* and then it works on the current client, which has no callback yet.
OneClientAtATime ==
    /\ \A s, t \in Early : s = t
    /\ \A t \in Early :
          /\ thread[t].at = "create" =>
                /\ made < MaxClients
                /\ \A c \in Mqtt!Client : link[c] # "connected"
          /\ thread[t].at # "create" => thread[t].client = client /\ ~heard[client]
          /\ thread[t].at = "connect" => link[client] = "new"
          /\ thread[t].at = "callback" => link[client] \in {"connected", "unheard"}

\* The field holds the client made last, the others are not connected and those
\* to come are new; every thread but the first began with a reported loss.
LastIsCurrent ==
    /\ client = made
    /\ client = 0 => thread[0].at = "create"
    /\ \A c \in Mqtt!Client : c # client => link[c] # "connected"
    /\ \A c \in Mqtt!Client : c > made => link[c] = "new" /\ ~heard[c]
    /\ \A c \in Mqtt!Client : thread[c].at # "idle" => link[c] = "reported"
    /\ \A c \in Mqtt!Client : c = client /\ link[c] = "reported" => thread[c].at = "create"
    /\ thread[0].at # "idle"

\* The current client is subscribed once connected, or some thread has still to
\* read the field or to subscribe for it.
WillSubscribe ==
    client \in Mqtt!Client /\ link[client] = "connected" /\ ~subscribed[client] =>
        \E t \in Mqtt!Thread : \/ thread[t].at \in {"callback", "target"}
                               \/ thread[t].at = "subscribe" /\ thread[t].client = client

MqttInv == Shapes /\ Mqtt!TypeOK /\ OneClientAtATime /\ LastIsCurrent /\ WillSubscribe

-----------------------------------------------------------------------------
\* The invariant holds when the application starts.
LEMMA MqttInit == Mqtt!Init => MqttInv
BY ClientsAssumption DEF Mqtt!Init, MqttInv, Shapes, Mqtt!TypeOK, OneClientAtATime, LastIsCurrent, WillSubscribe, Early,
       Mqtt!Client, Mqtt!Thread, Mqtt!Link, Mqtt!ThreadPc, Mqtt!RequestPc

\* Every step of a thread, of the broker and of a request preserves it.
LEMMA MqttNext == MqttInv /\ [Mqtt!Next]_Mqtt!vars => MqttInv'
<1> SUFFICES ASSUME MqttInv, [Mqtt!Next]_Mqtt!vars
             PROVE  MqttInv'
    OBVIOUS
<1> USE ClientsAssumption DEF MqttInv, Mqtt!Client, Mqtt!Thread
<1>1. ASSUME NEW t \in Mqtt!Thread, Mqtt!Creates(t) PROVE MqttInv'
  <2> USE <1>1 DEF Mqtt!Creates, Mqtt!SetClient, Mqtt!Goes
  <2>1. Shapes'
    BY DEF Shapes, Mqtt!TypeOK, Mqtt!ThreadPc, Mqtt!RequestPc
  <2>2. Mqtt!TypeOK'
    BY DEF Shapes, Mqtt!TypeOK, Mqtt!ThreadPc, Mqtt!RequestPc, Mqtt!Link, OneClientAtATime, LastIsCurrent, Early
  <2>3. OneClientAtATime'
    BY DEF Shapes, Mqtt!TypeOK, Mqtt!ThreadPc, Mqtt!Link, OneClientAtATime, LastIsCurrent, Early
  <2>4. LastIsCurrent'
    BY DEF Shapes, Mqtt!TypeOK, Mqtt!ThreadPc, Mqtt!Link, OneClientAtATime, LastIsCurrent, Early
  <2>5. WillSubscribe'
    BY DEF Shapes, Mqtt!TypeOK, Mqtt!ThreadPc, Mqtt!Link, OneClientAtATime, LastIsCurrent, WillSubscribe, Early
  <2>6. QED
    BY <2>1, <2>2, <2>3, <2>4, <2>5
<1>2. ASSUME NEW t \in Mqtt!Thread, Mqtt!Connects(t) PROVE MqttInv'
  <2> USE <1>2 DEF Mqtt!Connects, Mqtt!Goes
  <2>1. Shapes'
    BY DEF Shapes, Mqtt!TypeOK, Mqtt!ThreadPc, Mqtt!RequestPc
  <2>2. Mqtt!TypeOK'
    BY DEF Shapes, Mqtt!TypeOK, Mqtt!ThreadPc, Mqtt!RequestPc, Mqtt!Link, OneClientAtATime, LastIsCurrent, Early
  <2>3. OneClientAtATime'
    BY DEF Shapes, Mqtt!TypeOK, Mqtt!ThreadPc, Mqtt!Link, OneClientAtATime, LastIsCurrent, Early
  <2>4. LastIsCurrent'
    BY DEF Shapes, Mqtt!TypeOK, Mqtt!ThreadPc, Mqtt!Link, OneClientAtATime, LastIsCurrent, Early
  <2>5. WillSubscribe'
    BY DEF Shapes, Mqtt!TypeOK, Mqtt!ThreadPc, Mqtt!Link, OneClientAtATime, LastIsCurrent, WillSubscribe, Early
  <2>6. QED
    BY <2>1, <2>2, <2>3, <2>4, <2>5
<1>3. ASSUME NEW t \in Mqtt!Thread, Mqtt!ConnectFails(t) PROVE MqttInv'
  <2> USE <1>3 DEF Mqtt!ConnectFails, Mqtt!Goes
  <2>1. Shapes'
    BY DEF Shapes, Mqtt!TypeOK, Mqtt!ThreadPc, Mqtt!RequestPc
  <2>2. Mqtt!TypeOK'
    BY DEF Shapes, Mqtt!TypeOK, Mqtt!ThreadPc, Mqtt!RequestPc, Mqtt!Link, OneClientAtATime, LastIsCurrent, Early
  <2>3. OneClientAtATime'
    BY DEF Shapes, Mqtt!TypeOK, Mqtt!ThreadPc, Mqtt!Link, OneClientAtATime, LastIsCurrent, Early
  <2>4. LastIsCurrent'
    BY DEF Shapes, Mqtt!TypeOK, Mqtt!ThreadPc, Mqtt!Link, OneClientAtATime, LastIsCurrent, Early
  <2>5. WillSubscribe'
    BY DEF Shapes, Mqtt!TypeOK, Mqtt!ThreadPc, Mqtt!Link, OneClientAtATime, LastIsCurrent, WillSubscribe, Early
  <2>6. QED
    BY <2>1, <2>2, <2>3, <2>4, <2>5
<1>4. ASSUME NEW t \in Mqtt!Thread, Mqtt!SetCallback(t) PROVE MqttInv'
  <2> USE <1>4 DEF Mqtt!SetCallback, Mqtt!Goes
  <2>1. Shapes'
    BY DEF Shapes, Mqtt!TypeOK, Mqtt!ThreadPc, Mqtt!RequestPc
  <2>2. Mqtt!TypeOK'
    BY DEF Shapes, Mqtt!TypeOK, Mqtt!ThreadPc, Mqtt!RequestPc, Mqtt!Link, OneClientAtATime, LastIsCurrent, Early
  <2>3. OneClientAtATime'
    BY DEF Shapes, Mqtt!TypeOK, Mqtt!ThreadPc, Mqtt!Link, OneClientAtATime, LastIsCurrent, Early
  <2>4. LastIsCurrent'
    BY DEF Shapes, Mqtt!TypeOK, Mqtt!ThreadPc, Mqtt!Link, OneClientAtATime, LastIsCurrent, Early
  <2>5. WillSubscribe'
    BY DEF Shapes, Mqtt!TypeOK, Mqtt!ThreadPc, Mqtt!Link, OneClientAtATime, LastIsCurrent, WillSubscribe, Early
  <2>6. QED
    BY <2>1, <2>2, <2>3, <2>4, <2>5
<1>5. ASSUME NEW t \in Mqtt!Thread, Mqtt!GetClient(t) PROVE MqttInv'
  <2> USE <1>5 DEF Mqtt!GetClient, Mqtt!Goes
  <2>1. Shapes'
    BY DEF Shapes, Mqtt!TypeOK, Mqtt!ThreadPc, Mqtt!RequestPc
  <2>2. Mqtt!TypeOK'
    BY DEF Shapes, Mqtt!TypeOK, Mqtt!ThreadPc, Mqtt!RequestPc, Mqtt!Link, OneClientAtATime, LastIsCurrent, Early
  <2>3. OneClientAtATime'
    BY DEF Shapes, Mqtt!TypeOK, Mqtt!ThreadPc, Mqtt!Link, OneClientAtATime, LastIsCurrent, Early
  <2>4. LastIsCurrent'
    BY DEF Shapes, Mqtt!TypeOK, Mqtt!ThreadPc, Mqtt!Link, OneClientAtATime, LastIsCurrent, Early
  <2>5. WillSubscribe'
    BY DEF Shapes, Mqtt!TypeOK, Mqtt!ThreadPc, Mqtt!Link, OneClientAtATime, LastIsCurrent, WillSubscribe, Early
  <2>6. QED
    BY <2>1, <2>2, <2>3, <2>4, <2>5
<1>6. ASSUME NEW t \in Mqtt!Thread, Mqtt!Subscribe(t) PROVE MqttInv'
  <2> USE <1>6 DEF Mqtt!Subscribe, Mqtt!Goes
  <2>1. Shapes'
    BY DEF Shapes, Mqtt!TypeOK, Mqtt!ThreadPc, Mqtt!RequestPc
  <2>2. Mqtt!TypeOK'
    BY DEF Shapes, Mqtt!TypeOK, Mqtt!ThreadPc, Mqtt!RequestPc, Mqtt!Link, OneClientAtATime, LastIsCurrent, Early
  <2>3. OneClientAtATime'
    BY DEF Shapes, Mqtt!TypeOK, Mqtt!ThreadPc, Mqtt!Link, OneClientAtATime, LastIsCurrent, Early
  <2>4. LastIsCurrent'
    BY DEF Shapes, Mqtt!TypeOK, Mqtt!ThreadPc, Mqtt!Link, OneClientAtATime, LastIsCurrent, Early
  <2>5. WillSubscribe'
    BY DEF Shapes, Mqtt!TypeOK, Mqtt!ThreadPc, Mqtt!Link, OneClientAtATime, LastIsCurrent, WillSubscribe, Early
  <2>6. QED
    BY <2>1, <2>2, <2>3, <2>4, <2>5
<1>7. ASSUME NEW c \in Mqtt!Client, Mqtt!LinkBreaks(c) PROVE MqttInv'
  <2> USE <1>7 DEF Mqtt!LinkBreaks, Mqtt!ConnectionLost, Mqtt!Goes
  <2> DEFINE again == [thread EXCEPT ![c] = [at |-> "create", client |-> 0]]
  <2>a. (heard[c] /\ thread' = again) \/ (~heard[c] /\ thread' = thread)
    OBVIOUS
  <2>b. c = client /\ c \in Mqtt!Thread
    BY DEF LastIsCurrent, Shapes
  <2>c. heard[c] => Early = {}
    BY <2>b DEF OneClientAtATime, Early
  <2>d. again \in [Mqtt!Thread -> [at : Mqtt!ThreadPc, client : Nat]]
    BY DEF Shapes, Mqtt!ThreadPc
  <2>1. Shapes'
    BY <2>a, <2>d DEF Shapes
  <2>2. Mqtt!TypeOK'
    BY <2>a, <2>b DEF Shapes, Mqtt!TypeOK, Mqtt!ThreadPc, Mqtt!Link
  <2>3. OneClientAtATime'
    <3>1. CASE heard[c] /\ thread' = again
      <4>1. Early' = {c}
        BY <3>1, <2>b, <2>c DEF Early, Shapes
      <4>2. \A k \in Mqtt!Client : link'[k] # "connected"
        BY <2>b, <3>1 DEF LastIsCurrent, Mqtt!TypeOK
      <4>3. thread'[c].at = "create"
        BY <3>1, <2>b DEF Shapes
      <4>4. QED
        BY <4>1, <4>2, <4>3 DEF OneClientAtATime
    <3>2. CASE ~heard[c] /\ thread' = thread
      BY <3>2, <2>b DEF OneClientAtATime, Early, Mqtt!TypeOK
    <3>3. QED
      BY <2>a, <3>1, <3>2
  <2>4. LastIsCurrent'
    BY <2>a, <2>b DEF Shapes, Mqtt!TypeOK, Mqtt!ThreadPc, Mqtt!Link, LastIsCurrent
  <2>5. WillSubscribe'
    BY <2>b DEF Mqtt!TypeOK, WillSubscribe
  <2>6. QED
    BY <2>1, <2>2, <2>3, <2>4, <2>5
<1>8. CASE Mqtt!BrokerGoes
  <2> USE <1>8 DEF Mqtt!BrokerGoes
  <2>1. Shapes'
    BY DEF Shapes, Mqtt!TypeOK, Mqtt!ThreadPc, Mqtt!RequestPc
  <2>2. Mqtt!TypeOK'
    BY DEF Shapes, Mqtt!TypeOK, Mqtt!ThreadPc, Mqtt!RequestPc, Mqtt!Link, OneClientAtATime, LastIsCurrent, Early
  <2>3. OneClientAtATime'
    BY DEF Shapes, Mqtt!TypeOK, Mqtt!ThreadPc, Mqtt!Link, OneClientAtATime, LastIsCurrent, Early
  <2>4. LastIsCurrent'
    BY DEF Shapes, Mqtt!TypeOK, Mqtt!ThreadPc, Mqtt!Link, OneClientAtATime, LastIsCurrent, Early
  <2>5. WillSubscribe'
    BY DEF Shapes, Mqtt!TypeOK, Mqtt!ThreadPc, Mqtt!Link, OneClientAtATime, LastIsCurrent, WillSubscribe, Early
  <2>6. QED
    BY <2>1, <2>2, <2>3, <2>4, <2>5
<1>9. ASSUME NEW p \in Publisher, Mqtt!RequestStep(p) PROVE MqttInv'
  <2> USE <1>9 DEF Mqtt!RequestStep, Mqtt!GetTopic, Mqtt!Publish, Mqtt!Completes, Mqtt!Started
  <2>a. request' \in [Publisher -> [at : Mqtt!RequestPc, client : Nat]]
    <3>1. CASE Mqtt!GetTopic(p)
      BY <3>1 DEF Shapes, Mqtt!TypeOK, Mqtt!RequestPc
    <3>2. CASE Mqtt!Publish(p)
      BY <3>2 DEF Shapes, Mqtt!RequestPc
    <3>3. CASE Mqtt!Completes(p)
      BY <3>3 DEF Shapes, Mqtt!RequestPc
    <3>4. QED
      BY <3>1, <3>2, <3>3 DEF Mqtt!RequestStep
  <2>b. \A q \in Publisher : request'[q].at # "idle" => request'[q].client \in 1..made
    <3>1. CASE Mqtt!GetTopic(p)
      BY <3>1 DEF Shapes, Mqtt!TypeOK, LastIsCurrent
    <3>2. CASE Mqtt!Publish(p)
      BY <3>2 DEF Shapes, Mqtt!TypeOK, Mqtt!RequestPc
    <3>3. CASE Mqtt!Completes(p)
      BY <3>3 DEF Shapes, Mqtt!TypeOK, Mqtt!RequestPc
    <3>4. QED
      BY <3>1, <3>2, <3>3 DEF Mqtt!RequestStep
  <2>1. Shapes'
    BY <2>a DEF Shapes
  <2>2. Mqtt!TypeOK'
    BY <2>a, <2>b DEF Mqtt!TypeOK
  <2>3. OneClientAtATime'
    BY DEF Shapes, Mqtt!TypeOK, Mqtt!ThreadPc, Mqtt!Link, OneClientAtATime, LastIsCurrent, Early
  <2>4. LastIsCurrent'
    BY DEF Shapes, Mqtt!TypeOK, Mqtt!ThreadPc, Mqtt!Link, OneClientAtATime, LastIsCurrent, Early
  <2>5. WillSubscribe'
    BY DEF Shapes, Mqtt!TypeOK, Mqtt!ThreadPc, Mqtt!Link, OneClientAtATime, LastIsCurrent, WillSubscribe, Early
  <2>6. QED
    BY <2>1, <2>2, <2>3, <2>4, <2>5
<1>10. CASE UNCHANGED Mqtt!vars
  <2> USE <1>10 DEF Mqtt!vars
  <2>1. Shapes'
    BY DEF Shapes, Mqtt!TypeOK, Mqtt!ThreadPc, Mqtt!RequestPc
  <2>2. Mqtt!TypeOK'
    BY DEF Shapes, Mqtt!TypeOK, Mqtt!ThreadPc, Mqtt!RequestPc, Mqtt!Link, OneClientAtATime, LastIsCurrent, Early
  <2>3. OneClientAtATime'
    BY DEF Shapes, Mqtt!TypeOK, Mqtt!ThreadPc, Mqtt!Link, OneClientAtATime, LastIsCurrent, Early
  <2>4. LastIsCurrent'
    BY DEF Shapes, Mqtt!TypeOK, Mqtt!ThreadPc, Mqtt!Link, OneClientAtATime, LastIsCurrent, Early
  <2>5. WillSubscribe'
    BY DEF Shapes, Mqtt!TypeOK, Mqtt!ThreadPc, Mqtt!Link, OneClientAtATime, LastIsCurrent, WillSubscribe, Early
  <2>6. QED
    BY <2>1, <2>2, <2>3, <2>4, <2>5
<1>11. QED
    BY <1>1, <1>2, <1>3, <1>4, <1>5, <1>6, <1>7, <1>8, <1>9, <1>10 DEF Mqtt!Next, Mqtt!ThreadStep

\* The invariant of the connection.
THEOREM MqttInvariant == Mqtt!Spec => []MqttInv
BY MqttInit, MqttNext, PTL DEF Mqtt!Spec

\* Every reachable state is typed: no publish request and no subscription meets the
\* null that the field holds before the first connect().
THEOREM MqttTypeCorrect == Mqtt!Spec => []Mqtt!TypeOK
<1>1. MqttInv => Mqtt!TypeOK
    BY DEF MqttInv
<1>2. QED
    BY <1>1, MqttInvariant, PTL

\* Once no thread connects, only the current client can be connected, a connected
\* one is subscribed, and no reported loss has been left alone.
THEOREM LinkSettles == Mqtt!Spec => []Mqtt!SettledLink
<1>1. MqttInv => Mqtt!SettledLink
  <2> SUFFICES ASSUME MqttInv, ~Mqtt!Attempting
               PROVE  /\ \A c \in Mqtt!Client \ {client} : link[c] # "connected"
                      /\ link[client] = "connected" => subscribed[client]
                      /\ link[client] # "reported"
      BY DEF Mqtt!SettledLink
  <2>1. client \in Mqtt!Client
      BY ClientsAssumption
         DEF MqttInv, Mqtt!TypeOK, LastIsCurrent, Mqtt!Attempting, Mqtt!Client, Mqtt!Thread, Shapes
  <2>2. link[client] = "connected" => subscribed[client]
      BY <2>1 DEF MqttInv, WillSubscribe, Mqtt!Attempting
  <2>3. link[client] # "reported"
      BY <2>1, ClientsAssumption DEF MqttInv, LastIsCurrent, Mqtt!Attempting, Mqtt!Client, Mqtt!Thread
  <2>4. QED
      BY <2>2, <2>3 DEF MqttInv, LastIsCurrent
<1>2. QED
    BY <1>1, MqttInvariant, PTL

-----------------------------------------------------------------------------
(* The requests that wait.                                                 *)

\* The lines of which a request has one, or may still find one, are all that were typed;
\* and every answer is that of a message that is answered.
WebInv ==
    /\ at = [r \in Web!Requests |-> at[r]]
    /\ greeting = [m \in Greeting |-> greeting[m]]
    /\ standard \in [lines : Nat, typed : Nat, open : BOOLEAN]
    /\ topic \in Seq(Greeting)
    /\ Web!OneServerRequest
    /\ IsFiniteSet(Web!HasLine)
    /\ Cardinality(Web!HasLine) + standard.lines <= standard.typed
    /\ \A i \in DOMAIN topic : greeting[topic[i]] = "answered"
    /\ Web!AnsweredOnce

\* The invariant holds at the start.
LEMMA WebInit == Web!Init => WebInv
<1>1. Web!Init => Web!HasLine = {}
    BY DEF Web!Init, Web!HasLine, Web!Requests
<1>2. IsFiniteSet({}) /\ Cardinality({}) = 0
    BY FS_EmptySet
<1> SUFFICES ASSUME Web!Init PROVE WebInv
    OBVIOUS
<1>3. /\ standard = [lines |-> 0, typed |-> 0, open |-> TRUE] /\ topic = <<>>
      /\ at = [r \in Web!Requests |-> "called"]
      /\ greeting = [m \in Greeting |-> "sent"]
    BY DEF Web!Init
<1>4. Web!OneServerRequest
    BY ClientsAssumption DEF Web!Init, Web!OneServerRequest, Web!Requests
<1>5. Web!AnsweredOnce
    BY <1>3 DEF Web!AnsweredOnce
<1>6. Cardinality(Web!HasLine) + standard.lines <= standard.typed
  <2>1. /\ Web!HasLine = {} /\ standard.lines = 0 /\ standard.typed = 0
      BY <1>1, <1>3
  <2>2. Cardinality(Web!HasLine) = 0
      BY <1>2, <2>1
  <2>3. QED
      BY <2>1, <2>2
<1>7. standard \in [lines : Nat, typed : Nat, open : BOOLEAN]
    BY <1>3
<1>8. /\ at = [r \in Web!Requests |-> at[r]] /\ greeting = [m \in Greeting |-> greeting[m]]
      /\ topic \in Seq(Greeting) /\ DOMAIN topic = {}
    BY <1>3
<1>9. IsFiniteSet(Web!HasLine)
    BY <1>1, <1>2
<1>10. QED
    BY <1>4, <1>5, <1>6, <1>7, <1>8, <1>9 DEF WebInv

\* A request that goes on neither waits nor has waited for a line.
LEMMA RequestGoes ==
    ASSUME WebInv, NEW r \in Web!Requests,
           NEW to \in {"returned", "waits", "reads", "line", "read"}, Web!Goes(r, to)
    PROVE  /\ at' = [q \in Web!Requests |-> at'[q]] /\ at'[r] = to
           /\ \A q \in Web!Requests \ {r} : at'[q] = at[q]
BY DEF WebInv, Web!Goes

\* A step after which no request has a line that had none, and none waits that did not.
Moves(from, to) ==
    /\ from \in {"called", "reads", "line"}
    /\ to \in {"returned", "reads", "read"}
    /\ to = "read" => from = "line"
    /\ from = "line" => to = "read"
LEMMA OthersKeep ==
    ASSUME WebInv, UNCHANGED <<port, greeted, greeting, topic>>,
           \/ UNCHANGED at
           \/ \E r \in Web!Requests, to \in {"returned", "reads", "read"} :
                 Moves(at[r], to) /\ Web!Goes(r, to),
           \/ UNCHANGED standard
           \/ standard' = [standard EXCEPT !.typed = @ + 1, !.lines = @ + 1]
           \/ standard' = [standard EXCEPT !.open = FALSE]
           \/ standard' = [standard EXCEPT !.lines = 0]
    PROVE  WebInv'
<1>1. /\ at' = [q \in Web!Requests |-> at'[q]]
      /\ \A q \in Web!Requests : \/ at'[q] = at[q]
                                 \/ Moves(at[q], at'[q])
  <2>1. CASE UNCHANGED at
      BY <2>1 DEF WebInv
  <2>2. ASSUME NEW r \in Web!Requests, NEW to \in {"returned", "reads", "read"},
               Moves(at[r], to), Web!Goes(r, to)
        PROVE  /\ at' = [q \in Web!Requests |-> at'[q]]
               /\ \A q \in Web!Requests : \/ at'[q] = at[q]
                                          \/ Moves(at[q], at'[q])
      BY <2>2, RequestGoes
  <2>3. QED
      BY <2>1, <2>2
<1>2. Web!HasLine' = Web!HasLine
    BY <1>1 DEF Web!HasLine, Web!Requests, Moves
<1>3. Web!OneServerRequest'
  <2>1. Web!OneServerRequest
      BY DEF WebInv
  <2>2. QED
      BY <1>1, <2>1 DEF Web!OneServerRequest, Web!Requests, Moves
<1>4. /\ standard' \in [lines : Nat, typed : Nat, open : BOOLEAN]
      /\ standard'.lines - standard.lines <= standard'.typed - standard.typed
  <2>1. standard \in [lines : Nat, typed : Nat, open : BOOLEAN]
      BY DEF WebInv
  <2>2. CASE UNCHANGED standard
      BY <2>1, <2>2
  <2>3. CASE standard' = [standard EXCEPT !.typed = @ + 1, !.lines = @ + 1]
    <3>1. standard' \in [lines : Nat, typed : Nat, open : BOOLEAN]
      <4>1. standard.lines + 1 \in Nat /\ standard.typed + 1 \in Nat
          BY <2>1
      <4>2. \A m, n \in Nat : [standard EXCEPT !.typed = m, !.lines = n]
                              \in [lines : Nat, typed : Nat, open : BOOLEAN]
          BY <2>1
      <4>3. QED
          BY <2>3, <4>1, <4>2
    <3>2. standard'.lines = standard.lines + 1 /\ standard'.typed = standard.typed + 1
        BY <2>1, <2>3
    <3>3. QED
        BY <2>1, <3>1, <3>2
  <2>4. CASE standard' = [standard EXCEPT !.open = FALSE]
    <3>1. standard' \in [lines : Nat, typed : Nat, open : BOOLEAN]
        BY <2>1, <2>4
    <3>2. standard'.lines = standard.lines /\ standard'.typed = standard.typed
        BY <2>1, <2>4
    <3>3. QED
        BY <2>1, <3>1, <3>2
  <2>5. CASE standard' = [standard EXCEPT !.lines = 0]
    <3>1. standard' \in [lines : Nat, typed : Nat, open : BOOLEAN]
        BY <2>1, <2>5
    <3>2. standard'.lines = 0 /\ standard'.typed = standard.typed
        BY <2>1, <2>5
    <3>3. QED
        BY <2>1, <3>1, <3>2
  <2>6. QED
      BY <2>2, <2>3, <2>4, <2>5
<1>5. Cardinality(Web!HasLine) \in Nat
    BY FS_CardinalityType DEF WebInv
<1>6. Cardinality(Web!HasLine') + standard'.lines <= standard'.typed
    BY <1>2, <1>4, <1>5 DEF WebInv
<1>7. QED
    BY <1>1, <1>2, <1>3, <1>4, <1>6 DEF WebInv, Web!AnsweredOnce

\* The server's requests: one gets the port and waits.
LEMMA ServerKeeps ==
    ASSUME WebInv, NEW r \in Server, Web!StartsServer(r)
    PROVE  WebInv'
<1>1. CASE port # "free"
    BY <1>1, OthersKeep DEF Web!StartsServer, Web!Requests, Moves
<1>2. CASE port = "free"
  <2>1. /\ port' = r /\ r # "free" /\ at'[r] = "waits" /\ at[r] = "called"
        /\ at' = [q \in Web!Requests |-> at'[q]]
        /\ \A q \in Web!Requests \ {r} : at'[q] = at[q]
        /\ UNCHANGED <<standard, greeted, greeting, topic>>
      BY <1>2, RequestGoes, ClientsAssumption
         DEF Web!StartsServer, Web!StartsAndWaits, Web!Requests
  <2>2. Web!HasLine' = Web!HasLine
      BY <2>1 DEF Web!HasLine, Web!Requests
  <2>3. Web!OneServerRequest'
    <3>1. Web!OneServerRequest
        BY DEF WebInv
    <3>2. QED
        BY <1>2, <2>1, <3>1, ClientsAssumption DEF Web!OneServerRequest, Web!Requests
  <2>4. /\ IsFiniteSet(Web!HasLine')
        /\ Cardinality(Web!HasLine') + standard'.lines <= standard'.typed
      BY <2>1, <2>2 DEF WebInv
  <2>5. QED
      BY <2>1, <2>3, <2>4 DEF WebInv, Web!AnsweredOnce
<1>3. QED
    BY <1>1, <1>2

\* ... until the JVM shuts down.
LEMMA ShutdownKeeps == WebInv /\ Web!ShutsDown => WebInv'
<1> SUFFICES ASSUME WebInv, Web!ShutsDown PROVE WebInv'
    OBVIOUS
<1>1. /\ at' = [q \in Web!Requests |-> at'[q]]
      /\ \A q \in Web!Requests : at'[q] = IF at[q] = "waits" THEN "returned" ELSE at[q]
      /\ port' = "free" /\ UNCHANGED <<standard, greeted, greeting, topic>>
    BY DEF Web!ShutsDown
<1>2. Web!HasLine' = Web!HasLine
    BY <1>1 DEF Web!HasLine, Web!Requests
<1>3. Web!OneServerRequest'
    BY <1>1, ClientsAssumption DEF Web!OneServerRequest, Web!Requests
<1>4. QED
    BY <1>1, <1>2, <1>3 DEF WebInv, Web!AnsweredOnce

\* The greeters: who finds a line takes all there are, and greets with its own.
LEMMA GreeterKeeps ==
    ASSUME WebInv, NEW r \in Greeter,
           \/ Web!EntersRead(r) \/ Web!FindsLine(r) \/ Web!Closes(r)
           \/ Web!ReadBreaks(r) \/ Web!Greets(r)
    PROVE  WebInv'
<1>1. CASE Web!EntersRead(r) \/ Web!Closes(r) \/ Web!ReadBreaks(r)
  <2>1. \E to \in {"returned", "reads", "read"} : Moves(at[r], to) /\ Web!Goes(r, to)
      BY <1>1 DEF Web!EntersRead, Web!Closes, Web!ReadBreaks, Web!Reading, Moves
  <2>2. QED
      BY <1>1, <2>1, OthersKeep
         DEF Web!EntersRead, Web!Closes, Web!ReadBreaks, Web!Requests
<1>2. CASE Web!FindsLine(r) /\ Web!Goes(r, "returned")
    BY <1>2, OthersKeep DEF Web!FindsLine, Web!Reading, Web!Requests, Moves
<1>3. CASE Web!FindsLine(r) /\ Web!Goes(r, "line")
  <2>1. /\ at'[r] = "line" /\ at[r] = "reads"
        /\ at' = [q \in Web!Requests |-> at'[q]]
        /\ \A q \in Web!Requests \ {r} : at'[q] = at[q]
        /\ UNCHANGED <<port, greeted, greeting, topic>>
      BY <1>3, RequestGoes DEF Web!FindsLine, Web!Reading, Web!Requests
  <2>2. /\ standard' \in [lines : Nat, typed : Nat, open : BOOLEAN]
        /\ standard'.open = standard.open /\ standard'.typed = standard.typed
        /\ standard'.lines = 0 /\ standard.lines >= 1
      BY <1>3 DEF Web!FindsLine, WebInv
  <2>3. Web!HasLine' = Web!HasLine \cup {r}
      BY <2>1 DEF Web!HasLine, Web!Requests
  <2>4. /\ IsFiniteSet(Web!HasLine') /\ Cardinality(Web!HasLine) \in Nat
        /\ Cardinality(Web!HasLine') \in Nat
        /\ Cardinality(Web!HasLine') <= Cardinality(Web!HasLine) + 1
    <3>1. IsFiniteSet(Web!HasLine)
        BY DEF WebInv
    <3>2. /\ IsFiniteSet(Web!HasLine \cup {r})
          /\ \/ Cardinality(Web!HasLine \cup {r}) = Cardinality(Web!HasLine)
             \/ Cardinality(Web!HasLine \cup {r}) = Cardinality(Web!HasLine) + 1
        BY <3>1, FS_AddElement
    <3>3. Cardinality(Web!HasLine) \in Nat
        BY <3>1, FS_CardinalityType
    <3>4. QED
        BY <2>3, <3>2, <3>3
  <2>5. Cardinality(Web!HasLine') + standard'.lines <= standard'.typed
      BY <2>2, <2>4 DEF WebInv
  <2>6. Web!OneServerRequest'
      BY <2>1 DEF WebInv, Web!OneServerRequest, Web!Requests
  <2>7. /\ greeting' = [m \in Greeting |-> greeting'[m]] /\ topic' \in Seq(Greeting)
        /\ \A i \in DOMAIN topic' : greeting'[topic'[i]] = "answered"
        /\ Web!AnsweredOnce'
      BY <2>1 DEF WebInv, Web!AnsweredOnce
  <2>8. QED
      BY <2>1, <2>2, <2>4, <2>5, <2>6, <2>7 DEF WebInv
<1>4. CASE Web!Greets(r)
  <2>1. /\ at'[r] = "returned" /\ at[r] = "read"
        /\ at' = [q \in Web!Requests |-> at'[q]]
        /\ \A q \in Web!Requests \ {r} : at'[q] = at[q]
        /\ greeted' = greeted \/ greeted' = greeted \cup {r}
        /\ UNCHANGED <<standard, port, greeting, topic>>
      BY <1>4, RequestGoes DEF Web!Greets, Web!Requests
  <2>2. Web!HasLine' \subseteq Web!HasLine
      BY <2>1 DEF Web!HasLine, Web!Requests
  <2>3. /\ IsFiniteSet(Web!HasLine') /\ Cardinality(Web!HasLine) \in Nat
        /\ Cardinality(Web!HasLine') \in Nat
        /\ Cardinality(Web!HasLine') <= Cardinality(Web!HasLine)
      BY <2>2, FS_Subset, FS_CardinalityType DEF WebInv
  <2>4. Cardinality(Web!HasLine') + standard'.lines <= standard'.typed
      BY <2>1, <2>3 DEF WebInv
  <2>5. Web!OneServerRequest'
      BY <2>1 DEF WebInv, Web!OneServerRequest, Web!Requests
  <2>6. QED
      BY <2>1, <2>3, <2>4, <2>5 DEF WebInv, Web!AnsweredOnce
<1>5. QED
    BY <1>1, <1>2, <1>3, <1>4 DEF Web!FindsLine

\* The greetings: each is answered once, by the thread that took it.
LEMMA GreetingKeeps ==
    ASSUME WebInv, NEW m \in Greeting, Web!GreetingStep(m)
    PROVE  WebInv'
<1>1. /\ UNCHANGED <<at, standard, port, greeted>> /\ Web!HasLine' = Web!HasLine
      /\ greeting' = [n \in Greeting |-> greeting'[n]]
      /\ \A n \in Greeting \ {m} : greeting'[n] = greeting[n]
      /\ greeting[m] # "answered"
    BY DEF WebInv, Web!GreetingStep, Web!TakesGreeting, Web!Untaken, Web!AnswersGreeting,
           Web!HasLine
<1>2. Web!OneServerRequest'
    BY <1>1 DEF WebInv, Web!OneServerRequest
<1>3. \A i \in DOMAIN topic : topic[i] # m /\ topic[i] \in Greeting
  <2>1. topic \in Seq(Greeting) /\ \A i \in DOMAIN topic : greeting[topic[i]] = "answered"
      BY DEF WebInv
  <2>2. \A i \in DOMAIN topic : topic[i] \in Greeting
      BY <2>1
  <2>3. QED
      BY <1>1, <2>1, <2>2
<1>4. CASE topic' = topic
    BY <1>1, <1>2, <1>3, <1>4 DEF WebInv, Web!AnsweredOnce
<1>5. CASE topic' = Append(topic, m) /\ greeting'[m] = "answered"
  <2>1. /\ topic' \in Seq(Greeting)
        /\ \A i \in DOMAIN topic' : \/ i \in DOMAIN topic /\ topic'[i] = topic[i]
                                    \/ i = Len(topic) + 1 /\ topic'[i] = m
      BY <1>5 DEF WebInv
  <2>2. \A i \in DOMAIN topic' : greeting'[topic'[i]] = "answered"
    <3>1. \A i \in DOMAIN topic : greeting[topic[i]] = "answered"
        BY DEF WebInv
    <3>2. QED
        BY <1>1, <1>3, <1>5, <2>1, <3>1
  <2>3. Web!AnsweredOnce'
      BY <1>3, <2>1 DEF WebInv, Web!AnsweredOnce
  <2>4. QED
      BY <1>1, <1>2, <2>1, <2>2, <2>3 DEF WebInv
<1>6. QED
    BY <1>1, <1>4, <1>5
       DEF WebInv, Web!GreetingStep, Web!TakesGreeting, Web!AnswersGreeting

\* All of them.
LEMMA WebNext == WebInv /\ [Web!Next]_Web!vars => WebInv'
<1> SUFFICES ASSUME WebInv, [Web!Next]_Web!vars PROVE WebInv'
    OBVIOUS
<1>1. CASE Web!RedisStep
    BY <1>1, OthersKeep
       DEF Web!RedisStep, Web!Publishes, Web!RedisReturns, Web!Delivers, Web!Loses, Web!Requests,
           Moves
<1>2. CASE Web!Types
    BY <1>2, OthersKeep DEF Web!Types
<1>3. CASE UNCHANGED Web!vars
    BY <1>3, OthersKeep DEF Web!vars
<1>4. QED
    BY <1>1, <1>2, <1>3, ServerKeeps, ShutdownKeeps, GreeterKeeps, GreetingKeeps
       DEF Web!Next, Web!GrpcStep

\* What the run checks follows from it.
LEMMA WebInvImplies ==
    WebInv => Web!OneServerRequest /\ Web!OwnLines /\ Web!AnsweredOnce
<1>1. Web!Cardinality(Web!HasLine) = Cardinality(Web!HasLine)
    BY DEF Web!Cardinality, Cardinality
<1>2. QED
    BY <1>1 DEF WebInv, Web!OwnLines

-----------------------------------------------------------------------------
(* All, beside each other.                                                 *)

\* What the parts share is nothing: each behaves as it does alone.
LEMMA MqttIsItself == MCSpec => Mqtt!Spec
<1>1. MCInit => Mqtt!Init
  BY DEF MCInit
<1>2. [MCNext]_mcVars => [Mqtt!Next]_Mqtt!vars
  BY DEF MCNext, Page, Mqtts, Webs, mcVars, mqttVars, Mqtt!vars
<1> QED
  BY <1>1, <1>2, PTL DEF MCSpec, Mqtt!Spec

\* Once nothing is under way, all clients but the current one are without a connection,
\* and the current one is connected and subscribed unless its attempt failed or its loss
\* came before it had its callback (MqttPub, PushCallback.connectionLost).
THEOREM LinkSettlesBeside == MCSpec => []SettledLink
<1>1. Mqtt!SettledLink => SettledLink
  BY DEF SettledLink
<1> QED
  BY <1>1, MqttIsItself, LinkSettles, PTL

\* The requests that wait behave as they do alone, too.
LEMMA WebIsItself == MCSpec => Web!Init /\ [][Web!Next]_Web!vars
<1>1. MCInit => Web!Init
  BY DEF MCInit
<1>2. [MCNext]_mcVars => [Web!Next]_Web!vars
  BY DEF MCNext, Page, Mqtts, Webs, mcVars, webVars, Web!vars
<1> QED
  BY <1>1, <1>2, PTL DEF MCSpec

\* HelloWorldServer, HelloWorldClient and greeting: one request at a time is held by a gRPC
\* server, the one whose server has the port; every request that greets it has read a line
\* of its own; and each message has one answer.
THEOREM OneOfEach == MCSpec => [](Web!OneServerRequest /\ Web!OwnLines /\ Web!AnsweredOnce)
BY WebIsItself, WebInit, WebNext, WebInvImplies, PTL
=============================================================================
