------------------------------ MODULE MqttPub ------------------------------
(***************************************************************************)
(* The application's connection to the MQTT broker: mqtt.MqttPub with      *)
(* config.MqttConfig, which connects at the start, mqtt.PushCallback,      *)
(* which connects again when the connection is lost, and the requests of   *)
(* VueController.mqtt_test that publish.                                   *)
(*                                                                         *)
(* Each connect() makes a new client object.  The objects are numbered in  *)
(* the order they are made, and so are the threads that connect: thread 0  *)
(* starts the application, thread c is the library's, which reports that   *)
(* client c has lost its connection.                                       *)
(***************************************************************************)
EXTENDS Naturals

CONSTANTS Publisher,   \* the requests that publish
          MaxClients   \* the clients that are made (a bound for TLC)

VARIABLES broker,      \* can the broker be reached
          made,        \* the number of clients made
          client,      \* the static field MqttPub.client, 0 for null
          link,        \* link[c]: the connection of a client
          heard,       \* heard[c]: has client c its callback
          subscribed,  \* subscribed[c]: is client c subscribed to test/#
          thread,      \* thread[t]: where it stands in getMqttPub, and the
                       \* client it works on
          request      \* request[p]: where it stands in publish, and the client

vars == <<broker, made, client, link, heard, subscribed, thread, request>>

Client == 1..MaxClients
Thread == 0..MaxClients

\* A loss is reported to the callback, or comes before there is one.
Link == {"new", "connected", "reported", "unheard"}
ThreadPc == {"idle", "create", "connect", "callback", "target", "subscribe", "done"}
RequestPc == {"idle", "publish", "wait"}

TypeOK ==
    /\ broker \in BOOLEAN
    /\ made \in 0..MaxClients
    /\ client \in 0..made
    /\ link \in [Client -> Link]
    /\ heard \in [Client -> BOOLEAN]
    /\ subscribed \in [Client -> BOOLEAN]
    /\ \A t \in Thread : /\ thread[t].at \in ThreadPc
                         /\ thread[t].at \in {"connect", "callback", "subscribe"}
                                => thread[t].client \in 1..made
    /\ \A p \in Publisher : /\ request[p].at \in RequestPc
                            /\ request[p].at # "idle" => request[p].client \in 1..made

Init ==
    /\ broker \in BOOLEAN
    /\ made = 0
    /\ client = 0
    /\ link = [c \in Client |-> "new"]
    /\ heard = [c \in Client |-> FALSE]
    /\ subscribed = [c \in Client |-> FALSE]
    /\ thread = [t \in Thread |-> [at |-> IF t = 0 THEN "create" ELSE "idle", client |-> 0]]
    /\ request = [p \in Publisher |-> [at |-> "idle", client |-> 0]]

-----------------------------------------------------------------------------
\* getMqttPub: connect, then subscribe, in the thread that starts the application
\* or in the one that reports a loss.

Goes(t, pc, c) == thread' = [thread EXCEPT ![t] = [at |-> pc, client |-> c]]

\* A wrong variant: the field keeps the first client.
KeepsClient == client' = IF client = 0 THEN made' ELSE client

SetClient == client' = made'

Creates(t) ==
    /\ thread[t].at = "create"
    /\ made' = made + 1
    /\ SetClient
    /\ Goes(t, "connect", made')
    /\ UNCHANGED <<broker, link, heard, subscribed, request>>

Connects(t) ==
    /\ thread[t].at = "connect"
    /\ broker
    /\ link' = [link EXCEPT ![thread[t].client] = "connected"]
    /\ Goes(t, "callback", thread[t].client)
    /\ UNCHANGED <<broker, made, client, heard, subscribed, request>>

\* The failure is logged; the client stays without a callback.
ConnectFails(t) ==
    /\ thread[t].at = "connect"
    /\ ~broker
    /\ Goes(t, "target", 0)
    /\ UNCHANGED <<broker, made, client, link, heard, subscribed, request>>

SetCallback(t) ==
    /\ thread[t].at = "callback"
    /\ heard' = [heard EXCEPT ![thread[t].client] = TRUE]
    /\ Goes(t, "target", 0)
    /\ UNCHANGED <<broker, made, client, link, subscribed, request>>

\* subscribe reads the field again: it need not find the client just connected.
GetClient(t) ==
    /\ thread[t].at = "target"
    /\ Goes(t, "subscribe", client)
    /\ UNCHANGED <<broker, made, client, link, heard, subscribed, request>>

\* The broker acknowledges, or the client has no connection and the exception is
\* logged.  Without either the call waits.
Subscribe(t) ==
    LET c == thread[t].client
    IN  /\ thread[t].at = "subscribe"
        /\ link[c] = "connected" => broker
        /\ subscribed' = [subscribed EXCEPT ![c] = @ \/ link[c] = "connected"]
        /\ Goes(t, "done", 0)
        /\ UNCHANGED <<broker, made, client, link, heard, request>>

ThreadStep(t) ==
    \/ Creates(t) \/ Connects(t) \/ ConnectFails(t) \/ SetCallback(t)
    \/ GetClient(t) \/ Subscribe(t)

-----------------------------------------------------------------------------
\* A wrong variant: connectionLost only logs.
OnlyLogs(c) == UNCHANGED thread

\* connectionLost: PushCallback's own client field is never set, so that it
\* connects again at every loss.
ConnectionLost(c) == Goes(c, "create", 0)

\* The connection of a client ends, and the callback hears of it, if there is one.
LinkBreaks(c) ==
    /\ link[c] = "connected"
    /\ made < MaxClients
    /\ link' = [link EXCEPT ![c] = IF heard[c] THEN "reported" ELSE "unheard"]
    /\ IF heard[c] THEN ConnectionLost(c) ELSE UNCHANGED thread
    /\ UNCHANGED <<broker, made, client, heard, subscribed, request>>

BrokerGoes ==
    /\ broker' = ~broker
    /\ UNCHANGED <<made, client, link, heard, subscribed, thread, request>>

-----------------------------------------------------------------------------
\* publish: the requests come once the application has started.

Started == thread[0].at = "done"

GetTopic(p) ==
    /\ Started
    /\ request[p].at = "idle"
    /\ request' = [request EXCEPT ![p] = [at |-> "publish", client |-> client]]

\* Without a connection the exception is printed, and the answer is "ok" too.
Publish(p) ==
    /\ request[p].at = "publish"
    /\ request' = [request EXCEPT
                      ![p].at = IF link[request[p].client] = "connected"
                                THEN "wait" ELSE "idle"]

\* waitForCompletion: the message is written, or the connection is lost.
Completes(p) ==
    /\ request[p].at = "wait"
    /\ request' = [request EXCEPT ![p].at = "idle"]

RequestStep(p) ==
    /\ GetTopic(p) \/ Publish(p) \/ Completes(p)
    /\ UNCHANGED <<broker, made, client, link, heard, subscribed, thread>>

Next ==
    \/ \E t \in Thread : ThreadStep(t)
    \/ \E c \in Client : LinkBreaks(c)
    \/ BrokerGoes
    \/ \E p \in Publisher : RequestStep(p)

\* A thread that connects goes on until getMqttPub has returned.
Fairness == \A t \in Thread : WF_vars(ThreadStep(t))

Spec == Init /\ [][Next]_vars
FairSpec == Spec /\ Fairness

-----------------------------------------------------------------------------
Attempting == \E t \in Thread : thread[t].at \notin {"idle", "done"}

\* Once nothing is under way, all clients but the current one are without a
\* connection, and the current one is connected and subscribed unless its attempt
\* to connect failed or its loss came before it had its callback.
SettledLink ==
    ~Attempting =>
        /\ \A c \in Client \ {client} : link[c] # "connected"
        /\ link[client] = "connected" => subscribed[client]
        /\ link[client] # "reported"

\* "After a loss one reconnects here": a reported loss leads to a connection, unless
\* the attempt fails or the next loss comes before the callback is set.
LossIsMended ==
    \A c \in Client :
        c = client /\ link[c] = "reported"
            ~> \E k \in Client : /\ k = client
                                 /\ \/ link[k] = "connected"
                                    \/ link[k] = "new" /\ ~broker
                                    \/ link[k] = "unheard"
=============================================================================
