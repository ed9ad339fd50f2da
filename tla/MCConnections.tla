---------------------------- MODULE MCConnections ----------------------------
(***************************************************************************)
(* What must come to an end or come back, side by side: the connection of  *)
(* the page vue.html, the MQTT connection, and the requests that wait for  *)
(* something else.  The initial state picks the one that runs; the others  *)
(* stand still.                                                            *)
(***************************************************************************)
EXTENDS VueClient, Sequences

CONSTANTS Publisher, MaxClients,
          Redis, Server, Greeter, Greeting, Threads, MaxTries, MaxLines

\* Some client can be made; a port that is free is held by no request.
ASSUME ClientsAssumption == MaxClients \in Nat \ {0} /\ "free" \notin Server

VARIABLES broker, made, client, link, heard, subscribed, thread, request,
          at, count, chat, standard, port, greeted, greeting, topic, down,
          part

Mqtt == INSTANCE MqttPub
Web == INSTANCE WebRequests

mqttVars == <<broker, made, client, link, heard, subscribed, thread, request>>
webVars == <<at, count, chat, standard, port, greeted, greeting, topic, down>>
mcVars == <<vars, mqttVars, webVars, part>>

MCInit ==
    /\ part \in {"page", "mqtt", "requests"}
    /\ Init /\ (part # "page" => websocket = CHOOSE s \in Socket : TRUE)
    /\ Mqtt!Init /\ (part # "mqtt" => broker)
    /\ Web!Init

Page(step) == part = "page" /\ step /\ UNCHANGED <<mqttVars, webVars, part>>
Mqtts(step) == part = "mqtt" /\ step /\ UNCHANGED <<vars, webVars, part>>
Webs(step) == part = "requests" /\ step /\ UNCHANGED <<vars, mqttVars, part>>

MCNext == Page(Next) \/ Mqtts(Mqtt!Next) \/ Webs(Web!Next)

\* The fairness of VueClient, MqttPub and WebRequests.
MCSpec ==
    /\ MCInit /\ [][MCNext]_mcVars
    /\ WF_mcVars(Page(Beat))
    /\ WF_mcVars(Page(ServerTimeout))
    /\ WF_mcVars(Page(\E s \in Socket : InitWebSocket(s)))
    /\ \A s \in Socket :
          WF_mcVars(Page(sock[s] \in {"closing", "connecting"} /\ (Closes(s) \/ Opens(s))))
    /\ \A t \in Mqtt!Thread : WF_mcVars(Mqtts(Mqtt!ThreadStep(t)))
    /\ WF_mcVars(Webs(\E r \in Redis : Web!Publishes(r) \/ Web!RedisReturns(r)))
    /\ SF_mcVars(Webs(Web!Delivers))
    /\ WF_mcVars(Webs(Web!GrpcStep))
    /\ WF_mcVars(Webs(\E m \in Greeting : Web!GreetingStep(m)))

-----------------------------------------------------------------------------
\* MqttPub: once nothing is under way, all clients but the current one are without a
\* connection, and the current one is connected and subscribed unless its attempt to
\* connect failed or its loss came before it had its callback.
SettledLink == Mqtt!SettledLink

\* PushCallback.connectionLost: a reported loss leads to a connection, unless the attempt
\* fails or the next loss comes before the callback is set.
LossIsMended == Mqtt!LossIsMended

\* TsetController.redis, HelloWorldServer, HelloWorldClient and greeting: one request at
\* a time is held by a gRPC server, each that greets it has read a line of its own, each
\* message has one answer, and all other waits end, but for a read of the console that was
\* begun before another request closed it.
WaitsAreSettled ==
    /\ [](Web!OneServerRequest /\ Web!OwnLines /\ Web!AnsweredOnce)
    /\ part = "requests" => Web!WaitsEnd
=============================================================================
