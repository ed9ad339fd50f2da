---------------------------- MODULE WebRequests -----------------------------
(***************************************************************************)
(* Requests that hold a thread of the web server while they wait for       *)
(* something else: GET /test/redis for a message of its own, GET           *)
(* /v1/grpc_s for the end of the gRPC server, GET /v1/grpc_c for a line    *)
(* on standard input and an answer of that server.  The greetings of       *)
(* /stomp.ws wait in a pool of their own.  One step is one call that may   *)
(* wait, or one event that ends the wait.                                  *)
(***************************************************************************)
EXTENDS Naturals, Sequences, FiniteSets

CONSTANTS Redis,      \* requests of GET /test/redis
          Server,     \* requests of GET /v1/grpc_s
          Greeter,    \* requests of GET /v1/grpc_c
          Greeting,   \* messages sent to /app/hello
          Threads,    \* the threads that work on these messages
          MaxTries,   \* how many messages may be lost (a bound for TLC)
          MaxLines    \* how many lines may be typed (a bound for TLC)

VARIABLES at,        \* where each request stands
          count,     \* Receiver's counter
          chat,      \* the messages on the channel, and how many were lost
          standard,  \* standard input: the lines in it, and whether it is open
          port,      \* the request whose gRPC server listens, or "free"
          greeted,   \* the requests that the gRPC server greeted
          greeting,  \* where each STOMP message stands
          topic,     \* what went to /topic/greetings
          down       \* the JVM is shutting down

vars == <<at, count, chat, standard, port, greeted, greeting, topic, down>>

Requests == Redis \cup Server \cup Greeter
Goes(r, to) == at' = [at EXCEPT ![r] = to]

-----------------------------------------------------------------------------
\* redis: while no message was received, publish one and sleep.
Publishes(r) ==
    /\ at[r] = "called" /\ count = 0
    /\ chat.sent = 0  \* a bound for TLC: it is received or lost within the sleep
    /\ chat' = [chat EXCEPT !.sent = 1]
    /\ UNCHANGED <<at, count, standard, port, greeted, greeting, topic, down>>
RedisReturns(r) ==
    /\ at[r] = "called" /\ count # 0
    /\ Goes(r, "returned")
    /\ UNCHANGED <<count, chat, standard, port, greeted, greeting, topic, down>>

\* The listener container calls receiveMessage; a message may be lost.
\* A wrong variant: the message is not counted.
NotCounted == UNCHANGED count
ReceiveMessage == count' = 1  \* only zero or not matters
Delivers ==
    /\ chat.sent = 1
    /\ ReceiveMessage
    /\ chat' = [chat EXCEPT !.sent = 0]
    /\ UNCHANGED <<at, standard, port, greeted, greeting, topic, down>>
Loses ==
    /\ chat.sent = 1 /\ chat.lost < MaxTries
    /\ chat' = [sent |-> 0, lost |-> chat.lost + 1]
    /\ UNCHANGED <<at, count, standard, port, greeted, greeting, topic, down>>

-----------------------------------------------------------------------------
\* grpcS: start fails when the port is taken; the request that started the server waits
\* for its end, blockUntilShutdown.
StartsAndWaits(r) == port' = r /\ Goes(r, "waits")
StartsServer(r) ==
    /\ at[r] = "called" /\ ~down
    /\ IF port = "free" THEN StartsAndWaits(r) ELSE Goes(r, "returned") /\ UNCHANGED port
    /\ UNCHANGED <<count, chat, standard, greeted, greeting, topic, down>>

\* The JVM shuts down: its hook stops the server, and the wait is over.
ShutsDown ==
    /\ ~down /\ down' = TRUE
    /\ port' = "free"
    /\ at' = [r \in Requests |-> IF at[r] = "waits" THEN "returned" ELSE at[r]]
    /\ UNCHANGED <<count, chat, standard, greeted, greeting, topic>>

\* grpcC: nextLine, of a Scanner of the request's own.  All read System.in, whose read holds
\* a monitor: one request waits for a line, the others for that request.  Who comes after
\* the input was closed finds none.
Reading(r) == at[r] = "reads"
EntersRead(r) ==
    /\ at[r] = "called" /\ ~\E q \in Greeter : Reading(q)
    /\ Goes(r, IF standard.open THEN "reads" ELSE "returned")
    /\ UNCHANGED <<count, chat, standard, port, greeted, greeting, topic, down>>

\* The read returns all that was typed.  One that was under way when another request
\* closed the input takes what is typed next too, and gives it to its request or fails.
FindsLine(r) ==
    /\ Reading(r) /\ standard.lines > 0
    /\ standard' = [standard EXCEPT !.lines = 0]
    /\ \E to \in IF standard.open THEN {"line"} ELSE {"line", "returned"} : Goes(r, to)
    /\ UNCHANGED <<count, chat, port, greeted, greeting, topic, down>>

\* close: System.in is closed for all; it does not wait for the monitor.  A read that has
\* not got to the console yet then fails.
Closes(r) ==
    /\ at[r] = "line"
    /\ standard' = [standard EXCEPT !.open = FALSE]
    /\ Goes(r, "read")
    /\ UNCHANGED <<count, chat, port, greeted, greeting, topic, down>>
ReadBreaks(r) ==
    /\ Reading(r) /\ ~standard.open
    /\ Goes(r, "returned")
    /\ UNCHANGED <<count, chat, standard, port, greeted, greeting, topic, down>>

\* greet: the server answers, or the call fails, which is only reported.
Greets(r) ==
    /\ at[r] = "read"
    /\ greeted' = IF port = "free" THEN greeted ELSE greeted \cup {r}
    /\ Goes(r, "returned")
    /\ UNCHANGED <<count, chat, standard, port, greeting, topic, down>>

Types ==
    /\ standard.typed < MaxLines /\ ~down
    /\ standard' = [standard EXCEPT !.typed = @ + 1, !.lines = @ + 1]
    /\ UNCHANGED <<at, count, chat, port, greeted, greeting, topic, down>>

-----------------------------------------------------------------------------
\* hello: a thread takes the message, sleeps, and its answer goes to the topic.
Working == {m \in Greeting : greeting[m] = "sleeps"}
Untaken(m) == greeting[m] = "sent"
TakesGreeting(m) ==
    /\ Untaken(m) /\ Cardinality(Working) < Threads
    /\ greeting' = [greeting EXCEPT ![m] = "sleeps"]
    /\ UNCHANGED <<at, count, chat, standard, port, greeted, topic, down>>
AnswersGreeting(m) ==
    /\ greeting[m] = "sleeps"
    /\ greeting' = [greeting EXCEPT ![m] = "answered"]
    /\ topic' = IF Len(topic) > 2 * Cardinality(Greeting) THEN topic ELSE Append(topic, m)
    /\ UNCHANGED <<at, count, chat, standard, port, greeted, down>>

Init ==
    /\ at = [r \in Requests |-> "called"]
    /\ count = 0 /\ chat = [sent |-> 0, lost |-> 0]
    /\ standard = [lines |-> 0, typed |-> 0, open |-> TRUE]
    /\ port = "free" /\ greeted = {} /\ down = FALSE
    /\ greeting = [m \in Greeting |-> "sent"] /\ topic = <<>>

RedisStep == (\E r \in Redis : Publishes(r) \/ RedisReturns(r)) \/ Delivers \/ Loses
GreetingStep(m) == TakesGreeting(m) \/ AnswersGreeting(m)
GrpcStep == \E r \in Greeter : EntersRead(r) \/ FindsLine(r) \/ Closes(r) \/ Greets(r)
Next ==
    \/ RedisStep
    \/ \E r \in Server : StartsServer(r)
    \/ GrpcStep \/ Types \/ ShutsDown
    \/ \E r \in Greeter : ReadBreaks(r)
    \/ \E m \in Greeting : GreetingStep(m)

\* Threads run; a channel that a message is sent on again and again delivers one.
Fairness ==
    /\ WF_vars(\E r \in Redis : Publishes(r) \/ RedisReturns(r))
    /\ SF_vars(Delivers)
    /\ WF_vars(GrpcStep)
    /\ WF_vars(\E m \in Greeting : GreetingStep(m))

Spec == Init /\ [][Next]_vars /\ Fairness

-----------------------------------------------------------------------------
\* One request at a time is held by a gRPC server: the one whose server has the port.
OneServerRequest == \A r \in Server : at[r] = "waits" <=> port = r

\* Every request that greets has read a line of its own, though all read one input and
\* any of them closes it: lines typed at once go to one request, none goes to two.
HasLine == {r \in Greeter : at[r] \in {"line", "read"}} \cup greeted
OwnLines == Cardinality(HasLine) + standard.lines <= standard.typed

\* The requests that wait for a message return, and every STOMP message is answered.  Once a
\* line was typed the input is closed for good, and those that want a line return too,
\* except that one of them may have begun to read before that: it waits for one more line,
\* and all that have come after it wait with it.
HeldByRead == standard.lines = 0 /\ \E r \in Greeter : Reading(r)
WaitsEnd ==
    /\ <>[](\A r \in Redis : at[r] = "returned")
    /\ <>[](standard.typed > 0 =>
              ~standard.open /\ (HeldByRead \/ \A r \in Greeter : at[r] = "returned"))
    /\ <>[](\A m \in Greeting : greeting[m] = "answered")

\* Answers may leave in another order than their messages came; each leaves once.
AnsweredOnce == \A i, j \in DOMAIN topic : topic[i] = topic[j] => i = j
=============================================================================
