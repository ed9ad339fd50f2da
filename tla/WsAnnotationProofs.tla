-------------------------- MODULE WsAnnotationProofs --------------------------
(***************************************************************************)
(* Theorems about WsAnnotation, for every finite set of connections.       *)
(***************************************************************************)
EXTENDS WsAnnotation, FiniteSetTheorems, SequenceTheorems, TLAPS

\* Some onOpen has taken c out of the set and is about to close its session.
Dropping(c) == \E t \in Client : openPc[t] = "drop" /\ victim[t] = c

\* How the set, the session and the two handlers of a client go together.
Lifecycle ==
    \A c \in Client :
        /\ openPc[c] = "idle" <=> session[c] = "none"
        /\ session[c] = "none" => closePc[c] = "idle" /\ c \notin webSocketSet
        /\ closePc[c] # "idle" => session[c] = "closed" /\ c \notin webSocketSet
        /\ session[c] = "open" => c \in webSocketSet \/ Dropping(c)

\* The clients that have connected.
Known == {c \in Client : session[c] # "none"}

\* Only clients that have connected are visited, written to or dropped.
KnownTargets ==
    /\ \A t \in Client : frames[t] \in Seq(SUBSET Known)
    /\ \A s \in sending : session[s.to] # "none"
    /\ \A t \in Client : openPc[t] = "drop" => session[victim[t]] # "none"

\* A thread of onOpen writes only in its broadcast or in its welcome; onClose
\* never writes.  No thread writes two texts at a time.
WritersOnTheirWay ==
    \A s \in sending :
        /\ s.thread.kind = "onOpen" => s.thread.of \in Client
                                       /\ openPc[s.thread.of] \in {"broadcast", "welcome"}
        /\ s.thread.kind # "onOpen" => s.thread \in Pusher
        /\ \A r \in sending : r.thread = s.thread => r = s

Counted == {c \in Client : openPc[c] \notin {"idle", "count"}}
Uncounted == {c \in Client : closePc[c] = "done"}

\* The counter is what the two handlers have done to it so far.
CountExact == onlineCount = Cardinality(Counted) - Cardinality(Uncounted)

IInv == TypeOK /\ Lifecycle /\ KnownTargets /\ WritersOnTheirWay /\ CountExact

-----------------------------------------------------------------------------
\* Every thread of the model is a thread the container knows.
LEMMA ThreadTypes ==
    /\ Pusher \subseteq Threads
    /\ \A c \in Client : OnOpen(c) \in Threads
BY PusherAssumption DEF Pusher, OnOpen, Thread, Threads, ThreadKind

\* A frame keeps the stack of nested broadcasts a sequence of sets of clients.
LEMMA FrameType ==
    ASSUME NEW S, NEW members \in SUBSET S, NEW rest \in Seq(SUBSET S)
    PROVE  Frame(members, rest) \in Seq(SUBSET S)
<1>1. <<members>> \in Seq(SUBSET S)
  OBVIOUS
<1>2. <<members>> \o rest \in Seq(SUBSET S)
  BY <1>1, ConcatProperties
<1> QED
  BY <1>2 DEF Frame

\* Visiting a client shortens the innermost frame.
LEMMA VisitType ==
    ASSUME NEW S, NEW stack \in Seq(SUBSET S), stack # <<>>, NEW d
    PROVE  Frame(Head(stack) \ {d}, Tail(stack)) \in Seq(SUBSET S)
<1>1. Head(stack) \in SUBSET S /\ Tail(stack) \in Seq(SUBSET S)
  BY HeadTailProperties
<1> QED
  BY <1>1, FrameType

\* Type correctness: every variable of the hub keeps its range, and a broadcast
\* that drops a client knows which one (WsAnnotation.java 150-166).
THEOREM TypeCorrect == Spec => []TypeOK
<1>1. Init => TypeOK
  BY DEF Init, ContainerInit, TypeOK, ContainerTypeOK, SessionState, OpenPc, ClosePc
<1>2. TypeOK /\ [Next]_vars => TypeOK'
  <2> SUFFICES ASSUME TypeOK, [Next]_vars
               PROVE  TypeOK'
    OBVIOUS
  <2> USE DEF TypeOK, ContainerTypeOK, containerVars, hubVars, SessionState,
              OpenPc, ClosePc
  <2>1. ASSUME NEW c \in Client, OnOpenRegister(c)
        PROVE  TypeOK'
    BY <2>1 DEF OnOpenRegister
  <2>2. ASSUME NEW c \in Client, AddOnlineCount(c)
        PROVE  TypeOK'
    BY <2>2 DEF AddOnlineCount
  <2>3. ASSUME NEW c \in Client, Broadcast(c)
        PROVE  TypeOK'
    <3>1. Frame(webSocketSet, frames[c]) \in Seq(SUBSET Client)
      BY FrameType
    <3> QED
      BY <2>3, <3>1 DEF Broadcast
  <2>4. ASSUME NEW c \in Client, NEW d \in Client, BroadcastSend(c, d)
        PROVE  TypeOK'
    <3>1. Frame(Head(frames[c]) \ {d}, Tail(frames[c])) \in Seq(SUBSET Client)
      BY <2>4, VisitType DEF BroadcastSend, Visits
    <3>2. sending' \subseteq [thread : Threads, to : Client]
      BY <2>4, ThreadTypes DEF BroadcastSend, StartText, Text
    <3> QED
      BY <2>4, <3>1, <3>2 DEF BroadcastSend
  <2>5. ASSUME NEW c \in Client, NEW d \in Client, BroadcastRefused(c, d)
        PROVE  TypeOK'
    BY <2>5 DEF BroadcastRefused
  <2>6. ASSUME NEW c \in Client, NEW d \in Client, BroadcastSent(c, d)
        PROVE  TypeOK'
    BY <2>6 DEF BroadcastSent, EndText
  <2>7. ASSUME NEW c \in Client, NEW d \in Client, BroadcastFails(c, d)
        PROVE  TypeOK'
    BY <2>7 DEF BroadcastFails, EndText, Unregister, RememberVictim
  <2>8. ASSUME NEW c \in Client, DropClient(c)
        PROVE  TypeOK'
    BY <2>8 DEF DropClient, Close
  <2>9. ASSUME NEW c \in Client, WelcomeSend(c)
        PROVE  TypeOK'
    <3>1. sending' \subseteq [thread : Threads, to : Client]
      BY <2>9, ThreadTypes DEF WelcomeSend, StartText, Text
    <3> QED
      BY <2>9, <3>1 DEF WelcomeSend
  <2>10. ASSUME NEW c \in Client, WelcomeRefused(c)
         PROVE  TypeOK'
    BY <2>10 DEF WelcomeRefused
  <2>11. ASSUME NEW c \in Client, WelcomeEnds(c)
         PROVE  TypeOK'
    BY <2>11 DEF WelcomeEnds, EndText
  <2>12. ASSUME NEW c \in Client, OnError(c)
         PROVE  TypeOK'
    BY <2>12 DEF OnError, Close
  <2>13. ASSUME NEW c \in Client, OnCloseRemove(c)
         PROVE  TypeOK'
    BY <2>13 DEF OnCloseRemove, Unregister
  <2>14. ASSUME NEW c \in Client, SubOnlineCount(c)
         PROVE  TypeOK'
    BY <2>14 DEF SubOnlineCount, Decrement
  <2>15. ASSUME NEW c \in Client, PeerCloses(c)
         PROVE  TypeOK'
    BY <2>15 DEF PeerCloses, Close
  <2>16. ASSUME NEW c \in Client, PeerLinkBreaks(c)
         PROVE  TypeOK'
    BY <2>16 DEF PeerLinkBreaks, LinkBreaks
  <2>17. ASSUME NEW p \in Pusher, Push(p)
         PROVE  TypeOK'
    BY <2>17 DEF Push
  <2>18. ASSUME NEW p \in Pusher, NEW c \in Client, PushSend(p, c)
         PROVE  TypeOK'
    <3>1. sending' \subseteq [thread : Threads, to : Client]
      BY <2>18, ThreadTypes DEF PushSend, StartText, Text
    <3> QED
      BY <2>18, <3>1 DEF PushSend
  <2>19. ASSUME NEW p \in Pusher, NEW c \in Client, PushRefused(p, c)
         PROVE  TypeOK'
    BY <2>19 DEF PushRefused
  <2>20. ASSUME NEW p \in Pusher, NEW c \in Client, PushEnds(p, c)
         PROVE  TypeOK'
    BY <2>20 DEF PushEnds, EndText
  <2>21. CASE UNCHANGED vars
    BY <2>21 DEF vars
  <2> QED
    BY <2>1, <2>2, <2>3, <2>4, <2>5, <2>6, <2>7, <2>8, <2>9, <2>10, <2>11, <2>12,
       <2>13, <2>14, <2>15, <2>16, <2>17, <2>18, <2>19, <2>20, <2>21
       DEF Next, OpenStep, CloseStep, PushStep
<1> QED
  BY <1>1, <1>2, PTL DEF Spec

-----------------------------------------------------------------------------
\* No step makes a connected client unknown.
LEMMA KnownGrows ==
    ASSUME TypeOK, KnownTargets, [Next]_vars
    PROVE  Known \subseteq Known'
<1> USE DEF Known, TypeOK, ContainerTypeOK, containerVars, hubVars
<1>1. ASSUME NEW c \in Client,
             OnOpenRegister(c) \/ CloseStep(c) \/ PeerCloses(c) \/ PeerLinkBreaks(c)
      PROVE  Known \subseteq Known'
  BY <1>1 DEF OnOpenRegister, CloseStep, OnCloseRemove, SubOnlineCount, PeerCloses,
     Close, PeerLinkBreaks, LinkBreaks
<1>2. ASSUME NEW c \in Client, DropClient(c) \/ OnError(c)
      PROVE  Known \subseteq Known'
  BY <1>2 DEF DropClient, OnError, Close
<1>3. ASSUME NEW c \in Client, OpenStep(c), ~DropClient(c), ~OnError(c)
      PROVE  Known \subseteq Known'
  BY <1>3 DEF OpenStep, AddOnlineCount, Broadcast, BroadcastSend, BroadcastRefused,
     BroadcastSent, BroadcastFails, WelcomeSend, WelcomeRefused, WelcomeEnds
<1>4. ASSUME NEW p \in Pusher, Push(p) \/ PushStep(p)
      PROVE  Known \subseteq Known'
  BY <1>4 DEF Push, PushStep, PushSend, PushRefused, PushEnds
<1>5. CASE UNCHANGED vars
  BY <1>5 DEF vars
<1> QED
  BY <1>1, <1>2, <1>3, <1>4, <1>5 DEF Next

\* A stack over known clients is one over any larger set of clients.
LEMMA StackMonotone ==
    ASSUME NEW S, NEW T, S \subseteq T, NEW stack \in Seq(SUBSET S)
    PROVE  stack \in Seq(SUBSET T)
OBVIOUS

\* A step that starts no text, and neither picks a victim nor a new stack of
\* frames other than the empty one, keeps the targets known.
LEMMA QuietStepKeepsTargets ==
    ASSUME TypeOK, KnownTargets, [Next]_vars, sending' \subseteq sending,
           \A t \in Client : frames'[t] = frames[t] \/ frames'[t] = <<>>,
           \A t \in Client : openPc'[t] = "drop"
                               => openPc[t] = "drop" /\ victim'[t] = victim[t]
    PROVE  KnownTargets'
<1>1. Known \subseteq Known'
  BY KnownGrows
<1>2. \A t \in Client : frames'[t] \in Seq(SUBSET Known')
  <2> SUFFICES ASSUME NEW t \in Client
               PROVE  frames'[t] \in Seq(SUBSET Known')
    OBVIOUS
  <2>1. frames[t] \in Seq(SUBSET Known')
    BY <1>1, StackMonotone DEF KnownTargets
  <2>2. <<>> \in Seq(SUBSET Known')
    OBVIOUS
  <2> QED
    BY <2>1, <2>2
<1>3. \A d \in Client : session[d] # "none" => session'[d] # "none"
  BY <1>1 DEF Known
<1>4. \A s \in sending : s.to \in Client
  BY DEF TypeOK, ContainerTypeOK
<1>5. \A t \in Client : openPc[t] = "drop" => victim[t] \in Client
  BY DEF TypeOK
<1> QED
  BY <1>2, <1>3, <1>4, <1>5 DEF KnownTargets

\* The same for a step that starts a text, which needs an open session.
LEMMA StartKeepsTargets ==
    ASSUME TypeOK, KnownTargets, NEW t, NEW c \in Client, StartText(t, c),
           UNCHANGED session, \A d \in Client : frames'[d] \in Seq(SUBSET Known),
           \A d \in Client : openPc'[d] = "drop"
                               => openPc[d] = "drop" /\ victim'[d] = victim[d]
    PROVE  KnownTargets'
<1>1. Known' = Known /\ session[c] # "none"
  BY DEF Known, StartText, CanWrite
<1>2. \A s \in sending' : s \in sending \/ s.to = c
  BY DEF StartText, Text
<1> QED
  BY <1>1, <1>2 DEF KnownTargets

\* Every step keeps the targets known (WsAnnotation.java 45-60, 95-104, 150-166).
LEMMA StepKeepsTargets ==
    ASSUME TypeOK, KnownTargets, Lifecycle, [Next]_vars
    PROVE  KnownTargets'
<1> USE DEF TypeOK, containerVars, hubVars
<1>1. ASSUME NEW c \in Client, OnOpenRegister(c) \/ AddOnlineCount(c)
      PROVE  KnownTargets'
  BY <1>1, QuietStepKeepsTargets DEF OnOpenRegister, AddOnlineCount
<1>2. ASSUME NEW c \in Client, Broadcast(c)
      PROVE  KnownTargets'
  <2>1. Known' = Known /\ webSocketSet \subseteq Known
    BY <1>2 DEF Broadcast, Known, Lifecycle
  <2>2. Frame(webSocketSet, frames[c]) \in Seq(SUBSET Known)
    BY <2>1, FrameType DEF KnownTargets
  <2> QED
    BY <1>2, <2>1, <2>2 DEF Broadcast, KnownTargets
<1>3. ASSUME NEW c \in Client, NEW d \in Client, BroadcastSend(c, d)
      PROVE  KnownTargets'
  <2>1. Frame(Head(frames[c]) \ {d}, Tail(frames[c])) \in Seq(SUBSET Known)
    BY <1>3, VisitType DEF BroadcastSend, Visits, KnownTargets
  <2> QED
    BY <1>3, <2>1, StartKeepsTargets DEF BroadcastSend, KnownTargets
<1>4. ASSUME NEW c \in Client, NEW d \in Client,
             BroadcastRefused(c, d) \/ BroadcastSent(c, d)
      PROVE  KnownTargets'
  BY <1>4, QuietStepKeepsTargets DEF BroadcastRefused, BroadcastSent, EndText
<1>5. ASSUME NEW c \in Client, NEW d \in Client, BroadcastFails(c, d)
      PROVE  KnownTargets'
  <2>1. Known' = Known /\ session'[d] # "none"
    BY <1>5 DEF BroadcastFails, EndText, Text, Known, KnownTargets
  <2> QED
    BY <1>5, <2>1 DEF BroadcastFails, EndText, RememberVictim, KnownTargets
<1>6. ASSUME NEW c \in Client,
             DropClient(c) \/ OnError(c) \/ PeerCloses(c) \/ PeerLinkBreaks(c)
      PROVE  KnownTargets'
  BY <1>6, QuietStepKeepsTargets DEF DropClient, OnError, PeerCloses, PeerLinkBreaks,
     LinkBreaks
<1>7. ASSUME NEW c \in Client, WelcomeSend(c)
      PROVE  KnownTargets'
  BY <1>7, StartKeepsTargets DEF WelcomeSend, KnownTargets
<1>8. ASSUME NEW c \in Client,
             WelcomeRefused(c) \/ WelcomeEnds(c) \/ CloseStep(c)
      PROVE  KnownTargets'
  BY <1>8, QuietStepKeepsTargets DEF WelcomeRefused, WelcomeEnds, EndText, CloseStep,
     OnCloseRemove, SubOnlineCount
<1>9. ASSUME NEW p \in Pusher, NEW c \in Client, PushSend(p, c)
      PROVE  KnownTargets'
  BY <1>9, StartKeepsTargets DEF PushSend, KnownTargets
<1>10. ASSUME NEW p \in Pusher, NEW c \in Client,
              PushRefused(p, c) \/ PushEnds(p, c)
       PROVE  KnownTargets'
  BY <1>10, QuietStepKeepsTargets DEF PushRefused, PushEnds, EndText
<1>11. ASSUME NEW p \in Pusher, Push(p)
       PROVE  KnownTargets'
  BY <1>11, QuietStepKeepsTargets DEF Push
<1>12. CASE UNCHANGED vars
  BY <1>12, QuietStepKeepsTargets DEF vars
<1> QED
  BY <1>1, <1>2, <1>3, <1>4, <1>5, <1>6, <1>7, <1>8, <1>9, <1>10, <1>11, <1>12
     DEF Next, OpenStep, PushStep

\* A step that moves no session, no handler out of "idle" and no endpoint keeps
\* the life cycle if it leaves the dropped clients dropped.
LEMMA QuietStepKeepsLifecycle ==
    ASSUME Lifecycle, UNCHANGED <<session, webSocketSet, closePc>>,
           \A e \in Client : openPc[e] = "idle" <=> openPc'[e] = "idle",
           \A e \in Client : Dropping(e) => Dropping(e)'
    PROVE  Lifecycle'
BY DEF Lifecycle

\* Every step keeps the life cycle (onOpen 45-49, onClose 68-69, broadcast 156-163).
LEMMA StepKeepsLifecycle ==
    ASSUME TypeOK, KnownTargets, Lifecycle, [Next]_vars
    PROVE  Lifecycle'
<1> USE DEF Lifecycle, Dropping, TypeOK, ContainerTypeOK, containerVars, hubVars
<1>1. ASSUME NEW c \in Client, OnOpenRegister(c)
      PROVE  Lifecycle'
  BY <1>1 DEF OnOpenRegister
<1>2. ASSUME NEW c \in Client, AddOnlineCount(c) \/ Broadcast(c)
      PROVE  Lifecycle'
  <2>1. /\ openPc[c] \in {"count", "join", "announce"}
        /\ openPc'[c] \in {"join", "broadcast"}
        /\ \A t \in Client : t # c => openPc'[t] = openPc[t]
        /\ \A t \in Client : t # c => victim'[t] = victim[t]
        /\ UNCHANGED <<session, webSocketSet, closePc>>
    BY <1>2 DEF AddOnlineCount, Broadcast
  <2>2. ASSUME NEW e \in Client, Dropping(e)
        PROVE  Dropping(e)'
    <3>1. PICK t \in Client : openPc[t] = "drop" /\ victim[t] = e
      BY <2>2
    <3>2. t # c
      BY <2>1, <3>1
    <3> QED
      BY <2>1, <3>1, <3>2
  <2>3. \A e \in Client : openPc[e] = "idle" <=> openPc'[e] = "idle"
    BY <2>1
  <2> QED
    BY <2>1, <2>2, <2>3, QuietStepKeepsLifecycle
<1>3. ASSUME NEW c \in Client, NEW d \in Client,
             BroadcastSend(c, d) \/ BroadcastRefused(c, d) \/ BroadcastSent(c, d)
      PROVE  Lifecycle'
  BY <1>3 DEF BroadcastSend, BroadcastRefused, BroadcastSent, StartText, EndText, Visits
<1>4. ASSUME NEW c \in Client, NEW d \in Client, BroadcastFails(c, d)
      PROVE  Lifecycle'
  <2>1. /\ openPc[c] = "broadcast"
        /\ openPc' = [openPc EXCEPT ![c] = "drop"]
        /\ victim' = [victim EXCEPT ![c] = d]
        /\ webSocketSet' = webSocketSet \ {d}
        /\ UNCHANGED <<session, closePc>>
    BY <1>4 DEF BroadcastFails, RememberVictim, Unregister
  <2>2. Dropping(d)'
    BY <2>1
  <2>3. ASSUME NEW e \in Client, Dropping(e)
        PROVE  Dropping(e)'
    BY <2>1, <2>3
  <2> QED
    BY <2>1, <2>2, <2>3
<1>5. ASSUME NEW c \in Client, DropClient(c)
      PROVE  Lifecycle'
  <2>1. /\ openPc[c] = "drop"
        /\ openPc' = [openPc EXCEPT ![c] = "announce"]
        /\ session' = [session EXCEPT ![victim[c]] = "closed"]
        /\ UNCHANGED <<victim, webSocketSet, closePc>>
    BY <1>5 DEF DropClient, Close
  <2>2. victim[c] \in Client /\ session[victim[c]] # "none"
    BY <2>1 DEF KnownTargets
  <2>3. ASSUME NEW e \in Client, Dropping(e), e # victim[c]
        PROVE  Dropping(e)'
    BY <2>1, <2>3
  <2> QED
    BY <2>1, <2>2, <2>3
<1>6. ASSUME NEW c \in Client, WelcomeSend(c) \/ WelcomeRefused(c) \/ WelcomeEnds(c)
      PROVE  Lifecycle'
  BY <1>6 DEF WelcomeSend, WelcomeRefused, WelcomeEnds, StartText, EndText, BroadcastDone
<1>7. ASSUME NEW c \in Client, OnError(c) \/ PeerCloses(c)
      PROVE  Lifecycle'
  <2>1. /\ session[c] # "none" /\ openPc[c] # "idle"
        /\ session' = [session EXCEPT ![c] = "closed"] \/ UNCHANGED session
        /\ UNCHANGED <<victim, webSocketSet, closePc>>
    BY <1>7 DEF OnError, PeerCloses, Close
  <2>2. \/ UNCHANGED openPc
        \/ openPc[c] = "failed" /\ openPc' = [openPc EXCEPT ![c] = "done"]
    BY <1>7 DEF OnError, PeerCloses
  <2>3. ASSUME NEW e \in Client, Dropping(e)
        PROVE  Dropping(e)'
    BY <2>1, <2>2, <2>3
  <2>4. \A e \in Client : openPc[e] = "idle" <=> openPc'[e] = "idle"
    BY <2>2
  <2>5. /\ \A e \in Client : session'[e] = "none" <=> session[e] = "none"
        /\ \A e \in Client : session[e] = "closed" => session'[e] = "closed"
        /\ \A e \in Client : session'[e] = "open" => session[e] = "open"
    BY <2>1
  <2> HIDE DEF Dropping
  <2>6. closePc' = closePc /\ webSocketSet' = webSocketSet
    BY <2>1
  <2> QED
    BY <2>3, <2>4, <2>5, <2>6
<1>8. ASSUME NEW c \in Client, OnCloseRemove(c) \/ SubOnlineCount(c)
      PROVE  Lifecycle'
  BY <1>8 DEF OnCloseRemove, SubOnlineCount, Unregister, ClosePc
<1>9. ASSUME NEW c \in Client, PeerLinkBreaks(c)
      PROVE  Lifecycle'
  BY <1>9 DEF PeerLinkBreaks, LinkBreaks
<1>10. ASSUME NEW p \in Pusher, Push(p) \/ PushStep(p)
       PROVE  Lifecycle'
  BY <1>10 DEF Push, PushStep, PushSend, PushRefused, PushEnds, StartText, EndText
<1>11. CASE UNCHANGED vars
  BY <1>11 DEF vars
<1> QED
  BY <1>1, <1>2, <1>3, <1>4, <1>5, <1>6, <1>7, <1>8, <1>9, <1>10, <1>11
     DEF Next, OpenStep, CloseStep

\* A thread inside onOpen that is not in its broadcast or welcome is not writing.
LEMMA NotWriting ==
    ASSUME TypeOK, WritersOnTheirWay, NEW c \in Client,
           openPc[c] \notin {"broadcast", "welcome"}
    PROVE  ~Sending(OnOpen(c))
BY DEF WritersOnTheirWay, Sending, OnOpen, Thread

\* Ending its only text leaves a thread without any.
LEMMA EndedText ==
    ASSUME WritersOnTheirWay, NEW t, NEW c, EndText(t, c)
    PROVE  ~Sending(t)'
BY DEF WritersOnTheirWay, EndText, Sending, Text

\* A step of onOpen that starts no text keeps the writers in place, if onOpen
\* is not writing after it.
LEMMA SilentStepKeepsWriters ==
    ASSUME TypeOK, WritersOnTheirWay, NEW c \in Client,
           sending' \subseteq sending, ~Sending(OnOpen(c))',
           \A t \in Client : t # c => openPc'[t] = openPc[t]
    PROVE  WritersOnTheirWay'
<1>1. ASSUME NEW s \in sending', s.thread.kind = "onOpen"
      PROVE  s.thread.of # c
  BY <1>1 DEF Sending, OnOpen, Thread, Threads, TypeOK, ContainerTypeOK
<1> QED
  BY <1>1 DEF WritersOnTheirWay

\* A step that moves no onOpen and starts no text keeps the writers in place.
LEMMA OtherStepKeepsWriters ==
    ASSUME WritersOnTheirWay, sending' \subseteq sending, openPc' = openPc
    PROVE  WritersOnTheirWay'
BY DEF WritersOnTheirWay

\* Starting a text keeps the writers in place when the thread has none under way.
LEMMA StartKeepsWriters ==
    ASSUME WritersOnTheirWay, NEW t, NEW c, StartText(t, c), ~Sending(t),
           \/ t \in Pusher /\ t.kind # "onOpen" /\ openPc' = openPc
           \/ t.kind = "onOpen" /\ t.of \in Client
              /\ openPc'[t.of] \in {"broadcast", "welcome"}
              /\ \A d \in Client : d # t.of => openPc'[d] = openPc[d]
    PROVE  WritersOnTheirWay'
<1>1. sending' = sending \cup {[thread |-> t, to |-> c]}
  BY DEF StartText, Text
<1>2. \A s \in sending : s.thread # t
  BY DEF Sending
<1> QED
  BY <1>1, <1>2 DEF WritersOnTheirWay

\* Every step keeps the writers in place: a text belongs to a thread at its send.
LEMMA StepKeepsWriters ==
    ASSUME TypeOK, WritersOnTheirWay, Lifecycle, [Next]_vars
    PROVE  WritersOnTheirWay'
<1> USE DEF TypeOK, containerVars, hubVars
<1>1. ASSUME NEW c \in Client,
             \/ OnOpenRegister(c) \/ AddOnlineCount(c) \/ Broadcast(c)
             \/ DropClient(c) \/ OnError(c)
      PROVE  WritersOnTheirWay'
  <2>1. openPc[c] \notin {"broadcast", "welcome"}
    BY <1>1 DEF OnOpenRegister, AddOnlineCount, Broadcast, DropClient, OnError, Lifecycle
  <2>2. /\ sending' = sending
        /\ \A t \in Client : t # c => openPc'[t] = openPc[t]
    BY <1>1 DEF OnOpenRegister, AddOnlineCount, Broadcast, DropClient, OnError
  <2>3. ~Sending(OnOpen(c))'
    BY <2>1, <2>2, NotWriting DEF Sending, OnOpen, Thread
  <2> QED
    BY <2>2, <2>3, SilentStepKeepsWriters
<1>2. ASSUME NEW c \in Client, NEW d \in Client, BroadcastSend(c, d)
      PROVE  WritersOnTheirWay'
  BY <1>2, StartKeepsWriters DEF BroadcastSend, Visits, OnOpen, Thread
<1>3. ASSUME NEW c \in Client, NEW d \in Client, BroadcastRefused(c, d)
      PROVE  WritersOnTheirWay'
  <2>1. ~Sending(OnOpen(c))'
    BY <1>3 DEF BroadcastRefused, Visits, Sending, OnOpen, Thread
  <2> QED
    BY <1>3, <2>1, SilentStepKeepsWriters DEF BroadcastRefused
<1>4. ASSUME NEW c \in Client, NEW d \in Client,
             BroadcastSent(c, d) \/ BroadcastFails(c, d)
      PROVE  WritersOnTheirWay'
  <2>1. EndText(OnOpen(c), d) /\ \A t \in Client : t # c => openPc'[t] = openPc[t]
    BY <1>4 DEF BroadcastSent, BroadcastFails
  <2>2. sending' \subseteq sending /\ ~Sending(OnOpen(c))'
    BY <2>1, EndedText DEF EndText
  <2> QED
    BY <2>1, <2>2, SilentStepKeepsWriters
<1>5. ASSUME NEW c \in Client, WelcomeSend(c)
      PROVE  WritersOnTheirWay'
  BY <1>5, StartKeepsWriters DEF WelcomeSend, BroadcastDone, OnOpen, Thread
<1>6. ASSUME NEW c \in Client, WelcomeRefused(c)
      PROVE  WritersOnTheirWay'
  <2>1. ~Sending(OnOpen(c))'
    BY <1>6 DEF WelcomeRefused, BroadcastDone, Sending, OnOpen, Thread
  <2> QED
    BY <1>6, <2>1, SilentStepKeepsWriters DEF WelcomeRefused
<1>7. ASSUME NEW c \in Client, WelcomeEnds(c)
      PROVE  WritersOnTheirWay'
  <2>1. EndText(OnOpen(c), c) /\ \A t \in Client : t # c => openPc'[t] = openPc[t]
    BY <1>7 DEF WelcomeEnds
  <2>2. sending' \subseteq sending /\ ~Sending(OnOpen(c))'
    BY <2>1, EndedText DEF EndText
  <2> QED
    BY <2>1, <2>2, SilentStepKeepsWriters
<1>8. ASSUME NEW c \in Client,
             CloseStep(c) \/ PeerCloses(c) \/ PeerLinkBreaks(c)
      PROVE  WritersOnTheirWay'
  BY <1>8, OtherStepKeepsWriters
     DEF CloseStep, OnCloseRemove, SubOnlineCount, PeerCloses, PeerLinkBreaks, LinkBreaks
<1>9. ASSUME NEW p \in Pusher, NEW c \in Client, PushSend(p, c)
      PROVE  WritersOnTheirWay'
  <2>1. p.kind # "onOpen"
    BY PusherAssumption DEF Pusher, Thread
  <2> QED
    BY <1>9, <2>1, StartKeepsWriters DEF PushSend, PushVisits
<1>10. ASSUME NEW p \in Pusher, NEW c \in Client,
              PushRefused(p, c) \/ PushEnds(p, c)
       PROVE  WritersOnTheirWay'
  BY <1>10, OtherStepKeepsWriters DEF PushRefused, PushEnds, EndText
<1>11. CASE UNCHANGED vars
  BY <1>11, OtherStepKeepsWriters DEF vars
<1>12. ASSUME NEW p \in Pusher, Push(p)
       PROVE  WritersOnTheirWay'
  BY <1>12, OtherStepKeepsWriters DEF Push
<1> QED
  BY <1>1, <1>2, <1>3, <1>4, <1>5, <1>6, <1>7, <1>8, <1>9, <1>10, <1>11, <1>12
     DEF Next, OpenStep, PushStep

-----------------------------------------------------------------------------
\* The sets the counter is compared with are finite.
LEMMA CountsFinite ==
    /\ IsFiniteSet(Counted) /\ Cardinality(Counted) \in Nat
    /\ IsFiniteSet(Uncounted) /\ Cardinality(Uncounted) \in Nat
BY ClientAssumption, FS_Subset, FS_CardinalityType DEF Counted, Uncounted

\* A step that counts nobody in or out.
LEMMA IdleStepKeepsCount ==
    ASSUME CountExact, onlineCount' = onlineCount, Counted' = Counted,
           Uncounted' = Uncounted
    PROVE  CountExact'
BY DEF CountExact

\* Every step keeps the counter exact (lines 47 and 69, 172-178).
LEMMA StepKeepsCount ==
    ASSUME TypeOK, Lifecycle, CountExact, [Next]_vars
    PROVE  CountExact'
<1> USE DEF TypeOK, containerVars, hubVars
<1>1. ASSUME NEW c \in Client, AddOnlineCount(c)
      PROVE  CountExact'
  <2>1. onlineCount' = onlineCount + 1 /\ Uncounted' = Uncounted
    BY <1>1 DEF AddOnlineCount, Uncounted
  <2>2. c \notin Counted /\ Counted' = Counted \cup {c}
    BY <1>1 DEF AddOnlineCount, Counted
  <2>3. Cardinality(Counted') = Cardinality(Counted) + 1
    BY <2>2, CountsFinite, FS_AddElement
  <2> QED
    BY <2>1, <2>3, CountsFinite DEF CountExact
<1>2. ASSUME NEW c \in Client, SubOnlineCount(c)
      PROVE  CountExact'
  <2>1. onlineCount' = onlineCount - 1 /\ Counted' = Counted
    BY <1>2 DEF SubOnlineCount, Decrement, Counted
  <2>2. c \notin Uncounted /\ Uncounted' = Uncounted \cup {c}
    BY <1>2 DEF SubOnlineCount, Uncounted
  <2>3. Cardinality(Uncounted') = Cardinality(Uncounted) + 1
    BY <2>2, CountsFinite, FS_AddElement
  <2> QED
    BY <2>1, <2>3, CountsFinite DEF CountExact
<1>3. ASSUME NEW c \in Client, OnOpenRegister(c)
      PROVE  CountExact'
  <2>1. openPc[c] = "idle" /\ openPc' = [openPc EXCEPT ![c] = "count"]
        /\ onlineCount' = onlineCount /\ closePc' = closePc
    BY <1>3 DEF OnOpenRegister, Lifecycle
  <2>2. Counted' = Counted /\ Uncounted' = Uncounted
    BY <2>1 DEF Counted, Uncounted
  <2> QED
    BY <2>1, <2>2, IdleStepKeepsCount
<1>4. ASSUME NEW c \in Client, OpenStep(c), ~AddOnlineCount(c)
      PROVE  CountExact'
  <2> DEFINE Moves ==
               /\ openPc[c] \notin {"idle", "count"} /\ openPc'[c] \notin {"idle", "count"}
               /\ \A t \in Client : t # c => openPc'[t] = openPc[t]
               /\ onlineCount' = onlineCount /\ closePc' = closePc
  <2>1. Moves
    <3>1. CASE Broadcast(c) \/ DropClient(c) \/ OnError(c)
      BY <3>1 DEF Broadcast, DropClient, OnError
    <3>2. CASE WelcomeSend(c) \/ WelcomeRefused(c) \/ WelcomeEnds(c)
      BY <3>2 DEF WelcomeSend, WelcomeRefused, WelcomeEnds, BroadcastDone
    <3>3. ASSUME NEW d \in Client, BroadcastSend(c, d) \/ BroadcastRefused(c, d)
          PROVE  Moves
      BY <3>3 DEF BroadcastSend, BroadcastRefused, Visits
    <3>4. ASSUME NEW d \in Client, BroadcastSent(c, d) \/ BroadcastFails(c, d)
          PROVE  Moves
      BY <3>4 DEF BroadcastSent, BroadcastFails
    <3> QED
      BY <1>4, <3>1, <3>2, <3>3, <3>4 DEF OpenStep
  <2>2. Counted' = Counted /\ Uncounted' = Uncounted
    BY <2>1 DEF Counted, Uncounted
  <2> QED
    BY <2>1, <2>2, IdleStepKeepsCount
<1>5. ASSUME NEW c \in Client, OnCloseRemove(c)
      PROVE  CountExact'
  <2>1. Counted' = Counted /\ Uncounted' = Uncounted /\ onlineCount' = onlineCount
    BY <1>5 DEF OnCloseRemove, Counted, Uncounted
  <2> QED
    BY <2>1, IdleStepKeepsCount
<1>6. ASSUME UNCHANGED <<onlineCount, openPc, closePc>>
      PROVE  CountExact'
  BY <1>6, IdleStepKeepsCount DEF Counted, Uncounted
<1>7. ASSUME NEW c \in Client, PeerCloses(c) \/ PeerLinkBreaks(c)
      PROVE  CountExact'
  BY <1>6, <1>7 DEF PeerCloses, PeerLinkBreaks
<1>8. ASSUME NEW p \in Pusher, Push(p) \/ PushStep(p)
      PROVE  CountExact'
  BY <1>6, <1>8 DEF Push, PushStep, PushSend, PushRefused, PushEnds
<1>9. CASE UNCHANGED vars
  BY <1>6, <1>9 DEF vars
<1> QED
  BY <1>1, <1>2, <1>3, <1>4, <1>5, <1>7, <1>8, <1>9 DEF Next, CloseStep

\* The inductive invariant holds of every behaviour.
LEMMA Invariance == Spec => []IInv
<1>1. Init => IInv
  <2> SUFFICES ASSUME Init
               PROVE  Lifecycle /\ KnownTargets /\ WritersOnTheirWay /\ CountExact
    BY DEF IInv, Init, ContainerInit, TypeOK, ContainerTypeOK, SessionState, OpenPc, ClosePc
  <2>1. Lifecycle /\ KnownTargets /\ WritersOnTheirWay
    BY DEF Init, ContainerInit, Lifecycle, KnownTargets, WritersOnTheirWay
  <2>2. Counted = {} /\ Uncounted = {} /\ onlineCount = 0
    BY DEF Init, Counted, Uncounted
  <2>3. CountExact
    BY <2>2, FS_EmptySet DEF CountExact
  <2> QED
    BY <2>1, <2>3
<1>2. IInv /\ TypeOK' /\ [Next]_vars => IInv'
  BY StepKeepsTargets, StepKeepsLifecycle, StepKeepsWriters, StepKeepsCount DEF IInv
<1> QED
  BY <1>1, <1>2, TypeCorrect, PTL DEF Spec

\* The hub settles: once no handler is running, the registered endpoints are
\* the open sessions and onlineCount is their number, whatever overlapped
\* before (onOpen 43-60, onClose 65-75, the catch block of broadcast 156-164).
THEOREM SettledHub == Spec => []HubSettles
<1>1. ASSUME IInv, Quiescent
      PROVE  /\ webSocketSet = {c \in Client : session[c] = "open"}
             /\ onlineCount = Cardinality(webSocketSet)
  <2> DEFINE Opened == {c \in Client : session[c] = "open"}
  <2>1. webSocketSet = Opened
    BY <1>1 DEF IInv, TypeOK, ContainerTypeOK, SessionState, Lifecycle, Dropping, Quiescent
  <2>2. Opened = Counted \ Uncounted /\ Uncounted \subseteq Counted
    BY <1>1 DEF IInv, TypeOK, ContainerTypeOK, SessionState, Lifecycle, Quiescent,
                Counted, Uncounted
  <2>3. Counted \cap Uncounted = Uncounted
    BY <2>2
  <2>4. Cardinality(Opened) = Cardinality(Counted) - Cardinality(Uncounted)
    BY <2>2, <2>3, CountsFinite, FS_Difference
  <2> QED
    BY <1>1, <2>1, <2>4 DEF IInv, CountExact
<1>2. IInv => HubSettles
  BY <1>1 DEF HubSettles
<1> QED
  BY <1>2, Invariance, PTL

\* The clients with an open session, those between webSocketSet.add and addOnlineCount
\* (lines 46 and 47), and those whose session is closed while subOnlineCount of their
\* onClose (line 69) is still to come.
Open == {c \in Client : session[c] = "open"}
NotYetCounted == {c \in Client : openPc[c] = "count"}
NotYetSubtracted == {c \in Client : session[c] = "closed" /\ closePc[c] # "done"}

\* Clients of one sort and of another are counted together.
LEMMA DisjointCounts ==
    ASSUME NEW S \in SUBSET Client, NEW T \in SUBSET Client, S \cap T = {}
    PROVE  /\ Cardinality(S) \in Nat /\ Cardinality(T) \in Nat
           /\ Cardinality(S \cup T) = Cardinality(S) + Cardinality(T)
<1>1. IsFiniteSet(S) /\ IsFiniteSet(T)
  BY ClientAssumption, FS_Subset
<1>2. Cardinality(S \cap T) = 0
  BY FS_EmptySet
<1>3. Cardinality(S \cup T) = Cardinality(S) + Cardinality(T) - Cardinality(S \cap T)
  BY <1>1, FS_Union
<1> QED
  BY <1>1, <1>2, <1>3, FS_CardinalityType

\* How far the counter is from the truth at any moment: the number of connections that it
\* shows (lines 47, 69, 172-178) is that of the open sessions, more by those that are closed
\* and not yet subtracted, and less by those that are registered and not yet counted.
\* Nothing else makes it wrong, and a run shows it below zero.
THEOREM OnlineCountLag ==
    Spec => [](onlineCount = Cardinality(Open) + Cardinality(NotYetSubtracted)
                                 - Cardinality(NotYetCounted))
<1>1. ASSUME IInv
      PROVE  onlineCount = Cardinality(Open) + Cardinality(NotYetSubtracted)
                               - Cardinality(NotYetCounted)
  <2> USE <1>1 DEF IInv
  <2>1. Counted \cup NotYetCounted = Known /\ Counted \cap NotYetCounted = {}
    BY DEF TypeOK, ContainerTypeOK, SessionState, OpenPc, Lifecycle, Counted,
           NotYetCounted, Known
  <2>2. (Open \cup NotYetSubtracted) \cup Uncounted = Known
        /\ (Open \cup NotYetSubtracted) \cap Uncounted = {}
        /\ Open \cap NotYetSubtracted = {}
    BY DEF TypeOK, ContainerTypeOK, SessionState, ClosePc, Lifecycle, Open,
           NotYetSubtracted, Uncounted, Known
  <2>3. /\ Open \in SUBSET Client /\ NotYetSubtracted \in SUBSET Client
        /\ Open \cup NotYetSubtracted \in SUBSET Client
        /\ Counted \in SUBSET Client /\ NotYetCounted \in SUBSET Client
        /\ Uncounted \in SUBSET Client
    BY DEF Open, NotYetSubtracted, Counted, NotYetCounted, Uncounted
  <2>4. Cardinality(Known) = Cardinality(Counted) + Cardinality(NotYetCounted)
        /\ Cardinality(Counted) \in Nat /\ Cardinality(NotYetCounted) \in Nat
    BY <2>1, <2>3, DisjointCounts
  <2>5. Cardinality(Known) = Cardinality(Open \cup NotYetSubtracted) + Cardinality(Uncounted)
        /\ Cardinality(Uncounted) \in Nat
    BY <2>2, <2>3, DisjointCounts
  <2>6. Cardinality(Open \cup NotYetSubtracted)
            = Cardinality(Open) + Cardinality(NotYetSubtracted)
        /\ Cardinality(Open) \in Nat /\ Cardinality(NotYetSubtracted) \in Nat
    BY <2>2, <2>3, DisjointCounts
  <2>7. onlineCount = Cardinality(Counted) - Cardinality(Uncounted)
    BY DEF CountExact
  <2> HIDE DEF IInv
  <2> QED
    BY <2>4, <2>5, <2>6, <2>7
<1> QED
  BY <1>1, Invariance, PTL

-----------------------------------------------------------------------------
\* A text is refused on an open session only when somebody is writing to it.
LEMMA RefusedWhileWritten ==
    ASSUME NEW c, ~CanWrite(c), session[c] = "open"
    PROVE  \E s \in WritersTo(c) : TRUE
BY DEF CanWrite

\* sendInfo passes over an open member only while a writer without the session
\* monitor is sending to it: a broadcast (150-166) or GET /v1/ws, and never
\* another sendMessageObj (139-148).
THEOREM SkipsHaveACause == Spec => SkippedOnlyForUnlockedWriter
<1> DEFINE Skips == \A p \in InfoPusher, c \in Client :
          c \in todo[p] /\ c \notin todo'[p] /\ session[c] = "open"
             => \/ Text(p, c) \in sending'
                \/ \E s \in WritersTo(c) : s.thread = Request \/ HoldsEndpoint(s.thread)
<1>1. ASSUME IInv, [Next]_vars, NEW p \in InfoPusher, NEW c \in Client,
             c \in todo[p], c \notin todo'[p], session[c] = "open",
             Text(p, c) \notin sending'
      PROVE  \E s \in WritersTo(c) : s.thread = Request \/ HoldsEndpoint(s.thread)
  <2> USE DEF containerVars, hubVars
  <2>1. p \in Pusher /\ p # Request
    BY DEF InfoPusher, Request, Thread
  <2>2. todo' # todo
    BY <1>1
  <2>3. PICK q \in Pusher : Push(q) \/ PushStep(q)
    BY <1>1, <2>2 DEF Next, vars, OnOpenRegister, OpenStep, CloseStep, PeerCloses,
       PeerLinkBreaks, AddOnlineCount, Broadcast, BroadcastSend, BroadcastRefused,
       BroadcastSent, BroadcastFails, DropClient, WelcomeSend, WelcomeRefused,
       WelcomeEnds, OnError, OnCloseRemove, SubOnlineCount
  <2>4. ~Push(q)
    BY <1>1, <2>1 DEF Push, Idle, IInv, TypeOK
  <2>5. PICK d \in Client : PushSend(q, d) \/ PushRefused(q, d)
    BY <2>2, <2>3, <2>4 DEF PushStep, PushEnds
  <2>6. q = p /\ d = c
    BY <1>1, <2>1, <2>5 DEF PushSend, PushRefused, IInv, TypeOK
  <2>7. PushRefused(p, c)
    BY <1>1, <2>5, <2>6 DEF PushSend, StartText
  <2>8. PICK s \in WritersTo(c) : ~HoldsSession(s.thread)
    BY <1>1, <2>7, RefusedWhileWritten DEF PushRefused, PushVisits, SessionMonitorFree
  <2>9. s \in sending
    BY <2>8 DEF WritersTo
  <2>10. CASE s.thread.kind = "onOpen"
    BY <1>1, <2>8, <2>9, <2>10 DEF IInv, WritersOnTheirWay, HoldsSession, HoldsEndpoint
  <2>11. CASE s.thread.kind # "onOpen"
    <3>1. s.thread \in Pusher /\ s.thread.kind \notin {"timer", "onMessage"}
      BY <1>1, <2>8, <2>9, <2>11 DEF IInv, WritersOnTheirWay, HoldsSession
    <3>2. s.thread = Request
      BY <3>1, PusherAssumption DEF Pusher, Thread, Request
    <3> QED
      BY <2>8, <3>2
  <2> QED
    BY <2>10, <2>11
<1>2. IInv /\ [Next]_vars => [Skips]_vars
  BY <1>1
<1> QED
  BY <1>2, Invariance, PTL DEF Spec, SkippedOnlyForUnlockedWriter

\* A joining broadcast (line 49) throws only over a member closed under it or
\* one a sender without the endpoint monitor is writing to.
THEOREM JoinFailuresHaveACause == Spec => JoinFailsOnlyForACause
<1> DEFINE Causes == \A c \in Client :
          openPc[c] = "broadcast" /\ openPc'[c] = "failed"
             => \E d \in Head(frames[c]) :
                   \/ session[d] = "closed"
                   \/ \E s \in WritersTo(d) : ~HoldsEndpoint(s.thread)
<1>1. ASSUME IInv, IInv', [Next]_vars, NEW c \in Client,
             openPc[c] = "broadcast", openPc'[c] = "failed"
      PROVE  \E d \in Head(frames[c]) :
                   \/ session[d] = "closed"
                   \/ \E s \in WritersTo(d) : ~HoldsEndpoint(s.thread)
  <2> USE DEF containerVars, hubVars
  <2>1. PICK t \in Client : OnOpenRegister(t) \/ OpenStep(t)
    BY <1>1 DEF Next, vars, CloseStep, PeerCloses, PeerLinkBreaks, OnCloseRemove,
       SubOnlineCount, Push, PushStep, PushSend, PushRefused, PushEnds
  <2>2. PICK d \in Client : BroadcastRefused(c, d)
    <3>1. ~OnOpenRegister(t)
      BY <1>1 DEF OnOpenRegister, IInv, TypeOK
    <3>2. ASSUME NEW d \in Client, BroadcastRefused(t, d)
          PROVE  t = c
      BY <1>1, <3>2 DEF BroadcastRefused, IInv, TypeOK
    <3>3. \E d \in Client : BroadcastRefused(t, d)
      BY <1>1, <2>1, <3>1 DEF OpenStep, AddOnlineCount, Broadcast, BroadcastSend,
         BroadcastSent, BroadcastFails, DropClient, WelcomeSend, WelcomeRefused,
         WelcomeEnds, OnError, IInv, TypeOK
    <3> QED
      BY <3>2, <3>3
  <2>3. d \in Head(frames[c]) /\ ~CanWrite(d) /\ EndpointMonitorFree(d)
    BY <2>2 DEF BroadcastRefused, Visits
  <2>4. session[d] # "none"
    <3>1. frames[c] \in Seq(SUBSET Known) /\ frames[c] # <<>>
      BY <1>1, <2>2 DEF IInv, KnownTargets, BroadcastRefused, Visits
    <3>2. Head(frames[c]) \in SUBSET Known
      BY <3>1, HeadTailProperties
    <3> QED
      BY <2>3, <3>2 DEF Known
  <2>5. CASE session[d] = "open"
    <3>1. PICK s \in WritersTo(d) : TRUE
      BY <2>3, <2>5, RefusedWhileWritten
    <3>2. ~HoldsEndpoint(s.thread)
      BY <2>3 DEF EndpointMonitorFree
    <3> QED
      BY <2>3, <3>1, <3>2
  <2>6. session[d] \in SessionState
    BY <1>1 DEF IInv, TypeOK, ContainerTypeOK
  <2> QED
    BY <2>3, <2>4, <2>5, <2>6 DEF SessionState
<1>2. IInv /\ IInv' /\ [Next]_vars => [Causes]_vars
  BY <1>1
<1> QED
  BY <1>2, Invariance, PTL DEF Spec, JoinFailsOnlyForACause

=============================================================================
