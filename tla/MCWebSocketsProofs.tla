-------------------------- MODULE MCWebSocketsProofs --------------------------
(***************************************************************************)
(* Proofs about the endpoints of MCWebSockets.  MyWebSocketHandler, for    *)
(* any connections and any users: no ended session stays in userMap, and a *)
(* user who lets one connection end before the next begins is always in    *)
(* it.  WsEndpoint, for every finite set of connections, any number of     *)
(* messages and any of the connections sending them: what a broadcast      *)
(* visits, drops and fails over.                                           *)
(***************************************************************************)
EXTENDS MCWebSockets, SequenceTheorems, TLAPS

-----------------------------------------------------------------------------
(* The handler of /spring.ws.                                              *)

\* The connections whose afterConnectionEstablished has got past its put.
Put == {c \in Client : openPc[c] \in {"send", "sending", "done"}}

\* Nobody reaches a session before its put: the map, the caller and the texts on
\* their way know only sessions that are past it, so that nobody can close one
\* before.
KnownAfterPut ==
    /\ \A u \in User : userMap[u] # NoClient => userMap[u] \in Put
    /\ target # NoClient => target \in Put
    /\ \A s \in sending : s.to \in Put
    /\ \A c \in Client : msgPc[c] # "idle" => c \in Put

\* How a session and the callbacks of its connection go together.
Lifecycle ==
    \A c \in Client :
        /\ session[c] = "none" <=> openPc[c] = "idle"
        /\ session[c] = "closed" => c \in Put
        /\ closePc[c] = "done" => session[c] = "closed"
        /\ openPc[c] = "put" => user[c] \in User

\* A patient user has one connection at a time, and it is the one in the map.
Patience ==
    \A u \in User \ Restless : \A c \in Live(u) :
        /\ Live(u) = {c}
        /\ c \in Put => userMap[u] = c

\* The caller writes one text at a time, to the session it got from the map.
CallerWritesToTarget ==
    \A s \in sending : s.thread = Caller => callPc = "sending" /\ s.to = target

IInv ==
    /\ TypeOK /\ KnownAfterPut /\ Lifecycle /\ NoGhostInMap /\ Patience
    /\ CallerWritesToTarget

-----------------------------------------------------------------------------
\* Every thread of the model is a thread the container knows.
LEMMA ThreadTypes ==
    /\ \A c \in Client : OnOpen(c) \in Threads /\ OnMessage(c) \in Threads
    /\ Caller \in Threads
BY DEF OnOpen, OnMessage, Caller, Thread, Threads, ThreadKind

\* The invariant holds at the start.
LEMMA InitIInv == Init => IInv
BY ClientAssumption, UserAssumption
   DEF Init, IInv, TypeOK, KnownAfterPut, Lifecycle, NoGhostInMap, Patience, Live,
       Keys, Put, ContainerInit, ContainerTypeOK, SessionState, CallerWritesToTarget

\* Every step of the container, of the callbacks and of the caller preserves it.
LEMMA NextIInv == IInv /\ [Next]_vars => IInv'
<1> SUFFICES ASSUME IInv, [Next]_vars
             PROVE  IInv'
    OBVIOUS
<1> USE ClientAssumption, UserAssumption DEF IInv
<1>1. ASSUME NEW c \in Client, NEW u \in User \cup {NoUser}, Handshake(c, u) PROVE IInv'
  <2> USE <1>1 DEF Handshake
  <2>1. TypeOK'
    BY ThreadTypes DEF TypeOK, ContainerTypeOK, SessionState, KnownAfterPut, Put, Lifecycle
  <2>2. KnownAfterPut'
    BY DEF KnownAfterPut, Put, TypeOK, ContainerTypeOK, Lifecycle
  <2>3. Lifecycle'
    BY DEF Lifecycle, KnownAfterPut, Put, TypeOK, ContainerTypeOK, SessionState
  <2>4. NoGhostInMap'
    BY DEF NoGhostInMap, Keys, Lifecycle, KnownAfterPut, Put, TypeOK, ContainerTypeOK
  <2>5. Patience'
    BY DEF Patience, Live, Lifecycle, KnownAfterPut, Put, TypeOK, ContainerTypeOK
  <2>6. CallerWritesToTarget'
    BY DEF CallerWritesToTarget, Caller, OnOpen, OnMessage, Thread, TypeOK, ContainerTypeOK
  <2>7. QED
    BY <2>1, <2>2, <2>3, <2>4, <2>5, <2>6
<1>2. ASSUME NEW c \in Client, Establish(c) PROVE IInv'
  <2> USE <1>2 DEF Establish, Remember, containerVars
  <2>1. TypeOK'
    BY ThreadTypes DEF TypeOK, ContainerTypeOK, SessionState, KnownAfterPut, Put, Lifecycle
  <2>2. KnownAfterPut'
    BY DEF KnownAfterPut, Put, TypeOK, ContainerTypeOK, Lifecycle
  <2>3. Lifecycle'
    BY DEF Lifecycle, KnownAfterPut, Put, TypeOK, ContainerTypeOK, SessionState
  <2>4. NoGhostInMap'
    BY DEF NoGhostInMap, Keys, Lifecycle, KnownAfterPut, Put, TypeOK, ContainerTypeOK
  <2>5. Patience'
    BY DEF Patience, Live, Lifecycle, KnownAfterPut, Put, TypeOK, ContainerTypeOK
  <2>6. CallerWritesToTarget'
    BY DEF CallerWritesToTarget, Caller, OnOpen, OnMessage, Thread, TypeOK, ContainerTypeOK
  <2>7. QED
    BY <2>1, <2>2, <2>3, <2>4, <2>5, <2>6
<1>3. ASSUME NEW c \in Client, GreetSend(c) PROVE IInv'
  <2> USE <1>3 DEF GreetSend, StartText, CanWrite, Text
  <2>1. TypeOK'
    BY ThreadTypes DEF TypeOK, ContainerTypeOK, SessionState, KnownAfterPut, Put, Lifecycle
  <2>2. KnownAfterPut'
    BY DEF KnownAfterPut, Put, TypeOK, ContainerTypeOK, Lifecycle
  <2>3. Lifecycle'
    BY DEF Lifecycle, KnownAfterPut, Put, TypeOK, ContainerTypeOK, SessionState
  <2>4. NoGhostInMap'
    BY DEF NoGhostInMap, Keys, Lifecycle, KnownAfterPut, Put, TypeOK, ContainerTypeOK
  <2>5. Patience'
    BY DEF Patience, Live, Lifecycle, KnownAfterPut, Put, TypeOK, ContainerTypeOK
  <2>6. CallerWritesToTarget'
    BY DEF CallerWritesToTarget, Caller, OnOpen, OnMessage, Thread, TypeOK, ContainerTypeOK
  <2>7. QED
    BY <2>1, <2>2, <2>3, <2>4, <2>5, <2>6
<1>4. ASSUME NEW c \in Client, GreetRefused(c) PROVE IInv'
  <2> USE <1>4 DEF GreetRefused, Close
  <2>1. TypeOK'
    BY ThreadTypes DEF TypeOK, ContainerTypeOK, SessionState, KnownAfterPut, Put, Lifecycle
  <2>2. KnownAfterPut'
    BY DEF KnownAfterPut, Put, TypeOK, ContainerTypeOK, Lifecycle
  <2>3. Lifecycle'
    BY DEF Lifecycle, KnownAfterPut, Put, TypeOK, ContainerTypeOK, SessionState
  <2>4. NoGhostInMap'
    BY DEF NoGhostInMap, Keys, Lifecycle, KnownAfterPut, Put, TypeOK, ContainerTypeOK
  <2>5. Patience'
    BY DEF Patience, Live, Lifecycle, KnownAfterPut, Put, TypeOK, ContainerTypeOK
  <2>6. CallerWritesToTarget'
    BY DEF CallerWritesToTarget, Caller, OnOpen, OnMessage, Thread, TypeOK, ContainerTypeOK
  <2>7. QED
    BY <2>1, <2>2, <2>3, <2>4, <2>5, <2>6
<1>5. ASSUME NEW c \in Client, GreetEnds(c) PROVE IInv'
  <2> USE <1>5 DEF GreetEnds, CallbackEnds, EndText, Close, Text
  <2>1. TypeOK'
    BY ThreadTypes DEF TypeOK, ContainerTypeOK, SessionState, KnownAfterPut, Put, Lifecycle
  <2>2. KnownAfterPut'
    BY DEF KnownAfterPut, Put, TypeOK, ContainerTypeOK, Lifecycle
  <2>3. Lifecycle'
    BY DEF Lifecycle, KnownAfterPut, Put, TypeOK, ContainerTypeOK, SessionState
  <2>4. NoGhostInMap'
    BY DEF NoGhostInMap, Keys, Lifecycle, KnownAfterPut, Put, TypeOK, ContainerTypeOK
  <2>5. Patience'
    BY DEF Patience, Live, Lifecycle, KnownAfterPut, Put, TypeOK, ContainerTypeOK
  <2>6. CallerWritesToTarget'
    BY DEF CallerWritesToTarget, Caller, OnOpen, OnMessage, Thread, TypeOK, ContainerTypeOK
  <2>7. QED
    BY <2>1, <2>2, <2>3, <2>4, <2>5, <2>6
<1>6. ASSUME NEW c \in Client, ReplySend(c) PROVE IInv'
  <2> USE <1>6 DEF ReplySend, Reading, StartText, CanWrite, Text
  <2>1. TypeOK'
    BY ThreadTypes DEF TypeOK, ContainerTypeOK, SessionState, KnownAfterPut, Put, Lifecycle
  <2>2. KnownAfterPut'
    BY DEF KnownAfterPut, Put, TypeOK, ContainerTypeOK, Lifecycle
  <2>3. Lifecycle'
    BY DEF Lifecycle, KnownAfterPut, Put, TypeOK, ContainerTypeOK, SessionState
  <2>4. NoGhostInMap'
    BY DEF NoGhostInMap, Keys, Lifecycle, KnownAfterPut, Put, TypeOK, ContainerTypeOK
  <2>5. Patience'
    BY DEF Patience, Live, Lifecycle, KnownAfterPut, Put, TypeOK, ContainerTypeOK
  <2>6. CallerWritesToTarget'
    BY DEF CallerWritesToTarget, Caller, OnOpen, OnMessage, Thread, TypeOK, ContainerTypeOK
  <2>7. QED
    BY <2>1, <2>2, <2>3, <2>4, <2>5, <2>6
<1>7. ASSUME NEW c \in Client, ReplyRefused(c) PROVE IInv'
  <2> USE <1>7 DEF ReplyRefused, Reading, Close, handlerVars
  <2>1. TypeOK'
    BY ThreadTypes DEF TypeOK, ContainerTypeOK, SessionState, KnownAfterPut, Put, Lifecycle
  <2>2. KnownAfterPut'
    BY DEF KnownAfterPut, Put, TypeOK, ContainerTypeOK, Lifecycle
  <2>3. Lifecycle'
    BY DEF Lifecycle, KnownAfterPut, Put, TypeOK, ContainerTypeOK, SessionState
  <2>4. NoGhostInMap'
    BY DEF NoGhostInMap, Keys, Lifecycle, KnownAfterPut, Put, TypeOK, ContainerTypeOK
  <2>5. Patience'
    BY DEF Patience, Live, Lifecycle, KnownAfterPut, Put, TypeOK, ContainerTypeOK
  <2>6. CallerWritesToTarget'
    BY DEF CallerWritesToTarget, Caller, OnOpen, OnMessage, Thread, TypeOK, ContainerTypeOK
  <2>7. QED
    BY <2>1, <2>2, <2>3, <2>4, <2>5, <2>6
<1>8. ASSUME NEW c \in Client, ReplyEnds(c) PROVE IInv'
  <2> USE <1>8 DEF ReplyEnds, CallbackEnds, EndText, Close, Text
  <2>1. TypeOK'
    BY ThreadTypes DEF TypeOK, ContainerTypeOK, SessionState, KnownAfterPut, Put, Lifecycle
  <2>2. KnownAfterPut'
    BY DEF KnownAfterPut, Put, TypeOK, ContainerTypeOK, Lifecycle
  <2>3. Lifecycle'
    BY DEF Lifecycle, KnownAfterPut, Put, TypeOK, ContainerTypeOK, SessionState
  <2>4. NoGhostInMap'
    BY DEF NoGhostInMap, Keys, Lifecycle, KnownAfterPut, Put, TypeOK, ContainerTypeOK
  <2>5. Patience'
    BY DEF Patience, Live, Lifecycle, KnownAfterPut, Put, TypeOK, ContainerTypeOK
  <2>6. CallerWritesToTarget'
    BY DEF CallerWritesToTarget, Caller, OnOpen, OnMessage, Thread, TypeOK, ContainerTypeOK
  <2>7. QED
    BY <2>1, <2>2, <2>3, <2>4, <2>5, <2>6
<1>9. ASSUME NEW c \in Client, AfterConnectionClosed(c) PROVE IInv'
  <2> USE <1>9 DEF AfterConnectionClosed, Forget, containerVars
  <2>1. TypeOK'
    BY ThreadTypes DEF TypeOK, ContainerTypeOK, SessionState, KnownAfterPut, Put, Lifecycle
  <2>2. KnownAfterPut'
    BY DEF KnownAfterPut, Put, TypeOK, ContainerTypeOK, Lifecycle
  <2>3. Lifecycle'
    BY DEF Lifecycle, KnownAfterPut, Put, TypeOK, ContainerTypeOK, SessionState
  <2>4. NoGhostInMap'
    BY DEF NoGhostInMap, Keys, Lifecycle, KnownAfterPut, Put, TypeOK, ContainerTypeOK
  <2>5. Patience'
    BY DEF Patience, Live, Lifecycle, KnownAfterPut, Put, TypeOK, ContainerTypeOK
  <2>6. CallerWritesToTarget'
    BY DEF CallerWritesToTarget, Caller, OnOpen, OnMessage, Thread, TypeOK, ContainerTypeOK
  <2>7. QED
    BY <2>1, <2>2, <2>3, <2>4, <2>5, <2>6
<1>10. CASE SendMessageToUser \/ SendMessageToAllUsers
  <2> USE <1>10 DEF SendMessageToUser, SendMessageToAllUsers, Call, containerVars
  <2>1. TypeOK'
    BY ThreadTypes DEF TypeOK, ContainerTypeOK, SessionState, KnownAfterPut, Put, Lifecycle
  <2>2. KnownAfterPut'
    BY DEF KnownAfterPut, Put, TypeOK, ContainerTypeOK, Lifecycle
  <2>3. Lifecycle'
    BY DEF Lifecycle, KnownAfterPut, Put, TypeOK, ContainerTypeOK, SessionState
  <2>4. NoGhostInMap'
    BY DEF NoGhostInMap, Keys, Lifecycle, KnownAfterPut, Put, TypeOK, ContainerTypeOK
  <2>5. Patience'
    BY DEF Patience, Live, Lifecycle, KnownAfterPut, Put, TypeOK, ContainerTypeOK
  <2>6. CallerWritesToTarget'
    BY DEF CallerWritesToTarget, Caller, OnOpen, OnMessage, Thread, TypeOK, ContainerTypeOK
  <2>7. QED
    BY <2>1, <2>2, <2>3, <2>4, <2>5, <2>6
<1>11. ASSUME NEW u \in User, GetSession(u) PROVE IInv'
  <2> USE <1>11 DEF GetSession, containerVars
  <2>1. TypeOK'
    BY ThreadTypes DEF TypeOK, ContainerTypeOK, SessionState, KnownAfterPut, Put, Lifecycle
  <2>2. KnownAfterPut'
    BY DEF KnownAfterPut, Put, TypeOK, ContainerTypeOK, Lifecycle
  <2>3. Lifecycle'
    BY DEF Lifecycle, KnownAfterPut, Put, TypeOK, ContainerTypeOK, SessionState
  <2>4. NoGhostInMap'
    BY DEF NoGhostInMap, Keys, Lifecycle, KnownAfterPut, Put, TypeOK, ContainerTypeOK
  <2>5. Patience'
    BY DEF Patience, Live, Lifecycle, KnownAfterPut, Put, TypeOK, ContainerTypeOK
  <2>6. CallerWritesToTarget'
    BY DEF CallerWritesToTarget, Caller, OnOpen, OnMessage, Thread, TypeOK, ContainerTypeOK
  <2>7. QED
    BY <2>1, <2>2, <2>3, <2>4, <2>5, <2>6
<1>12. CASE CheckOpen
  <2> USE <1>12 DEF CheckOpen, CallReturns, containerVars
  <2>1. TypeOK'
    BY ThreadTypes DEF TypeOK, ContainerTypeOK, SessionState, KnownAfterPut, Put, Lifecycle
  <2>2. KnownAfterPut'
    BY DEF KnownAfterPut, Put, TypeOK, ContainerTypeOK, Lifecycle
  <2>3. Lifecycle'
    BY DEF Lifecycle, KnownAfterPut, Put, TypeOK, ContainerTypeOK, SessionState
  <2>4. NoGhostInMap'
    BY DEF NoGhostInMap, Keys, Lifecycle, KnownAfterPut, Put, TypeOK, ContainerTypeOK
  <2>5. Patience'
    BY DEF Patience, Live, Lifecycle, KnownAfterPut, Put, TypeOK, ContainerTypeOK
  <2>6. CallerWritesToTarget'
    BY DEF CallerWritesToTarget, Caller, OnOpen, OnMessage, Thread, TypeOK, ContainerTypeOK
  <2>7. QED
    BY <2>1, <2>2, <2>3, <2>4, <2>5, <2>6
<1>13. CASE CallSend
  <2> USE <1>13 DEF CallSend, StartText, CanWrite, Text
  <2>1. TypeOK'
    BY ThreadTypes DEF TypeOK, ContainerTypeOK, SessionState, KnownAfterPut, Put, Lifecycle
  <2>2. KnownAfterPut'
    BY DEF KnownAfterPut, Put, TypeOK, ContainerTypeOK, Lifecycle
  <2>3. Lifecycle'
    BY DEF Lifecycle, KnownAfterPut, Put, TypeOK, ContainerTypeOK, SessionState
  <2>4. NoGhostInMap'
    BY DEF NoGhostInMap, Keys, Lifecycle, KnownAfterPut, Put, TypeOK, ContainerTypeOK
  <2>5. Patience'
    BY DEF Patience, Live, Lifecycle, KnownAfterPut, Put, TypeOK, ContainerTypeOK
  <2>6. CallerWritesToTarget'
    BY DEF CallerWritesToTarget, Caller, OnOpen, OnMessage, Thread, TypeOK, ContainerTypeOK
  <2>7. QED
    BY <2>1, <2>2, <2>3, <2>4, <2>5, <2>6
<1>14. CASE CallRefused
  <2> USE <1>14 DEF CallRefused, CallReturns, LeavesLoop, containerVars
  <2>1. TypeOK'
    BY ThreadTypes DEF TypeOK, ContainerTypeOK, SessionState, KnownAfterPut, Put, Lifecycle
  <2>2. KnownAfterPut'
    BY DEF KnownAfterPut, Put, TypeOK, ContainerTypeOK, Lifecycle
  <2>3. Lifecycle'
    BY DEF Lifecycle, KnownAfterPut, Put, TypeOK, ContainerTypeOK, SessionState
  <2>4. NoGhostInMap'
    BY DEF NoGhostInMap, Keys, Lifecycle, KnownAfterPut, Put, TypeOK, ContainerTypeOK
  <2>5. Patience'
    BY DEF Patience, Live, Lifecycle, KnownAfterPut, Put, TypeOK, ContainerTypeOK
  <2>6. CallerWritesToTarget'
    BY DEF CallerWritesToTarget, Caller, OnOpen, OnMessage, Thread, TypeOK, ContainerTypeOK
  <2>7. QED
    BY <2>1, <2>2, <2>3, <2>4, <2>5, <2>6
<1>15. CASE CallEnds
  <2> USE <1>15 DEF CallEnds, CallReturns, EndText, Text
  <2>1. TypeOK'
    BY ThreadTypes DEF TypeOK, ContainerTypeOK, SessionState, KnownAfterPut, Put, Lifecycle
  <2>2. KnownAfterPut'
    BY DEF KnownAfterPut, Put, TypeOK, ContainerTypeOK, Lifecycle
  <2>3. Lifecycle'
    BY DEF Lifecycle, KnownAfterPut, Put, TypeOK, ContainerTypeOK, SessionState
  <2>4. NoGhostInMap'
    BY DEF NoGhostInMap, Keys, Lifecycle, KnownAfterPut, Put, TypeOK, ContainerTypeOK
  <2>5. Patience'
    BY DEF Patience, Live, Lifecycle, KnownAfterPut, Put, TypeOK, ContainerTypeOK
  <2>6. CallerWritesToTarget'
    BY DEF CallerWritesToTarget, Caller, OnOpen, OnMessage, Thread, TypeOK, ContainerTypeOK
  <2>7. QED
    BY <2>1, <2>2, <2>3, <2>4, <2>5, <2>6
<1>16. ASSUME NEW c \in Client, PeerCloses(c) PROVE IInv'
  <2> USE <1>16 DEF PeerCloses, Reading, WriteNotices, WritersTo, Close, handlerVars
  <2>1. TypeOK'
    BY ThreadTypes DEF TypeOK, ContainerTypeOK, SessionState, KnownAfterPut, Put, Lifecycle
  <2>2. KnownAfterPut'
    BY DEF KnownAfterPut, Put, TypeOK, ContainerTypeOK, Lifecycle
  <2>3. Lifecycle'
    BY DEF Lifecycle, KnownAfterPut, Put, TypeOK, ContainerTypeOK, SessionState
  <2>4. NoGhostInMap'
    BY DEF NoGhostInMap, Keys, Lifecycle, KnownAfterPut, Put, TypeOK, ContainerTypeOK
  <2>5. Patience'
    BY DEF Patience, Live, Lifecycle, KnownAfterPut, Put, TypeOK, ContainerTypeOK
  <2>6. CallerWritesToTarget'
    BY DEF CallerWritesToTarget, Caller, OnOpen, OnMessage, Thread, TypeOK, ContainerTypeOK
  <2>7. QED
    BY <2>1, <2>2, <2>3, <2>4, <2>5, <2>6
<1>17. ASSUME NEW c \in Client, PeerLinkBreaks(c) PROVE IInv'
  <2> USE <1>17 DEF PeerLinkBreaks, LinkBreaks, handlerVars
  <2>1. TypeOK'
    BY ThreadTypes DEF TypeOK, ContainerTypeOK, SessionState, KnownAfterPut, Put, Lifecycle
  <2>2. KnownAfterPut'
    BY DEF KnownAfterPut, Put, TypeOK, ContainerTypeOK, Lifecycle
  <2>3. Lifecycle'
    BY DEF Lifecycle, KnownAfterPut, Put, TypeOK, ContainerTypeOK, SessionState
  <2>4. NoGhostInMap'
    BY DEF NoGhostInMap, Keys, Lifecycle, KnownAfterPut, Put, TypeOK, ContainerTypeOK
  <2>5. Patience'
    BY DEF Patience, Live, Lifecycle, KnownAfterPut, Put, TypeOK, ContainerTypeOK
  <2>6. CallerWritesToTarget'
    BY DEF CallerWritesToTarget, Caller, OnOpen, OnMessage, Thread, TypeOK, ContainerTypeOK
  <2>7. QED
    BY <2>1, <2>2, <2>3, <2>4, <2>5, <2>6
<1>18. CASE UNCHANGED vars
  <2> USE <1>18 DEF vars, containerVars, handlerVars
  <2>1. TypeOK'
    BY ThreadTypes DEF TypeOK, ContainerTypeOK, SessionState, KnownAfterPut, Put, Lifecycle
  <2>2. KnownAfterPut'
    BY DEF KnownAfterPut, Put, TypeOK, ContainerTypeOK, Lifecycle
  <2>3. Lifecycle'
    BY DEF Lifecycle, KnownAfterPut, Put, TypeOK, ContainerTypeOK, SessionState
  <2>4. NoGhostInMap'
    BY DEF NoGhostInMap, Keys, Lifecycle, KnownAfterPut, Put, TypeOK, ContainerTypeOK
  <2>5. Patience'
    BY DEF Patience, Live, Lifecycle, KnownAfterPut, Put, TypeOK, ContainerTypeOK
  <2>6. CallerWritesToTarget'
    BY DEF CallerWritesToTarget, Caller, OnOpen, OnMessage, Thread, TypeOK, ContainerTypeOK
  <2>7. QED
    BY <2>1, <2>2, <2>3, <2>4, <2>5, <2>6
<1>19. QED
    BY <1>1, <1>2, <1>3, <1>4, <1>5, <1>6, <1>7, <1>8, <1>9, <1>10, <1>11, <1>12, <1>13, <1>14, <1>15, <1>16, <1>17, <1>18
       DEF Next, HandlerStep, CallStep

\* The invariant of the handler.
THEOREM Invariant == Spec => []IInv
BY InitIInv, NextIInv, PTL DEF Spec

\* Every reachable state is typed; the session kept for a user is one of that
\* user's own, and a call that is past its null check has a session.
THEOREM TypeCorrect == Spec => []TypeOK
<1>1. IInv => TypeOK
    BY DEF IInv
<1>2. QED
    BY <1>1, Invariant, PTL

\* No session whose afterConnectionClosed has run is in userMap, for any number of
\* connections of any users, patient or not.
THEOREM NoGhosts == Spec => []NoGhostInMap
<1>1. IInv => NoGhostInMap
    BY DEF IInv
<1>2. QED
    BY <1>1, Invariant, PTL

\* A user who lets one connection end before the next begins is in userMap while
\* connected, whatever the users do who reconnect early.
THEOREM PatientUserIsKept == Spec => []PatientUserIsInMap
<1>1. IInv => PatientUserIsInMap
  <2> SUFFICES ASSUME IInv, NEW u \in Connected \ Restless
               PROVE  u \in Keys
      BY DEF PatientUserIsInMap
  <2>1. u \in User
      BY DEF Connected
  <2>2. PICK c \in Live(u) : session[c] = "open" /\ openPc[c] = "done"
      BY DEF Connected
  <2>3. c \in Put
      BY <2>2 DEF Put, Live
  <2>4. userMap[u] = c /\ c \in Client
      BY <2>1, <2>2, <2>3 DEF IInv, Patience, Live
  <2>5. QED
      BY <2>1, <2>4, ClientAssumption DEF Keys
<1>2. QED
    BY <1>1, Invariant, PTL

\* A message to all users is broken off, with users left over, only because the
\* session at hand was closed after isOpen or is being written to by its own
\* callback: two texts of the caller never meet.
THEOREM BreakOffsHaveACause == Spec => BrokenOffOnlyForACause
<1> DEFINE Cause ==
        todo # {} /\ callPc # "idle" /\ todo' = {}
            => \/ session[target] = "closed"
               \/ \E s \in WritersTo(target) : s.thread # Caller
<1>1. IInv /\ [Next]_vars => [Cause]_vars
  <2> SUFFICES ASSUME IInv, Next, todo # {}, callPc # "idle", todo' = {}
               PROVE  \/ session[target] = "closed"
                      \/ \E s \in WritersTo(target) : s.thread # Caller
      OBVIOUS
  <2>1. CallRefused
      BY DEF Next, HandlerStep, CallStep, Handshake, Establish, GreetSend,
             GreetRefused, GreetEnds, ReplySend, ReplyRefused, ReplyEnds,
             AfterConnectionClosed, PeerCloses, PeerLinkBreaks, handlerVars,
             SendMessageToUser, SendMessageToAllUsers, Call, GetSession, CheckOpen,
             CallSend, CallEnds
  <2>2. callPc = "send" /\ ~CanWrite(target)
      BY <2>1 DEF CallRefused
  <2>3. target \in Put
      BY <2>2, ClientAssumption DEF IInv, TypeOK, KnownAfterPut
  <2>4. session[target] \in {"open", "closed"}
      BY <2>3 DEF IInv, TypeOK, ContainerTypeOK, SessionState, Lifecycle, Put
  <2>5. \A s \in WritersTo(target) : s.thread # Caller
      BY <2>2 DEF IInv, CallerWritesToTarget, WritersTo
  <2>6. QED
      BY <2>2, <2>4, <2>5 DEF CanWrite
<1>2. QED
    BY <1>1, Invariant, PTL DEF Spec, BrokenOffOnlyForACause

-----------------------------------------------------------------------------
(* The endpoint /endpoint.ws.                                              *)

\* Some broadcast has taken c out of the set and is about to close its session.
Dropping(c) == \E t \in Chat!Handler : pc[t] = "drop" /\ victim[t] = c

\* The clients that have connected.
Known == {c \in Client : session[c] # "none"}

\* How the set, the session and the handlers of a client go together.
ChatLifecycle ==
    /\ \A t \in Chat!Handler : pc[t] # "idle" => session[t.of] # "none"
    /\ \A c \in Client :
          /\ pc[Chat!OnOpen(c)] = "idle" => session[c] = "none"
          /\ session[c] = "none" => c \notin connections
          /\ pc[Chat!OnClose(c)] # "idle" => session[c] = "closed" /\ c \notin connections
          /\ session[c] = "open" => c \in connections \/ Dropping(c)

\* Only clients that have connected are visited, written to or dropped.
KnownTargets ==
    /\ \A t \in Chat!Handler : frames[t] \in Seq(SUBSET Known)
    /\ \A s \in sending : session[s.to] # "none"
    /\ \A t \in Chat!Handler : pc[t] = "drop" => session[victim[t]] # "none"

\* A handler writes only in its broadcast, and one text at a time.
WritersOnTheirWay ==
    \A s \in sending : /\ s.thread \in Chat!Handler /\ pc[s.thread] = "broadcast"
                       /\ \A r \in sending : r.thread = s.thread => r = s

ChatInv == Chat!TypeOK /\ ChatLifecycle /\ KnownTargets /\ WritersOnTheirWay

-----------------------------------------------------------------------------
\* Each client has an onOpen and an onClose of its own.
LEMMA HandlersOfClients ==
    /\ Chat!Handler \subseteq Chat!Threads
    /\ \A t \in Chat!Handler : t.of \in Client
    /\ \A c \in Client : /\ Chat!OnOpen(c) \in Chat!Handler /\ Chat!OnOpen(c).of = c
                         /\ Chat!OnClose(c) \in Chat!Handler /\ Chat!OnClose(c).of = c
    /\ \A c \in Talker : Chat!OnMessage(c) \in Chat!Handler /\ Chat!OnMessage(c).of = c
    /\ \A c, d \in Client : /\ Chat!OnOpen(c) # Chat!OnClose(d)
                            /\ Chat!OnOpen(c) = Chat!OnOpen(d) => c = d
                            /\ Chat!OnClose(c) = Chat!OnClose(d) => c = d
    /\ \A c \in Talker, d \in Client : /\ Chat!OnMessage(c) # Chat!OnOpen(d)
                                       /\ Chat!OnMessage(c) # Chat!OnClose(d)
BY TalkAssumption DEF Chat!Handler, Chat!Threads, Chat!ThreadKind, Chat!OnOpen, Chat!OnClose, Chat!OnMessage, Chat!Thread

\* A frame keeps the stack of nested broadcasts a sequence of sets of clients.
LEMMA FrameType ==
    ASSUME NEW S, NEW members \in SUBSET S, NEW rest \in Seq(SUBSET S)
    PROVE  Chat!Frame(members, rest) \in Seq(SUBSET S)
<1>1. <<members>> \in Seq(SUBSET S)
  OBVIOUS
<1>2. <<members>> \o rest \in Seq(SUBSET S)
  BY <1>1, ConcatProperties
<1> QED
  BY <1>2 DEF Chat!Frame

\* Visiting a client shortens the innermost frame.
LEMMA VisitType ==
    ASSUME NEW S, NEW stack \in Seq(SUBSET S), stack # <<>>, NEW d
    PROVE  Chat!Frame(Head(stack) \ {d}, Tail(stack)) \in Seq(SUBSET S)
<1>1. Head(stack) \in SUBSET S /\ Tail(stack) \in Seq(SUBSET S)
  BY HeadTailProperties
<1> QED
  BY <1>1, FrameType

\* A stack over known clients is one over any larger set of clients.
LEMMA StackMonotone ==
    ASSUME NEW S, NEW T, S \subseteq T, NEW stack \in Seq(SUBSET S)
    PROVE  stack \in Seq(SUBSET T)
OBVIOUS

-----------------------------------------------------------------------------
(* One step, action by action.                                             *)

\* onOpen publishes the endpoint of a new session (31).
LEMMA Registers ==
    ASSUME ChatInv, NEW c \in Client, Chat!OnOpenRegister(c)
    PROVE  ChatInv'
<1> USE HandlersOfClients
<1>1. /\ session[c] = "none" /\ session' = [session EXCEPT ![c] = "open"]
      /\ connections' = connections \cup {c}
      /\ pc' = [pc EXCEPT ![Chat!OnOpen(c)] = "handler"]
      /\ UNCHANGED <<broken, sending, frames, victim, said>>
  BY DEF Chat!OnOpenRegister
<1>2. pc[Chat!OnOpen(c)] = "idle" /\ pc[Chat!OnClose(c)] = "idle"
  BY <1>1 DEF ChatInv, ChatLifecycle
<1>3. Chat!TypeOK'
  BY <1>1 DEF ChatInv, Chat!TypeOK, Chat!ContainerTypeOK, Chat!SessionState, Chat!Pc
<1>4. \A t \in Chat!Handler : t # Chat!OnOpen(c) => pc'[t] = pc[t]
  BY <1>1 DEF ChatInv, Chat!TypeOK
<1>5. pc'[Chat!OnOpen(c)] = "handler"
  BY <1>1 DEF ChatInv, Chat!TypeOK
<1>6. ChatLifecycle'
  <2>1. \A d \in Client : Dropping(d) => Dropping(d)'
    BY <1>1, <1>2, <1>4 DEF Dropping
  <2>2. \A d \in Client : session'[d] = IF d = c THEN "open" ELSE session[d]
    BY <1>1 DEF ChatInv, Chat!TypeOK, Chat!ContainerTypeOK
  <2> QED
    BY <1>1, <1>2, <1>4, <1>5, <2>1, <2>2 DEF ChatInv, ChatLifecycle
<1>7. KnownTargets'
  <2>1. Known \subseteq Known'
    BY <1>1 DEF Known, ChatInv, Chat!TypeOK, Chat!ContainerTypeOK
  <2>2. \A t \in Chat!Handler : frames'[t] \in Seq(SUBSET Known')
    BY <1>1, <2>1, StackMonotone DEF ChatInv, KnownTargets
  <2> QED
    BY <1>1, <1>4, <1>5, <2>2 DEF ChatInv, KnownTargets, Chat!TypeOK, Chat!ContainerTypeOK
<1>8. WritersOnTheirWay'
  BY <1>1, <1>2, <1>4 DEF ChatInv, WritersOnTheirWay
<1> QED
  BY <1>3, <1>6, <1>7, <1>8 DEF ChatInv

\* A handler t that is under way goes on to p: it starts no text and drops nobody,
\* and a session that it closes is that of the client it had dropped or of a client
\* that is connected.
Moves(t, p) ==
    /\ pc[t] # "idle" /\ pc' = [pc EXCEPT ![t] = p]
    /\ p = "idle" => \A c \in Client : t # Chat!OnOpen(c)
    /\ broken' = broken /\ connections' = connections /\ said' = said
    /\ session' \in [Client -> Chat!SessionState]
    /\ \A c \in Client : session'[c] # session[c]
                            => session[c] # "none" /\ session'[c] = "closed"
    /\ pc[t] = "drop" => session'[victim[t]] = "closed"
    /\ victim' \in [Chat!Handler -> Client \cup {NoClient}]
    /\ \A u \in Chat!Handler : u # t => victim'[u] = victim[u]
    /\ frames' \in [Chat!Handler -> Seq(SUBSET Known)]
    /\ sending' \subseteq sending
    /\ p = "broadcast" \/ \A s \in sending' : s.thread # t

LEMMA HandlerMoves ==
    ASSUME ChatInv, NEW t \in Chat!Handler, NEW p \in Chat!Pc \ {"drop"}, Moves(t, p)
    PROVE  ChatInv'
<1> USE HandlersOfClients DEF Moves
<1>1. pc'[t] = p /\ \A u \in Chat!Handler : u # t => pc'[u] = pc[u]
  BY DEF ChatInv, Chat!TypeOK
<1>2. Known' = Known
  BY DEF Known, Chat!SessionState
<1>3. Chat!TypeOK'
  <2>1. frames' \in [Chat!Handler -> Seq(SUBSET Client)]
    <3>1. \A u \in Chat!Handler : frames'[u] \in Seq(SUBSET Client)
      BY StackMonotone DEF Known
    <3> QED
      BY <3>1
  <2>2. pc' \in [Chat!Handler -> Chat!Pc]
    BY DEF ChatInv, Chat!TypeOK
  <2>3. \A u \in Chat!Handler : pc'[u] = "drop" => victim'[u] \in Client
    BY <1>1 DEF ChatInv, Chat!TypeOK
  <2> QED
    BY <2>1, <2>2, <2>3 DEF ChatInv, Chat!TypeOK, Chat!ContainerTypeOK
<1>4. ChatLifecycle'
  <2>1. ASSUME NEW c \in Client, session'[c] = "open", Dropping(c)
        PROVE  Dropping(c)'
    <3>1. PICK u \in Chat!Handler : pc[u] = "drop" /\ victim[u] = c
      BY <2>1 DEF Dropping
    <3>2. u # t
      BY <2>1, <3>1
    <3> QED
      BY <1>1, <3>1, <3>2 DEF Dropping
  <2>2. \A u \in Chat!Handler : pc'[u] # "idle" => session'[u.of] # "none"
    <3>1. \A u \in Chat!Handler : u.of \in Client /\ (pc'[u] # "idle" => pc[u] # "idle")
      BY <1>1
    <3>2. \A c \in Client : session[c] # "none" => session'[c] # "none"
      OBVIOUS
    <3> QED
      BY <3>1, <3>2, Zenon DEF ChatInv, ChatLifecycle
  <2>3. \A c \in Client : session'[c] = "open" => session[c] = "open"
    BY DEF Chat!SessionState
  <2>4. \A c \in Client : session'[c] = "open" => c \in connections' \/ Dropping(c)'
    BY <2>1, <2>3 DEF ChatInv, ChatLifecycle
  <2>5. \A c \in Client : pc'[Chat!OnOpen(c)] = "idle" => session'[c] = "none"
    <3>1. \A c \in Client : pc'[Chat!OnOpen(c)] = "idle" => pc[Chat!OnOpen(c)] = "idle"
      BY <1>1
    <3>2. \A c \in Client : session[c] = "none" => session'[c] = "none"
      OBVIOUS
    <3> QED
      BY <3>1, <3>2, Zenon DEF ChatInv, ChatLifecycle
  <2>6. \A c \in Client : pc'[Chat!OnClose(c)] # "idle" => pc[Chat!OnClose(c)] # "idle"
    BY <1>1
  <2>7. \A c \in Client : pc'[Chat!OnClose(c)] # "idle"
                             => session'[c] = "closed" /\ c \notin connections'
    BY <2>6 DEF ChatInv, ChatLifecycle
  <2>8. \A c \in Client : session'[c] = "none" => c \notin connections'
    BY DEF ChatInv, ChatLifecycle
  <2> QED
    BY <2>2, <2>4, <2>5, <2>7, <2>8 DEF ChatLifecycle
<1>5. KnownTargets'
  <2>1. \A c \in Client : session[c] # "none" => session'[c] # "none"
    OBVIOUS
  <2>2. \A u \in Chat!Handler : pc'[u] = "drop" => u # t /\ pc[u] = "drop" /\ victim[u] \in Client
    BY <1>1 DEF ChatInv, Chat!TypeOK
  <2>3. \A s \in sending' : s \in sending /\ s.to \in Client
    BY DEF ChatInv, Chat!TypeOK, Chat!ContainerTypeOK
  <2>4. \A u \in Chat!Handler : frames'[u] \in Seq(SUBSET Known')
    BY <1>2
  <2>5. \A s \in sending' : session'[s.to] # "none"
    BY <2>1, <2>3 DEF ChatInv, KnownTargets
  <2>6. ASSUME NEW u \in Chat!Handler, pc'[u] = "drop"
        PROVE  session'[victim'[u]] # "none"
    <3>1. u # t /\ pc[u] = "drop" /\ victim[u] \in Client /\ victim'[u] = victim[u]
      BY <2>2, <2>6
    <3>2. session[victim[u]] # "none"
      BY <3>1 DEF ChatInv, KnownTargets
    <3> QED
      BY <2>1, <3>1, <3>2
  <2> QED
    BY <2>4, <2>5, <2>6 DEF KnownTargets
<1>6. WritersOnTheirWay'
  BY <1>1 DEF ChatInv, WritersOnTheirWay
<1> QED
  BY <1>3, <1>4, <1>5, <1>6 DEF ChatInv

\* What the network and the peers do to a connection disturbs no handler.
LEMMA PeerMoves ==
    ASSUME ChatInv, UNCHANGED <<sending, Chat!endpointVars>>,
           broken' \subseteq Client, session' \in [Client -> Chat!SessionState],
           \A c \in Client : session'[c] # session[c]
                                => session[c] # "none" /\ session'[c] = "closed"
    PROVE  ChatInv'
<1> USE HandlersOfClients DEF Chat!endpointVars
<1>1. Known' = Known
  BY DEF Known, Chat!SessionState
<1>2. Chat!TypeOK'
  BY DEF ChatInv, Chat!TypeOK, Chat!ContainerTypeOK
<1>3. ChatLifecycle'
  <2>1. \A c \in Client : Dropping(c)' <=> Dropping(c)
    BY DEF Dropping
  <2>2. \A c \in Client : session'[c] = "open" => session[c] = "open"
    BY DEF Chat!SessionState
  <2>3. \A c \in Client : session'[c] = "none" <=> session[c] = "none"
    OBVIOUS
  <2> QED
    BY <2>1, <2>2, <2>3 DEF ChatInv, ChatLifecycle
<1>4. KnownTargets'
  <2>1. \A s \in sending : s.to \in Client
    BY DEF ChatInv, Chat!TypeOK, Chat!ContainerTypeOK
  <2>2. \A t \in Chat!Handler : pc[t] = "drop" => victim[t] \in Client
    BY DEF ChatInv, Chat!TypeOK
  <2> QED
    BY <1>1, <2>1, <2>2 DEF ChatInv, KnownTargets
<1>5. WritersOnTheirWay'
  BY DEF ChatInv, WritersOnTheirWay
<1> QED
  BY <1>2, <1>3, <1>4, <1>5 DEF ChatInv

\* A message of an open session comes in (39-44).
LEMMA MessageStarts ==
    ASSUME ChatInv, NEW c \in Talker, Chat!OnMessageStarts(c)
    PROVE  ChatInv'
<1> USE HandlersOfClients
<1>1. /\ session[c] = "open" /\ c \in Client
      /\ pc[Chat!OnMessage(c)] = "idle" /\ pc' = [pc EXCEPT ![Chat!OnMessage(c)] = "call"]
      /\ said[c] < MaxMessages /\ said' = [said EXCEPT ![c] = @ + 1]
      /\ UNCHANGED <<session, broken, sending, connections, frames, victim>>
  BY TalkAssumption DEF Chat!OnMessageStarts, Chat!containerVars
<1>2. /\ pc'[Chat!OnMessage(c)] = "call" /\ Chat!OnMessage(c).of = c
      /\ \A t \in Chat!Handler : t # Chat!OnMessage(c) => pc'[t] = pc[t]
  BY <1>1 DEF ChatInv, Chat!TypeOK
<1>3. Chat!TypeOK'
  <2>1. said' \in [Client -> 0..MaxMessages]
    BY <1>1, TalkAssumption DEF ChatInv, Chat!TypeOK
  <2>2. pc' \in [Chat!Handler -> Chat!Pc] /\ \A t \in Chat!Handler : pc'[t] = "drop" => victim'[t] \in Client
    BY <1>1, <1>2 DEF ChatInv, Chat!TypeOK, Chat!Pc
  <2> QED
    BY <1>1, <2>1, <2>2 DEF ChatInv, Chat!TypeOK, Chat!ContainerTypeOK
<1>4. ChatLifecycle'
  <2>1. \A d \in Client : Dropping(d) => Dropping(d)'
    BY <1>1, <1>2 DEF Dropping
  <2> QED
    BY <1>1, <1>2, <2>1 DEF ChatInv, ChatLifecycle
<1>5. KnownTargets'
  BY <1>1, <1>2 DEF ChatInv, KnownTargets, Known
<1>6. WritersOnTheirWay'
  BY <1>1, <1>2 DEF ChatInv, WritersOnTheirWay
<1> QED
  BY <1>3, <1>4, <1>5, <1>6 DEF ChatInv

\* The container calls onClose, which takes the endpoint out of the set.
LEMMA CloseRemoves ==
    ASSUME ChatInv, NEW c \in Client, Chat!OnCloseRemove(c)
    PROVE  ChatInv'
<1> USE HandlersOfClients
<1>1. /\ session[c] = "closed" /\ connections' = connections \ {c}
      /\ pc[Chat!OnClose(c)] = "idle" /\ pc' = [pc EXCEPT ![Chat!OnClose(c)] = "call"]
      /\ UNCHANGED <<session, broken, sending, frames, victim, said>>
  BY DEF Chat!OnCloseRemove, Chat!Unregister, Chat!containerVars
<1>2. /\ pc'[Chat!OnClose(c)] = "call"
      /\ \A t \in Chat!Handler : t # Chat!OnClose(c) => pc'[t] = pc[t]
  BY <1>1 DEF ChatInv, Chat!TypeOK
<1>3. Chat!TypeOK'
  BY <1>1, <1>2 DEF ChatInv, Chat!TypeOK, Chat!ContainerTypeOK, Chat!Pc
<1>4. ChatLifecycle'
  <2>1. \A d \in Client : Dropping(d) => Dropping(d)'
    BY <1>1, <1>2 DEF Dropping
  <2> QED
    BY <1>1, <1>2, <2>1 DEF ChatInv, ChatLifecycle
<1>5. KnownTargets'
  BY <1>1, <1>2 DEF ChatInv, KnownTargets, Known
<1>6. WritersOnTheirWay'
  BY <1>1, <1>2 DEF ChatInv, WritersOnTheirWay
<1> QED
  BY <1>3, <1>4, <1>5, <1>6 DEF ChatInv

\* The loop visits its next client, one that has connected: the frame gets shorter.
LEMMA VisitedIsKnown ==
    ASSUME ChatInv, NEW t \in Chat!Handler, NEW d \in Client, Chat!Visits(t, d)
    PROVE  /\ session[d] # "none"
           /\ Chat!Frame(Head(frames[t]) \ {d}, Tail(frames[t])) \in Seq(SUBSET Known)
<1>1. frames[t] \in Seq(SUBSET Known) /\ frames[t] # <<>> /\ d \in Head(frames[t])
  BY DEF ChatInv, KnownTargets, Chat!Visits
<1>2. Head(frames[t]) \in SUBSET Known
  BY <1>1, HeadTailProperties
<1> QED
  BY <1>1, <1>2, VisitType DEF Known

\* A broadcast starts to write to a client (51-53).
LEMMA SendStarts ==
    ASSUME ChatInv, NEW t \in Chat!Handler, NEW d \in Client, Chat!BroadcastSend(t, d)
    PROVE  ChatInv'
<1> USE HandlersOfClients
<1>1. /\ pc[t] = "broadcast" /\ ~Chat!Sending(t)
      /\ sending' = sending \cup {[thread |-> t, to |-> d]}
      /\ frames' = [frames EXCEPT ![t] = Chat!Frame(Head(@) \ {d}, Tail(@))]
      /\ UNCHANGED <<session, broken, connections, pc, victim, said>>
  BY DEF Chat!BroadcastSend, Chat!Visits, Chat!StartText, Chat!Text, Chat!MovesOn
<1>2. /\ session[d] # "none"
      /\ Chat!Frame(Head(frames[t]) \ {d}, Tail(frames[t])) \in Seq(SUBSET Known)
  BY VisitedIsKnown DEF Chat!BroadcastSend
<1>3. Chat!TypeOK'
  <2>1. Chat!Frame(Head(frames[t]) \ {d}, Tail(frames[t])) \in Seq(SUBSET Client)
    BY <1>2, StackMonotone DEF Known
  <2>2. frames' \in [Chat!Handler -> Seq(SUBSET Client)]
    BY <1>1, <2>1 DEF ChatInv, Chat!TypeOK
  <2>3. sending' \subseteq [thread : Chat!Threads, to : Client]
    BY <1>1 DEF ChatInv, Chat!TypeOK, Chat!ContainerTypeOK
  <2> QED
    BY <1>1, <2>2, <2>3 DEF ChatInv, Chat!TypeOK, Chat!ContainerTypeOK
<1>4. ChatLifecycle'
  BY <1>1 DEF ChatInv, ChatLifecycle, Dropping
<1>5. KnownTargets'
  <2>1. \A u \in Chat!Handler : frames'[u] \in Seq(SUBSET Known)
    BY <1>1, <1>2 DEF ChatInv, Chat!TypeOK, KnownTargets
  <2> QED
    BY <1>1, <1>2, <2>1 DEF ChatInv, KnownTargets, Known
<1>6. WritersOnTheirWay'
  BY <1>1 DEF ChatInv, WritersOnTheirWay, Chat!Sending
<1> QED
  BY <1>3, <1>4, <1>5, <1>6 DEF ChatInv

\* A write ends with an exception: the catch block takes the client out (56-57).
LEMMA SendFails ==
    ASSUME ChatInv, NEW t \in Chat!Handler, NEW d \in Client, Chat!BroadcastFails(t, d)
    PROVE  ChatInv'
<1> USE HandlersOfClients
<1>1. /\ [thread |-> t, to |-> d] \in sending
      /\ sending' = sending \ {[thread |-> t, to |-> d]}
      /\ connections' = connections \ {d}
      /\ victim' = [victim EXCEPT ![t] = d]
      /\ pc' = [pc EXCEPT ![t] = "drop"]
      /\ UNCHANGED <<session, broken, frames, said>>
  BY DEF Chat!BroadcastFails, Chat!EndText, Chat!Text, Chat!Unregister, Chat!RememberVictim
<1>2. pc[t] = "broadcast" /\ session[d] # "none" /\ \A s \in sending' : s.thread # t
  BY <1>1 DEF ChatInv, WritersOnTheirWay, KnownTargets
<1>3. /\ pc'[t] = "drop" /\ victim'[t] = d
      /\ \A u \in Chat!Handler : u # t => pc'[u] = pc[u] /\ victim'[u] = victim[u]
  BY <1>1 DEF ChatInv, Chat!TypeOK
<1>4. Chat!TypeOK'
  <2>1. pc' \in [Chat!Handler -> Chat!Pc] /\ victim' \in [Chat!Handler -> Client \cup {NoClient}]
    BY <1>1 DEF ChatInv, Chat!TypeOK, Chat!Pc
  <2>2. \A u \in Chat!Handler : pc'[u] = "drop" => victim'[u] \in Client
    BY <1>3 DEF ChatInv, Chat!TypeOK
  <2> QED
    BY <1>1, <2>1, <2>2 DEF ChatInv, Chat!TypeOK, Chat!ContainerTypeOK
<1>5. ChatLifecycle'
  <2>1. \A c \in Client : Dropping(c) \/ c = d => Dropping(c)'
    BY <1>2, <1>3 DEF Dropping
  <2>2. \A u \in Chat!Handler : pc'[u] = "idle" <=> pc[u] = "idle"
    BY <1>2, <1>3
  <2> QED
    BY <1>1, <2>1, <2>2 DEF ChatInv, ChatLifecycle
<1>6. KnownTargets'
  BY <1>1, <1>2, <1>3 DEF ChatInv, KnownTargets, Known
<1>7. WritersOnTheirWay'
  BY <1>1, <1>2, <1>3 DEF ChatInv, WritersOnTheirWay
<1> QED
  BY <1>4, <1>5, <1>6, <1>7 DEF ChatInv

\* The other steps of a broadcast, and onError, only move their handler on.
LEMMA BroadcastGoesOn ==
    ASSUME ChatInv, NEW t \in Chat!Handler,
           \/ Chat!Broadcast(t) \/ Chat!DropClient(t) \/ Chat!HandlerReturns(t) \/ Chat!OnError(t)
           \/ \E d \in Client : Chat!BroadcastRefused(t, d) \/ Chat!BroadcastSent(t, d)
    PROVE  ChatInv'
<1> USE HandlersOfClients DEF Chat!containerVars, Chat!Pc
<1>1. /\ session \in [Client -> Chat!SessionState] /\ frames \in [Chat!Handler -> Seq(SUBSET Known)]
      /\ victim \in [Chat!Handler -> Client \cup {NoClient}]
  BY DEF ChatInv, Chat!TypeOK, Chat!ContainerTypeOK, KnownTargets, Chat!SessionState
<1>2. pc[t] # "broadcast" => \A s \in sending : s.thread # t
  BY DEF ChatInv, WritersOnTheirWay
<1>3. CASE Chat!Broadcast(t)
  <2>1. connections \subseteq Known
    BY DEF ChatInv, Chat!TypeOK, ChatLifecycle, Known
  <2>2. Chat!Frame(connections, frames[t]) \in Seq(SUBSET Known)
    BY <1>1, <2>1, FrameType
  <2>3. frames' \in [Chat!Handler -> Seq(SUBSET Known)]
    BY <1>1, <1>3, <2>2 DEF Chat!Broadcast
  <2>4. Moves(t, "broadcast")
    BY <1>1, <1>3, <2>3 DEF Moves, Chat!Broadcast
  <2> QED
    BY <2>4, HandlerMoves
<1>4. CASE Chat!DropClient(t)
  <2>1. victim[t] \in Client /\ session[victim[t]] # "none"
    BY <1>4 DEF ChatInv, Chat!TypeOK, KnownTargets, Chat!DropClient
  <2>2. /\ victim' \in [Chat!Handler -> Client \cup {NoClient}]
        /\ \A u \in Chat!Handler : u # t => victim'[u] = victim[u]
    BY <1>1, <1>4 DEF Chat!DropClient
  <2>3. /\ session' \in [Client -> Chat!SessionState] /\ session'[victim[t]] = "closed"
        /\ \A c \in Client : c # victim[t] => session'[c] = session[c]
    BY <1>1, <1>4, <2>1 DEF Chat!DropClient, Chat!Close, Chat!SessionState
  <2>4. /\ pc[t] = "drop" /\ pc' = [pc EXCEPT ![t] = "call"]
        /\ UNCHANGED <<broken, sending, connections, frames, said>>
    BY <1>4 DEF Chat!DropClient
  <2>5. \A c \in Client : session'[c] # session[c]
                              => session[c] # "none" /\ session'[c] = "closed"
    BY <2>1, <2>3
  <2>6. frames' \in [Chat!Handler -> Seq(SUBSET Known)]
    BY <1>1, <2>4
  <2>7. Moves(t, "call")
    BY <1>2, <2>2, <2>3, <2>4, <2>5, <2>6 DEF Moves
  <2> QED
    BY <2>7, HandlerMoves
<1>5. Chat!Returned(t) = "idle" => \A c \in Client : t # Chat!OnOpen(c)
  BY DEF Chat!Returned, Chat!OnOpen, Chat!Thread
<1>6. Chat!Returned(t) \in Chat!Pc \ {"drop"}
  BY DEF Chat!Returned
<1>7. CASE Chat!HandlerReturns(t)
  <2>1. \A s \in sending : s.thread # t
    BY <1>7 DEF Chat!HandlerReturns, Chat!BroadcastDone, Chat!Sending
  <2>2. Moves(t, Chat!Returned(t))
    BY <1>1, <1>5, <1>7, <2>1 DEF Moves, Chat!HandlerReturns, Chat!BroadcastDone
  <2> QED
    BY <1>6, <2>2, HandlerMoves
<1>8. CASE Chat!OnError(t)
  <2>1. session[t.of] # "none" /\ t.of \in Client
    BY <1>8 DEF Chat!OnError, ChatInv, ChatLifecycle
  <2>2. /\ session' \in [Client -> Chat!SessionState]
        /\ \A c \in Client : session'[c] # session[c]
                                => session[c] # "none" /\ session'[c] = "closed"
    BY <1>1, <1>8, <2>1 DEF Chat!OnError, Chat!Close, Chat!SessionState
  <2>3. /\ pc[t] = "failed" /\ pc' = [pc EXCEPT ![t] = Chat!Returned(t)]
        /\ UNCHANGED <<broken, sending, connections, frames, victim, said>>
    BY <1>8 DEF Chat!OnError
  <2>4. frames' \in [Chat!Handler -> Seq(SUBSET Known)]
    BY <1>1, <2>3
  <2>5. Moves(t, Chat!Returned(t))
    BY <1>1, <1>2, <1>5, <2>2, <2>3, <2>4 DEF Moves
  <2> QED
    BY <1>6, <2>5, HandlerMoves
<1>9. ASSUME NEW d \in Client, Chat!BroadcastRefused(t, d)
      PROVE  ChatInv'
  <2>1. \A s \in sending : s.thread # t
    BY <1>9 DEF Chat!BroadcastRefused, Chat!Visits, Chat!Sending
  <2>2. frames' \in [Chat!Handler -> Seq(SUBSET Known)]
    <3>1. <<>> \in Seq(SUBSET Known)
      OBVIOUS
    <3> QED
      BY <1>1, <1>9, <3>1 DEF Chat!BroadcastRefused
  <2>3. /\ pc[t] = "broadcast" /\ pc' = [pc EXCEPT ![t] = "failed"]
        /\ UNCHANGED <<session, broken, sending, connections, victim, said>>
    BY <1>9 DEF Chat!BroadcastRefused, Chat!Visits
  <2>4. Moves(t, "failed")
    BY <1>1, <2>1, <2>2, <2>3 DEF Moves
  <2> QED
    BY <2>4, HandlerMoves
<1>10. ASSUME NEW d \in Client, Chat!BroadcastSent(t, d)
       PROVE  ChatInv'
  <2>1. sending' \subseteq sending /\ pc[t] = "broadcast"
    BY <1>10 DEF Chat!BroadcastSent, Chat!EndText, Chat!Text, ChatInv, WritersOnTheirWay
  <2>2. pc' = [pc EXCEPT ![t] = "broadcast"]
    BY <1>10, <2>1 DEF Chat!BroadcastSent, Chat!endpointVars, ChatInv, Chat!TypeOK
  <2>3. Moves(t, "broadcast")
    BY <1>1, <1>10, <2>1, <2>2 DEF Moves, Chat!BroadcastSent, Chat!endpointVars
  <2> QED
    BY <2>3, HandlerMoves
<1> QED
  BY <1>3, <1>4, <1>7, <1>8, <1>9, <1>10

-----------------------------------------------------------------------------
\* Nobody is connected at first.
LEMMA Initially == Chat!Init => ChatInv
<1> SUFFICES ASSUME Chat!Init PROVE ChatInv
  OBVIOUS
<1>1. /\ \A S : <<>> \in Seq(S)
      /\ \A c \in Client : session[c] = "none"
      /\ \A t \in Chat!Handler : pc[t] = "idle" /\ frames[t] = <<>>
      /\ sending = {} /\ connections = {}
  BY DEF Chat!Init, Chat!ContainerInit
<1>2. Chat!TypeOK
  <2>1. frames \in [Chat!Handler -> Seq(SUBSET Client)]
    BY <1>1 DEF Chat!Init
  <2>2. said \in [Client -> 0..MaxMessages]
    BY TalkAssumption DEF Chat!Init
  <2> QED
    BY <1>1, <2>1, <2>2 DEF Chat!Init, Chat!ContainerInit, Chat!TypeOK, Chat!ContainerTypeOK, Chat!SessionState, Chat!Pc
<1>3. ChatLifecycle /\ KnownTargets /\ WritersOnTheirWay
  BY <1>1, HandlersOfClients DEF ChatLifecycle, KnownTargets, WritersOnTheirWay
<1> QED
  BY <1>2, <1>3 DEF ChatInv

\* Every step keeps the invariant, whatever overlaps.
LEMMA KeptByNext == ChatInv /\ [Chat!Next]_Chat!vars => ChatInv'
<1> SUFFICES ASSUME ChatInv, [Chat!Next]_Chat!vars
             PROVE  ChatInv'
  OBVIOUS
<1>1. session \in [Client -> Chat!SessionState] /\ broken \subseteq Client
  BY DEF ChatInv, Chat!TypeOK, Chat!ContainerTypeOK
<1>2. ASSUME NEW c \in Client, Chat!AddMessageHandler(c)
      PROVE  ChatInv'
  <2>1. Chat!OnOpen(c) \in Chat!Handler /\ pc[Chat!OnOpen(c)] = "handler"
    BY <1>2, HandlersOfClients DEF Chat!AddMessageHandler
  <2>2. PICK p \in {"call", "failed"} : pc' = [pc EXCEPT ![Chat!OnOpen(c)] = p]
    BY <1>2 DEF Chat!AddMessageHandler
  <2>3. \A s \in sending : s.thread # Chat!OnOpen(c)
    BY <2>1 DEF ChatInv, WritersOnTheirWay
  <2>4. victim \in [Chat!Handler -> Client \cup {NoClient}] /\ frames \in [Chat!Handler -> Seq(SUBSET Known)]
    BY DEF ChatInv, Chat!TypeOK, KnownTargets
  <2>5. Moves(Chat!OnOpen(c), p)
    BY <1>1, <1>2, <2>1, <2>2, <2>3, <2>4 DEF Moves, Chat!AddMessageHandler, Chat!containerVars
  <2> QED
    BY <2>1, <2>2, <2>5, HandlerMoves DEF Chat!Pc
<1>3. ASSUME NEW c \in Client, Chat!PeerCloses(c)
      PROVE  ChatInv'
  <2>1. session[c] = "open" /\ session' = [session EXCEPT ![c] = "closed"]
    BY <1>3 DEF Chat!PeerCloses, Chat!Close
  <2>2. /\ session' \in [Client -> Chat!SessionState]
        /\ \A d \in Client : session'[d] # session[d]
                                => session[d] # "none" /\ session'[d] = "closed"
    BY <1>1, <2>1 DEF Chat!SessionState
  <2> QED
    BY <1>1, <1>3, <2>2, PeerMoves DEF Chat!PeerCloses
<1>4. ASSUME NEW c \in Client, Chat!PeerLinkBreaks(c)
      PROVE  ChatInv'
  BY <1>1, <1>4, PeerMoves DEF Chat!PeerLinkBreaks, Chat!LinkBreaks
<1>5. ASSUME NEW t \in Chat!Handler, Chat!BroadcastStep(t)
      PROVE  ChatInv'
  BY <1>5, SendStarts, SendFails, BroadcastGoesOn DEF Chat!BroadcastStep
<1>6. CASE UNCHANGED Chat!vars
  BY <1>1, <1>6, PeerMoves DEF Chat!vars, Chat!containerVars
<1> QED
  BY <1>2, <1>3, <1>4, <1>5, <1>6, Registers, MessageStarts, CloseRemoves DEF Chat!Next

LEMMA Invariance == Chat!Spec => []ChatInv
BY Initially, KeptByNext, PTL DEF Chat!Spec

\* Type correctness: every variable of the endpoint keeps its range, and a broadcast that
\* drops a client knows which one (WsEndpoint.java 49-62).
THEOREM ChatTypeCorrect == Chat!Spec => []Chat!TypeOK
<1>1. ChatInv => Chat!TypeOK
  BY DEF ChatInv
<1> QED
  BY <1>1, Invariance, PTL

\* The endpoint settles: once no handler is running, those registered are those of the
\* open sessions, whatever overlapped before (onOpen, onClose and the catch blocks of
\* broadcast, WsEndpoint.java 29-68).
LEMMA Settles == ChatInv => Chat!EndpointSettles
<1> SUFFICES ASSUME ChatInv, Chat!Quiescent
             PROVE  connections = {c \in Client : session[c] = "open"}
  BY DEF Chat!EndpointSettles
<1>1. \A t \in Chat!Handler : pc[t] \in {"idle", "done"}
  BY HandlersOfClients DEF Chat!Quiescent
<1>2. \A c \in Client : ~Dropping(c)
  BY <1>1 DEF Dropping
<1>3. connections \subseteq Client /\ \A c \in Client : session[c] \in Chat!SessionState
  BY DEF ChatInv, Chat!TypeOK, Chat!ContainerTypeOK
<1>4. \A c \in Client : c \in connections => session[c] = "open"
  BY <1>3 DEF ChatInv, ChatLifecycle, Chat!Quiescent, Chat!SessionState
<1>5. \A c \in Client : session[c] = "open" => c \in connections
  BY <1>2 DEF ChatInv, ChatLifecycle
<1> QED
  BY <1>3, <1>4, <1>5

THEOREM SettledEndpoint == Chat!Spec => []Chat!EndpointSettles
BY Settles, Invariance, PTL

\* A broadcast throws only over a member that was closed: nobody else writes to a member
\* while its monitor is held, and only connected ones are visited (50-53).
LEMMA RefusedByClosed ==
    ASSUME ChatInv, [Chat!Next]_Chat!vars, NEW t \in Chat!Handler, pc[t] = "broadcast", pc'[t] = "failed"
    PROVE  \E d \in Head(frames[t]) : session[d] = "closed"
<1> USE HandlersOfClients
<1>1. pc \in [Chat!Handler -> Chat!Pc]
  BY DEF ChatInv, Chat!TypeOK
<1>2. PICK d \in Client : Chat!BroadcastRefused(t, d)
  <2>1. \A c \in Client : ~Chat!OnOpenRegister(c) /\ ~Chat!OnCloseRemove(c)
    BY <1>1 DEF Chat!OnOpenRegister, Chat!OnCloseRemove
  <2>2. \A c \in Client : ~Chat!AddMessageHandler(c)
    BY <1>1 DEF Chat!AddMessageHandler
  <2>3. \A c \in Talker : ~Chat!OnMessageStarts(c)
    BY <1>1 DEF Chat!OnMessageStarts
  <2>4. \A c \in Client : ~Chat!PeerCloses(c) /\ ~Chat!PeerLinkBreaks(c)
    BY DEF Chat!PeerCloses, Chat!PeerLinkBreaks, Chat!endpointVars
  <2>5. PICK u \in Chat!Handler : Chat!BroadcastStep(u)
    BY <2>1, <2>2, <2>3, <2>4 DEF Chat!Next, Chat!vars, Chat!endpointVars
  <2>6. PICK d \in Client : Chat!BroadcastRefused(u, d)
    BY <1>1, <2>5 DEF Chat!BroadcastStep, Chat!Broadcast, Chat!BroadcastSend, Chat!BroadcastSent,
       Chat!BroadcastFails, Chat!DropClient, Chat!HandlerReturns, Chat!OnError, Chat!Returned, Chat!endpointVars
  <2>7. u = t
    BY <1>1, <2>6 DEF Chat!BroadcastRefused
  <2> QED
    BY <2>6, <2>7
<1>3. d \in Head(frames[t]) /\ ~Chat!CanWrite(d) /\ Chat!WritersTo(d) = {} /\ session[d] # "none"
  BY <1>2, VisitedIsKnown DEF Chat!BroadcastRefused, Chat!Visits, Chat!MonitorFree
<1>4. session[d] \in Chat!SessionState
  BY DEF ChatInv, Chat!TypeOK, Chat!ContainerTypeOK
<1> QED
  BY <1>3, <1>4 DEF Chat!CanWrite, Chat!SessionState

THEOREM RefusalsHaveACause == Chat!Spec => Chat!RefusedOnlyIfClosed
<1>1. ChatInv /\ [Chat!Next]_Chat!vars =>
          [\A t \in Chat!Handler : pc[t] = "broadcast" /\ pc'[t] = "failed"
                                => \E d \in Head(frames[t]) : session[d] = "closed"]_Chat!vars
  BY RefusedByClosed
<1> QED
  BY <1>1, Invariance, PTL DEF Chat!Spec, Chat!RefusedOnlyIfClosed

-----------------------------------------------------------------------------
(* In the container, beside the other endpoint.                            *)

MCInv == endpoint = "chat" => ChatInv

LEMMA MCInvariance == MCSpec => []MCInv
<1>1. MCInit => MCInv
  BY Initially DEF MCInit, MCInv
<1>2. MCInv /\ [MCNext]_mcVars => MCInv'
  <2> SUFFICES ASSUME MCInv, [MCNext]_mcVars, endpoint' = "chat"
               PROVE  ChatInv'
    BY DEF MCInv
  <2>1. endpoint = "chat" /\ [Chat!Next]_Chat!vars
    BY DEF MCNext, Spring, Chats, mcVars, vars, chatVars, Chat!vars, Chat!endpointVars,
           containerVars, Chat!containerVars
  <2> QED
    BY <2>1, KeptByNext DEF MCInv
<1> QED
  BY <1>1, <1>2, PTL DEF MCSpec

\* The chat endpoint settles when the container serves it (WsEndpoint.java 29-68).
THEOREM SettledInContainer == MCSpec => []EndpointSettles
<1>1. MCInv => EndpointSettles
  BY Settles DEF MCInv, EndpointSettles
<1> QED
  BY <1>1, MCInvariance, PTL

\* In the container, a broadcast throws only over a member that was closed (50-53).
THEOREM RefusalsInContainer == MCSpec => RefusedOnlyIfClosed
<1>1. MCInv /\ [MCNext]_mcVars =>
          [\A t \in Chat!Handler : pc[t] = "broadcast" /\ pc'[t] = "failed"
                                => \E d \in Head(frames[t]) : session[d] = "closed"]_Chat!vars
  <2> SUFFICES ASSUME MCInv, [MCNext]_mcVars, NEW t \in Chat!Handler,
                      pc[t] = "broadcast", pc'[t] = "failed"
               PROVE  \E d \in Head(frames[t]) : session[d] = "closed"
    OBVIOUS
  <2>1. endpoint = "chat" /\ [Chat!Next]_Chat!vars
    BY DEF MCNext, MCInv, Spring, Chats, mcVars, vars, chatVars, Chat!vars,
           Chat!endpointVars, containerVars, Chat!containerVars
  <2> QED
    BY <2>1, RefusedByClosed DEF MCInv
<1> QED
  BY <1>1, MCInvariance, PTL DEF MCSpec, RefusedOnlyIfClosed, Chat!RefusedOnlyIfClosed
=============================================================================
