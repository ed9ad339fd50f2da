------------------------- MODULE MyWebSocketHandler -------------------------
(***************************************************************************)
(* The Spring endpoint /spring.ws: com.hg.hyy.handlers.MyWebSocketHandler, *)
(* whose userMap remembers one session for each user, together with the    *)
(* handshake (interceptors.WebSocketInterceptor) that names the user.      *)
(*                                                                         *)
(* A client is one connection.  Spring closes a session whose callback     *)
(* throws.  The public methods sendMessageToUser and sendMessageToAllUsers *)
(* run in a request thread.                                                *)
(***************************************************************************)
EXTENDS WsContainer

CONSTANTS User,      \* the values of the parameter userId that are not blank
          NoUser,    \* a missing or blank userId
          Restless   \* the users that may connect again before the handler
                     \* has seen the end of their earlier connection

ASSUME UserAssumption ==
    NoUser \notin User /\ Restless \subseteq User

VARIABLES user,        \* user[c]: the attribute "currentUser" of c
          userMap,     \* userMap[u]: the session kept for u, or NoClient
          openPc,      \* openPc[c]: where afterConnectionEstablished stands
          msgPc,       \* msgPc[c]: where handleMessage or handleTransportError stands
          closePc,     \* closePc[c]: whether afterConnectionClosed has run
          callPc,      \* where the call of sendMessageToUser stands
          todo,        \* the users that call has still to send to
          target       \* the session it got from the map

handlerVars == <<user, userMap, openPc, msgPc, closePc, callPc, todo, target>>
vars == <<containerVars, handlerVars>>

OnOpen(c) == Thread("onOpen", c)
OnMessage(c) == Thread("onMessage", c)
Caller == Thread("http", NoClient)

TypeOK ==
    /\ ContainerTypeOK
    /\ user \in [Client -> User \cup {NoUser}]
    /\ userMap \in [User -> Client \cup {NoClient}]
    /\ openPc \in [Client -> {"idle", "put", "send", "sending", "done"}]
    /\ msgPc \in [Client -> {"idle", "message", "error"}]
    /\ closePc \in [Client -> {"idle", "done"}]
    /\ callPc \in {"idle", "check", "send", "sending"}
    /\ todo \subseteq User
    /\ target \in Client \cup {NoClient}
    /\ callPc \in {"check", "send", "sending"} => target \in Client
    /\ \A u \in User : userMap[u] # NoClient => user[userMap[u]] = u

Init ==
    /\ ContainerInit
    /\ user = [c \in Client |-> NoUser]
    /\ userMap = [u \in User |-> NoClient]
    /\ openPc = [c \in Client |-> "idle"]
    /\ msgPc = [c \in Client |-> "idle"]
    /\ closePc = [c \in Client |-> "idle"]
    /\ callPc = "idle"
    /\ todo = {}
    /\ target = NoClient

-----------------------------------------------------------------------------
Keys == {u \in User : userMap[u] # NoClient}

\* The connections of u whose end the handler has not seen.
Live(u) == {c \in Client : user[c] = u /\ session[c] # "none" /\ closePc[c] = "idle"}

\* beforeHandshake: the request names the user, or nobody.
Handshake(c, u) ==
    /\ session[c] = "none"
    /\ u \in User \ Restless => Live(u) = {}
    /\ session' = [session EXCEPT ![c] = "open"]
    /\ user' = [user EXCEPT ![c] = u]
    /\ openPc' = [openPc EXCEPT ![c] = IF u \in User THEN "put" ELSE "done"]
    /\ UNCHANGED <<broken, sending, userMap, msgPc, closePc, callPc, todo, target>>

Remember(c) == userMap' = [userMap EXCEPT ![user[c]] = c]

\* afterConnectionEstablished: store the session, ...
Establish(c) ==
    /\ openPc[c] = "put"
    /\ Remember(c)
    /\ openPc' = [openPc EXCEPT ![c] = "send"]
    /\ UNCHANGED <<containerVars, user, msgPc, closePc, callPc, todo, target>>

\* ... and greet the user.
GreetSend(c) ==
    /\ openPc[c] = "send"
    /\ StartText(OnOpen(c), c)
    /\ openPc' = [openPc EXCEPT ![c] = "sending"]
    /\ UNCHANGED <<session, broken, user, userMap, msgPc, closePc, callPc, todo,
                   target>>

GreetRefused(c) ==
    /\ openPc[c] = "send"
    /\ ~CanWrite(c)
    /\ Close(c)
    /\ openPc' = [openPc EXCEPT ![c] = "done"]
    /\ UNCHANGED <<broken, sending, user, userMap, msgPc, closePc, callPc, todo,
                   target>>

\* The text of t to c ends; an IOException makes Spring close the session.
CallbackEnds(t, c) ==
    /\ EndText(t, c)
    /\ UNCHANGED session \/ (MayFail(c) /\ Close(c))

GreetEnds(c) ==
    /\ CallbackEnds(OnOpen(c), c)
    /\ openPc' = [openPc EXCEPT ![c] = "done"]
    /\ UNCHANGED <<broken, user, userMap, msgPc, closePc, callPc, todo, target>>

-----------------------------------------------------------------------------
\* The container hands over a message or a transport error of c.
Reading(c) ==
    /\ session[c] = "open"
    /\ openPc[c] = "done"
    /\ msgPc[c] = "idle"

\* handleMessage and handleTransportError both send one text back.
ReplySend(c) ==
    /\ Reading(c)
    /\ StartText(OnMessage(c), c)
    /\ \/ msgPc' = [msgPc EXCEPT ![c] = "message"]
       \/ c \in broken /\ msgPc' = [msgPc EXCEPT ![c] = "error"]
    /\ UNCHANGED <<session, broken, user, userMap, openPc, closePc, callPc, todo,
                   target>>

ReplyRefused(c) ==
    /\ Reading(c)
    /\ ~CanWrite(c)
    /\ Close(c)
    /\ UNCHANGED <<broken, sending, handlerVars>>

\* After a transport error the container closes the session.
ReplyEnds(c) ==
    /\ CallbackEnds(OnMessage(c), c)
    /\ msgPc[c] = "error" => session'[c] = "closed"
    /\ msgPc' = [msgPc EXCEPT ![c] = "idle"]
    /\ UNCHANGED <<broken, user, userMap, openPc, closePc, callPc, todo, target>>

\* Wrong variants: the entry stays, every entry goes.
ForgetsNothing(c) == c \in Client /\ UNCHANGED userMap
ForgetsAll(c) == c \in Client /\ userMap' = [u \in User |-> NoClient]

\* userMap.remove(userId): whichever session it holds.
Forget(c) ==
    IF user[c] \in User
    THEN userMap' = [userMap EXCEPT ![user[c]] = NoClient]
    ELSE UNCHANGED userMap

\* afterConnectionClosed: the container calls it once for a closed session.
AfterConnectionClosed(c) ==
    /\ session[c] = "closed"
    /\ closePc[c] = "idle"
    /\ Forget(c)
    /\ closePc' = [closePc EXCEPT ![c] = "done"]
    /\ UNCHANGED <<containerVars, user, openPc, msgPc, callPc, todo, target>>

-----------------------------------------------------------------------------
\* sendMessageToUser(u), or sendMessageToAllUsers: the iterator over the key set
\* sees every key there is now and possibly keys that come later.
Call(users) ==
    /\ callPc = "idle"
    /\ todo = {}
    /\ todo' = users
    /\ UNCHANGED <<containerVars, user, userMap, openPc, msgPc, closePc, callPc,
                   target>>

SendMessageToUser == \E u \in User : Call({u})
SendMessageToAllUsers == \E users \in SUBSET User : Keys \subseteq users /\ Call(users)

\* userMap.get(userId).
GetSession(u) ==
    /\ callPc = "idle"
    /\ u \in todo
    /\ todo' = todo \ {u}
    /\ target' = userMap[u]
    /\ callPc' = IF target' = NoClient THEN "idle" ELSE "check"
    /\ UNCHANGED <<containerVars, user, userMap, openPc, msgPc, closePc>>

CallReturns == callPc' = "idle" /\ target' = NoClient

\* session.isOpen().
CheckOpen ==
    /\ callPc = "check"
    /\ \/ session[target] = "open" /\ callPc' = "send" /\ UNCHANGED target
       \/ session[target] # "open" /\ CallReturns
    /\ UNCHANGED <<containerVars, user, userMap, openPc, msgPc, closePc, todo>>

\* The catch block takes an IOException only: the loop is left.
LeavesLoop == todo' = {}

CallSend ==
    /\ callPc = "send"
    /\ StartText(Caller, target)
    /\ callPc' = "sending"
    /\ UNCHANGED <<session, broken, user, userMap, openPc, msgPc, closePc, todo, target>>

CallRefused ==
    /\ callPc = "send"
    /\ ~CanWrite(target)
    /\ LeavesLoop
    /\ CallReturns
    /\ UNCHANGED <<containerVars, user, userMap, openPc, msgPc, closePc>>

\* A wrong variant: the loop is left after an IOException too.
CallEndsLoop ==
    /\ callPc = "sending"
    /\ EndText(Caller, target)
    /\ CallReturns
    /\ LeavesLoop \/ UNCHANGED todo
    /\ UNCHANGED <<session, broken, user, userMap, openPc, msgPc, closePc>>

\* An IOException is caught and printed: the loop goes on.
CallEnds ==
    /\ callPc = "sending"
    /\ EndText(Caller, target)
    /\ CallReturns
    /\ UNCHANGED <<session, broken, user, userMap, openPc, msgPc, closePc, todo>>

-----------------------------------------------------------------------------
\* The container: the peer leaves, or a dead connection is noticed.
PeerCloses(c) ==
    /\ session[c] = "open"
    /\ Reading(c) \/ WriteNotices(c)
    /\ Close(c)
    /\ UNCHANGED <<broken, sending, handlerVars>>

PeerLinkBreaks(c) == LinkBreaks(c) /\ UNCHANGED handlerVars

HandlerStep(c) ==
    \/ Establish(c)
    \/ GreetSend(c)
    \/ GreetRefused(c)
    \/ GreetEnds(c)
    \/ ReplyEnds(c)
    \/ AfterConnectionClosed(c)

CallStep ==
    \/ \E u \in User : GetSession(u)
    \/ CheckOpen
    \/ CallSend
    \/ CallRefused
    \/ CallEnds

Next ==
    \/ \E c \in Client : \/ \E u \in User \cup {NoUser} : Handshake(c, u)
                         \/ HandlerStep(c)
                         \/ ReplySend(c)
                         \/ ReplyRefused(c)
                         \/ PeerCloses(c)
                         \/ PeerLinkBreaks(c)
    \/ SendMessageToUser
    \/ SendMessageToAllUsers
    \/ CallStep

\* A callback that has begun, and the callback a closed session waits for, run.
Fairness ==
    /\ \A c \in Client : WF_vars(HandlerStep(c))
    /\ WF_vars(CallStep)

Spec == Init /\ [][Next]_vars
FairSpec == Spec /\ Fairness

-----------------------------------------------------------------------------
\* No session of the map is one whose afterConnectionClosed has run.
NoGhostInMap ==
    \A u \in Keys : closePc[userMap[u]] = "idle"

\* The users with a connection whose callbacks are at rest.
Connected ==
    {u \in User : \E c \in Live(u) : session[c] = "open" /\ openPc[c] = "done"}

\* userMap "stores the user's websocket connection": a user with a greeted, open
\* connection is in the map.
ConnectedUserIsInMap == Connected \subseteq Keys

\* It is so for every user who lets one connection end before the next begins,
\* whatever the other users do.
PatientUserIsInMap == Connected \ Restless \subseteq Keys

\* A message to all users is broken off, with users left over, only because the
\* session at hand was closed after isOpen or is being written to by its callback.
BrokenOffOnlyForACause ==
    [][todo # {} /\ callPc # "idle" /\ todo' = {}
          => \/ session[target] = "closed"
             \/ \E s \in WritersTo(target) : s.thread # Caller]_vars

\* The session of a closed connection leaves the map and never comes back.
ClosedLeavesMap ==
    \A c \in Client : <>[](session[c] = "closed" => \A u \in User : userMap[u] # c)
=============================================================================
