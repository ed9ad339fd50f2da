----------------------------- MODULE WsContainer -----------------------------
(***************************************************************************)
(* The part of the servlet container (Tomcat's websocket support, outside  *)
(* src/) that the endpoints of com.hg.hyy.websocket lean on: the life of a *)
(* javax.websocket.Session and the blocking sendText of its basic remote.  *)
(*                                                                         *)
(* A client stands for one connection, hence for one endpoint object and   *)
(* one Session.  A send takes two steps, so that other threads can run     *)
(* while the text is on its way out.  The container refuses a send         *)
(* (IllegalStateException) on a closed session, and on one to which some   *)
(* thread is already writing.  A started send ends normally, or with an    *)
(* IOException when the connection is broken or was closed meanwhile; a    *)
(* send into a broken connection may also end normally, since the text     *)
(* then only reached the buffers of the socket.                            *)
(***************************************************************************)
EXTENDS Naturals, FiniteSets

CONSTANTS Client,      \* the connections of one behaviour
          NoClient     \* the client of a thread that belongs to no connection

ASSUME ClientAssumption == IsFiniteSet(Client) /\ NoClient \notin Client

VARIABLES session,     \* session[c]: the life of c's Session
          broken,      \* the clients whose network connection is dead
          sending      \* the sendText calls in progress

containerVars == <<session, broken, sending>>

SessionState == {"none", "open", "closed"}

ThreadKind == {"onOpen", "onMessage", "onClose", "timer", "http"}

Thread(kind, c) == [kind |-> kind, of |-> c]

Threads == [kind : ThreadKind, of : Client \cup {NoClient}]

ContainerTypeOK ==
    /\ session \in [Client -> SessionState]
    /\ broken \subseteq Client
    /\ sending \subseteq [thread : Threads, to : Client]

ContainerInit ==
    /\ session = [c \in Client |-> "none"]
    /\ broken = {}
    /\ sending = {}

Text(t, c) == [thread |-> t, to |-> c]

WritersTo(c) == {s \in sending : s.to = c}

Sending(t) == \E s \in sending : s.thread = t

\* A session accepts a text when it is open and nobody is writing to it; any
\* other send is refused with an IllegalStateException.
CanWrite(c) == session[c] = "open" /\ WritersTo(c) = {}

StartText(t, c) ==
    /\ CanWrite(c)
    /\ sending' = sending \cup {Text(t, c)}

EndText(t, c) ==
    /\ Text(t, c) \in sending
    /\ sending' = sending \ {Text(t, c)}

\* When the send in progress to c may end in an IOException.
MayFail(c) == c \in broken \/ session[c] = "closed"

\* A write to a broken connection notices it, in whichever thread it runs; the
\* container then closes the session before the write throws.
WriteNotices(c) == c \in broken /\ WritersTo(c) # {}

\* Session.close(): a second close changes nothing.
Close(c) == session' = [session EXCEPT ![c] = "closed"]

-----------------------------------------------------------------------------
\* The network under an open session dies; nobody is told.
LinkBreaks(c) ==
    /\ session[c] = "open"
    /\ c \notin broken
    /\ broken' = broken \cup {c}
    /\ UNCHANGED <<session, sending>>

=============================================================================
