---------------------------- MODULE MCWebSockets ----------------------------
(***************************************************************************)
(* A container with two connections to one of two endpoints: to            *)
(* /spring.ws, where one of two users may reconnect early, or to           *)
(* /endpoint.ws, where one connection sends a message.  The initial state  *)
(* picks the endpoint; the other has no connections.                       *)
(***************************************************************************)
EXTENDS MyWebSocketHandler, Sequences

CONSTANTS Talker, MaxMessages

\* The senders are connections.
ASSUME TalkAssumption == Talker \subseteq Client /\ MaxMessages \in Nat

VARIABLES connections, pc, frames, victim, said, endpoint

Chat == INSTANCE WsEndpoint

chatVars == <<connections, pc, frames, victim, said>>
mcVars == <<vars, chatVars, endpoint>>

MCInit == endpoint \in {"spring", "chat"} /\ Init /\ Chat!Init

Spring(step) == endpoint = "spring" /\ step /\ UNCHANGED <<chatVars, endpoint>>
Chats(step) == endpoint = "chat" /\ step /\ UNCHANGED <<handlerVars, endpoint>>

MCNext == Spring(Next) \/ Chats(Chat!Next)

\* The fairness of the endpoint that runs: the same conjuncts serve both.
MCSpec ==
    /\ MCInit /\ [][MCNext]_mcVars
    /\ \A c \in Client :
          /\ WF_mcVars(Spring(HandlerStep(c)) \/ Chats(Chat!AddMessageHandler(c)))
          /\ WF_mcVars(Spring(CallStep) \/ Chats(Chat!OnCloseRemove(c)))
    /\ \A t \in Chat!Handler : WF_mcVars(Chats(Chat!BroadcastStep(t)))

-----------------------------------------------------------------------------
\* onOpen and onClose: when the handlers are at rest, the endpoints registered are
\* exactly those of the open sessions.
EndpointSettles == endpoint = "chat" => Chat!EndpointSettles

\* broadcast: a client is dropped for a refused write only after it was closed; two
\* broadcasts never make each other fail.
RefusedOnlyIfClosed == Chat!RefusedOnlyIfClosed

\* broadcast calls itself for each client it finds dead, and still returns.
BroadcastReturns == Chat!BroadcastReturns

\* A client that is closed leaves the set and does not come back.
ClosedLeavesForGood == Chat!ClosedLeavesForGood
=============================================================================
