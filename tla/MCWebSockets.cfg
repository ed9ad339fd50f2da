\* Two connections. At /spring.ws of two users and of nobody, where u1 may reconnect
\* early; at /endpoint.ws one of them sends one message. All may be closed in the end.
SPECIFICATION MCSpec
CONSTANTS
    Client = {c1, c2}
    NoClient = NoClient
    User = {u1, u2}
    NoUser = NoUser
    Restless = {u1}
    Talker = {c1}
    MaxMessages = 1
INVARIANTS
    NoGhostInMap
    PatientUserIsInMap
    EndpointSettles
PROPERTIES
    BrokenOffOnlyForACause
    ClosedLeavesMap
    RefusedOnlyIfClosed
    BroadcastReturns
    ClosedLeavesForGood
CHECK_DEADLOCK FALSE
