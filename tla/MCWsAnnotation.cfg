\* Two connections, one of which sends messages, and the request GET /v1/ws.
SPECIFICATION FairSpec
CONSTANTS
    Client = {c1, c2}
    NoClient = NoClient
    Talker = {c1}
    Background = {"http"}
INVARIANTS
    HubSettles
PROPERTIES
    SkippedOnlyForUnlockedWriter
    JoinFailsOnlyForACause
    BroadcastReturns
    ClosedLeavesForGood
