\* A parent, its child, one callback of each kind, of which each run queues one thing, and
\* three that wait at a time; two instances of a child and four writes of the state, with
\* watchers of each flush option; two effects of three sorts on data of two keys; two
\* wrappers that ask up to three times; three children in KeepAlive, of which two have a
\* type in common, rendered up to four times. What an updating page has no more to do
\* with stays.
SPECIFICATION MCSpec
CONSTANTS
    Job = {parent, child}
    PreCb = {watcher}
    PostCb = {hook}
    Id <- MCId
    AllowRecurse = {child, watcher}
    RecursionLimit = 1
    MaxCalls = 1
    MaxWaiting = 3
    NoTask <- MCNoTask
    Child <- MCChild
    Flush = {"pre", "post", "sync"}
    Datum = {0, 1, 2}
    MaxWrites = 4
    UpdateLimit = 3
    Kinds = {"object", "array", "map", "set"}
    Plain = {"plain"}
    Queued = {"update"}
    Computed = {"computed"}
    Recurse = {}
    MaxLen = 2
    Value = {"a"}
    Writers = {"plain"}
    MaxEffects = 2
    MaxDepth = 6
    Wrapper = {"w1", "w2"}
    Controlled = {"w2"}
    MaxRequests = 3
    Kept <- MCKept
    Included <- MCIncluded
    Limit = {0, 2}
    NoChild = NoChild
    MaxRenders = 4
INVARIANTS
    DrainsWhenIdle
    NoStaleEffect
    PageIsCurrent
    KeptIsReachable
PROPERTIES
    FlushesInOrder
    WatchersAreTold
    AsyncIsAnswered
CHECK_DEADLOCK FALSE
