\* One run queues one callback or job in each of its calls; two wait at the same time.
SPECIFICATION Spec
CONSTANTS
    Job = {parent, child}
    PreCb = {watcher}
    PostCb = {hook}
    Id <- MCId
    AllowRecurse = {child, watcher}
    RecursionLimit = 1
    MaxCalls = 1
    MaxWaiting = 2
    NoTask = NoTask
INVARIANT DrainsAll
CHECK_DEADLOCK FALSE
