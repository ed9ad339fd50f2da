---------------------------- MODULE VueScheduler ----------------------------
(***************************************************************************)
(* The scheduler of the Vue runtime that vue.html loads: nextTick's queue  *)
(* of component updates, the callbacks before and after it, and the flush  *)
(* that runs them in one microtask.  JavaScript is single threaded, but    *)
(* the code is re-entered: what runs in a flush queues and removes work,   *)
(* runs a nested flush, or throws, so the call stack is part of the state. *)
(* A step is one call of the code, or one pass of one of its loops.        *)
(***************************************************************************)
EXTENDS Naturals, Sequences, FiniteSets, SequencesExt

CONSTANTS Job,             \* what goes into the queue: component updates
          PreCb,           \* callbacks that run before it: watchers
          PostCb,          \* callbacks that run after it: hooks, refs
          Id,              \* Id[t]: the id by which jobs and post callbacks are sorted
          AllowRecurse,    \* the tasks that may queue themselves
          RecursionLimit,  \* RECURSION_LIMIT, 100 in the code
          MaxCalls,        \* how much one task queues (a bound for TLC)
          MaxWaiting,      \* how much waits at a time (a bound for TLC)
          NoTask

Task == Job \cup PreCb \cup PostCb

ASSUME TaskAssumption ==
    /\ Id \in [Task -> Nat] /\ NoTask \notin Task
    /\ Job \cap (PreCb \cup PostCb) = {}  \* an update is no watcher's job and no hook
    /\ RecursionLimit \in Nat /\ MaxCalls \in Nat

VARIABLES queue, flushIndex, isFlushing, isFlushPending,
          pendingPre, activePre, preIndex, parentJob,  \* ...PreFlushCbs, ...ParentJob
          pendingPost, activePost, postIndex,          \* ...PostFlushCbs
          stack,  \* the calls under way, the innermost first
          thrown  \* an exception is on its way out

preVars == <<pendingPre, activePre, preIndex, parentJob>>
postVars == <<pendingPost, activePost, postIndex>>
queueVars == <<queue, flushIndex, isFlushing>>
schedulerVars == <<queueVars, isFlushPending, preVars, postVars, stack, thrown>>

-----------------------------------------------------------------------------
(* The calls.  flushJobs, flushPreFlushCbs and flushPostFlushCbs carry the  *)
(* Map that counts how often each task has run.                            *)

NotSeen == [t \in Task |-> 0]
Call(fn, at, seen, task, left) ==
    [fn |-> fn, at |-> at, seen |-> seen, task |-> task, left |-> left]
JobsCall(seen) == Call("flushJobs", "pre", seen, NoTask, 0)
PreCall(seen, parent) == Call("flushPre", "begin", seen, parent, 0)
PostCall(seen) == Call("flushPost", "begin", seen, NoTask, 0)
TaskCall(t) == Call("task", "runs", NotSeen, t, MaxCalls)

Runs(fn, at) == ~thrown /\ stack # <<>> /\ Head(stack).fn = fn /\ Head(stack).at = at
Below == Tail(stack)

\* The innermost call ends; a flushJobs below it goes on with the same Map.
Return ==
    stack' = IF Below # <<>> /\ Below[1].fn = "flushJobs" /\ Head(stack).fn # "flushJobs"
             THEN <<[Below[1] EXCEPT !.seen = Head(stack).seen]>> \o Tail(Below)
             ELSE Below

Goes(at) == stack' = <<[Head(stack) EXCEPT !.at = at]>> \o Below
GoesAndCalls(at, c) == stack' = <<c, [Head(stack) EXCEPT !.at = at]>> \o Below

\* [...new Set(s)] and the stable sort by id: of s, what stands at some indexes, each as
\* far from the front as there are others before it.
Arranged(s, indexes, before) ==
    [n \in 1..Cardinality(indexes) |->
        s[CHOOSE i \in indexes : Cardinality({k \in indexes : <<k, i>> \in before}) = n - 1]]
Distinct(s) ==
    Arranged(s, {i \in DOMAIN s : \A k \in 1..i - 1 : s[k] # s[i]},
             {p \in (DOMAIN s) \X (DOMAIN s) : p[1] < p[2]})
SortById(s) ==
    Arranged(s, DOMAIN s,
             {p \in (DOMAIN s) \X (DOMAIN s) :
                 \/ Id[s[p[1]]] < Id[s[p[2]]]
                 \/ Id[s[p[1]]] = Id[s[p[2]]] /\ p[1] < p[2]})

\* Array.prototype.includes with a start index, which counts from 0.
Includes(s, t, from) == \E i \in from + 1..Len(s) : s[i] = t

-----------------------------------------------------------------------------
(* What tasks, and the code outside the flush, call.                       *)

FlushPending == isFlushPending' = (isFlushPending \/ ~isFlushing)

\* A wrong variant: the search begins at the job that runs.
StartsAtCurrent(t) == flushIndex

SearchStart(t) == flushIndex + 1

\* Where the binary search may end, over indexes from 0: what it has found before that
\* place has a smaller id, what it has found there has not.  In a queue that is in order
\* there is one such place.
FindInsertionIndex(t) ==
    LET start == SearchStart(t)
    IN  IF start >= Len(queue) THEN {start}
        ELSE {i \in start..Len(queue) :
                 /\ i > start => Id[queue[i]] < Id[t]
                 /\ i < Len(queue) => Id[queue[i + 1]] >= Id[t]}

Wanted(t) ==
    /\ ~Includes(queue, t, IF isFlushing /\ t \in AllowRecurse THEN flushIndex + 1 ELSE flushIndex)
    /\ t # parentJob

QueueJob(t) ==
    IF Wanted(t)
    THEN /\ \E i \in FindInsertionIndex(t) :
               queue' = InsertAt(queue, IF i > Len(queue) THEN Len(queue) + 1 ELSE i + 1, t)
         /\ FlushPending
         /\ UNCHANGED <<flushIndex, isFlushing, preVars, postVars>>
    ELSE UNCHANGED <<queueVars, isFlushPending, preVars, postVars>>

InvalidateJob(t) ==
    /\ \E i \in DOMAIN queue :
          /\ queue[i] = t /\ \A k \in 1..i - 1 : queue[k] # t
          /\ queue' = IF i - 1 > flushIndex THEN RemoveAt(queue, i) ELSE queue
    /\ UNCHANGED <<flushIndex, isFlushing, isFlushPending, preVars, postVars>>

\* queueCb with a callback that is no array.
Pushed(t, active, index, pending) ==
    IF Includes(active, t, IF t \in AllowRecurse THEN index + 1 ELSE index)
    THEN pending ELSE Append(pending, t)

QueuePreFlushCb(t) ==
    /\ pendingPre' = Pushed(t, activePre, preIndex, pendingPre)
    /\ FlushPending
    /\ UNCHANGED <<queueVars, activePre, preIndex, parentJob, postVars>>

QueuePostFlushCb(t) ==
    /\ pendingPost' = Pushed(t, activePost, postIndex, pendingPost)
    /\ FlushPending
    /\ UNCHANGED <<queueVars, preVars, activePost, postIndex>>

-----------------------------------------------------------------------------
(* checkRecursiveUpdates and the run of one task.                          *)

TooOften(seen, t) == seen[t] > RecursionLimit

\* The innermost call, a loop, runs task t, or throws.
RunsTask(t) ==
    IF TooOften(Head(stack).seen, t)
    THEN thrown' = TRUE /\ UNCHANGED stack
    ELSE /\ stack' = <<TaskCall(t), [Head(stack) EXCEPT !.seen[t] = @ + 1]>> \o Below
         /\ UNCHANGED thrown

-----------------------------------------------------------------------------
FlushBegins ==
    /\ stack = <<>> /\ isFlushPending /\ ~thrown
    /\ isFlushPending' = FALSE /\ isFlushing' = TRUE
    /\ stack' = <<PreCall(NotSeen, NoTask), [JobsCall(NotSeen) EXCEPT !.at = "sort"]>>
    /\ UNCHANGED <<queue, flushIndex, preVars, postVars, thrown>>

\* A recursive flushJobs, from the finally of the outer one.
FlushRestarts ==
    /\ Runs("flushJobs", "pre")
    /\ isFlushPending' = FALSE /\ isFlushing' = TRUE
    /\ GoesAndCalls("sort", PreCall(Head(stack).seen, NoTask))
    /\ UNCHANGED <<queue, flushIndex, preVars, postVars, thrown>>

Sorts == queue' = SortById(queue)

QueueIsSorted ==
    /\ Runs("flushJobs", "sort")
    /\ Sorts
    /\ flushIndex' = 0
    /\ Goes("jobs")
    /\ UNCHANGED <<isFlushing, isFlushPending, preVars, postVars, thrown>>

\* The loop over the queue; a job that has returned leaves flushIndex for the
\* next pass.
NextJobRuns ==
    /\ Runs("flushJobs", "jobs")
    /\ flushIndex < Len(queue)
    /\ RunsTask(queue[flushIndex + 1])
    /\ UNCHANGED <<queueVars, isFlushPending, preVars, postVars>>

\* The finally block, up to its callbacks.
Finally(at) ==
    /\ flushIndex' = 0 /\ queue' = <<>>
    /\ GoesAndCalls(at, PostCall(Head(stack).seen))
    /\ UNCHANGED <<isFlushing, isFlushPending, preVars, postVars>>

QueueIsDone ==
    /\ Runs("flushJobs", "jobs")
    /\ flushIndex = Len(queue)
    /\ Finally("finally")
    /\ UNCHANGED thrown

\* A wrong variant: the flush does not look at what its callbacks queued.
NeverAgain == FALSE

\* "some postFlushCb queued jobs!"
FlushAgain == queue # <<>> \/ pendingPost # <<>>

\* The rest of the finally block; the exception it holds up, if any, goes on.
FlushEnds ==
    /\ (Runs("flushJobs", "finally") \/ Runs("flushJobs", "failed"))
    /\ isFlushing' = FALSE
    /\ IF FlushAgain
       THEN /\ GoesAndCalls(IF Head(stack).at = "failed" THEN "throws" ELSE "ends",
                            JobsCall(Head(stack).seen))
            /\ UNCHANGED thrown
       ELSE /\ Return
            /\ thrown' = (Head(stack).at = "failed")
    /\ UNCHANGED <<queue, flushIndex, isFlushPending, preVars, postVars>>

OuterFlushEnds ==
    /\ (Runs("flushJobs", "ends") \/ Runs("flushJobs", "throws"))
    /\ Return
    /\ thrown' = (Head(stack).at = "throws")
    /\ UNCHANGED <<queueVars, isFlushPending, preVars, postVars>>

-----------------------------------------------------------------------------
PreCbsBegin ==
    /\ Runs("flushPre", "begin")
    /\ IF pendingPre = <<>>
       THEN Return /\ UNCHANGED preVars
       ELSE /\ parentJob' = Head(stack).task
            /\ activePre' = Distinct(pendingPre) /\ pendingPre' = <<>> /\ preIndex' = 0
            /\ Goes("loop")
    /\ UNCHANGED <<queueVars, isFlushPending, postVars, thrown>>

NextPreCbRuns ==
    /\ Runs("flushPre", "loop")
    /\ preIndex < Len(activePre)
    /\ RunsTask(activePre[preIndex + 1])
    /\ UNCHANGED <<queueVars, isFlushPending, preVars, postVars>>

\* "recursively flush until it drains"
Drains == Goes("begin")

PreCbsEnd ==
    /\ Runs("flushPre", "loop")
    /\ preIndex = Len(activePre)
    /\ activePre' = <<>> /\ preIndex' = 0 /\ parentJob' = NoTask
    /\ Drains
    /\ UNCHANGED <<queueVars, isFlushPending, pendingPre, postVars, thrown>>

PostCbsBegin ==
    /\ Runs("flushPost", "begin")
    /\ LET deduped == Distinct(pendingPost)
       IN  /\ pendingPost' = <<>>
           /\ IF deduped = <<>>
              THEN Return /\ UNCHANGED <<activePost, postIndex>>
              ELSE IF activePost # <<>>  \* a nested call
              THEN Return /\ activePost' = activePost \o deduped /\ UNCHANGED postIndex
              ELSE Goes("loop") /\ activePost' = SortById(deduped) /\ postIndex' = 0
    /\ UNCHANGED <<queueVars, isFlushPending, preVars, thrown>>

NextPostCbRuns ==
    /\ Runs("flushPost", "loop")
    /\ postIndex < Len(activePost)
    /\ RunsTask(activePost[postIndex + 1])
    /\ UNCHANGED <<queueVars, isFlushPending, preVars, postVars>>

PostCbsEnd ==
    /\ Runs("flushPost", "loop")
    /\ postIndex = Len(activePost)
    /\ activePost' = <<>> /\ postIndex' = 0
    /\ Return
    /\ UNCHANGED <<queueVars, isFlushPending, preVars, pendingPost, thrown>>

-----------------------------------------------------------------------------
\* A task returns to its loop, whose index is incremented.
ReturnsToLoop ==
    /\ stack' = Below
    /\ CASE Below[1].fn = "flushJobs" ->
              /\ flushIndex' = flushIndex + 1
              /\ UNCHANGED <<preIndex, postIndex>>
         [] Below[1].fn = "flushPre" ->
              /\ preIndex' = preIndex + 1
              /\ UNCHANGED <<flushIndex, postIndex>>
         [] Below[1].fn = "flushPost" ->
              /\ postIndex' = postIndex + 1
              /\ UNCHANGED <<flushIndex, preIndex>>
    /\ UNCHANGED <<queue, isFlushing, isFlushPending, pendingPre, activePre, parentJob,
                   pendingPost, activePost, thrown>>

TaskReturns == Runs("task", "runs") /\ ReturnsToLoop

\* A task throws what no hook or handler takes.
TaskThrows ==
    /\ Runs("task", "runs")
    /\ thrown' = TRUE
    /\ UNCHANGED <<queueVars, isFlushPending, preVars, postVars, stack>>

\* The exception passes a call by, or meets the finally of a flush.
Unwinds ==
    /\ thrown
    /\ IF stack = <<>> THEN thrown' = FALSE /\ UNCHANGED <<queueVars, stack, isFlushPending>>
       ELSE IF Head(stack).fn = "flushJobs" /\ Head(stack).at = "jobs"
       THEN thrown' = FALSE /\ Finally("failed")
       ELSE stack' = Below /\ UNCHANGED <<thrown, queueVars, isFlushPending>>
    /\ UNCHANGED <<preVars, postVars>>

-----------------------------------------------------------------------------
(* The callers, as far as the scheduler knows them: any code outside a     *)
(* flush, and any task in it, queues what it likes.                        *)

Queues ==
    \/ \E t \in Job : QueueJob(t)
    \/ \E t \in PreCb : QueuePreFlushCb(t)
    \/ \E t \in PostCb : QueuePostFlushCb(t)

MayQueue == Len(queue) + Len(pendingPre) + Len(pendingPost) < MaxWaiting

OutsideQueues ==
    /\ stack = <<>> /\ ~thrown /\ MayQueue
    /\ Queues
    /\ UNCHANGED <<stack, thrown>>

HasCallLeft == Runs("task", "runs") /\ Head(stack).left > 0
SpendsCall == <<[Head(stack) EXCEPT !.left = @ - 1]>> \o Below

\* A component that is updated by its parent removes its own update, and one that
\* is unmounted too.
TaskQueues ==
    /\ HasCallLeft /\ MayQueue
    /\ stack' = SpendsCall
    /\ \/ Queues
       \/ Head(stack).task \in Job /\ \E t \in Job : InvalidateJob(t)
    /\ UNCHANGED thrown

\* updateComponentPreRender: props may have changed, and their watchers run before
\* the component renders.
JobFlushesPre ==
    /\ HasCallLeft /\ Head(stack).task \in Job
    /\ stack' = <<PreCall(NotSeen, Head(stack).task)>> \o SpendsCall
    /\ UNCHANGED <<queueVars, isFlushPending, preVars, postVars, thrown>>

\* render: a task mounts another application.
TaskFlushesPost ==
    /\ HasCallLeft
    /\ stack' = <<PostCall(NotSeen)>> \o SpendsCall
    /\ UNCHANGED <<queueVars, isFlushPending, preVars, postVars, thrown>>

Init ==
    /\ queue = <<>> /\ flushIndex = 0 /\ isFlushing = FALSE /\ isFlushPending = FALSE
    /\ pendingPre = <<>> /\ activePre = <<>> /\ preIndex = 0 /\ parentJob = NoTask
    /\ pendingPost = <<>> /\ activePost = <<>> /\ postIndex = 0
    /\ stack = <<>> /\ thrown = FALSE

\* What the code does by itself, a task's return or end included.
Proceeds ==
    \/ FlushBegins \/ FlushRestarts \/ QueueIsSorted \/ NextJobRuns \/ QueueIsDone
    \/ FlushEnds \/ OuterFlushEnds
    \/ PreCbsBegin \/ NextPreCbRuns \/ PreCbsEnd
    \/ PostCbsBegin \/ NextPostCbRuns \/ PostCbsEnd
    \/ TaskReturns \/ Unwinds

Next ==
    \/ Proceeds
    \/ TaskThrows
    \/ OutsideQueues \/ TaskQueues \/ JobFlushesPre \/ TaskFlushesPost

Fairness == WF_schedulerVars(Proceeds)
Spec == Init /\ [][Next]_schedulerVars /\ Fairness

-----------------------------------------------------------------------------
\* The jobs that are still to run: those after the one that runs.
JobRuns == \E i \in DOMAIN stack : stack[i].fn = "task" /\ stack[i].task \in Job
FirstWaiting == flushIndex + IF JobRuns THEN 2 ELSE 1
Waiting == {queue[i] : i \in FirstWaiting..Len(queue)}

\* Parents are updated before their children: the jobs to come are in the order of ids;
\* outside the loop the first is left to the sort.  None is there twice, but for one: the
\* one that was the first when a callback that ran before the loop queued it again.
FirstInOrder == flushIndex + IF Runs("flushJobs", "jobs") THEN 1 ELSE 2
Again(i, k) == i \in flushIndex + 2..k - 1 /\ queue[i] = queue[k]
QueueInOrder ==
    \A k \in flushIndex + 2..Len(queue) :
        /\ \A i \in FirstInOrder..k : Id[queue[i]] <= Id[queue[k]]
        /\ \A i, j \in DOMAIN queue, l \in DOMAIN queue :
               Again(i, k) /\ Again(j, l) => <<i, k>> = <<j, l>>

\* A job that is queued waits, and one that waits runs, unless a job before it removes
\* it or fails; no insertion or removal lets the loop skip it.
WaitingJobIsKept ==
    /\ \A t \in Job : QueueJob(t) /\ Wanted(t) => t \in Waiting'
    /\ \A t \in Waiting : \/ t \in Waiting'
                           \/ (JobRuns /\ Head(stack).task = t)'
                           \/ InvalidateJob(t)
                           \/ thrown \/ thrown'
WaitingJobRuns == [][WaitingJobIsKept]_schedulerVars

\* When nothing runs or is about to run, no update and no post callback is left.
DrainsWhenIdle ==
    stack = <<>> /\ ~isFlushPending /\ ~isFlushing => queue = <<>> /\ pendingPost = <<>>

\* "keep flushing until it drains": nor is a callback of before the queue.
DrainsAll ==
    stack = <<>> /\ ~isFlushPending /\ ~isFlushing => pendingPre = <<>>

\* An update that throws does not stop the scheduler: only an exception from a
\* callback leaves it flushing with nothing that runs.
StopsOnlyInCallbacks ==
    stack = <<>> /\ isFlushing /\ ~thrown => activePre # <<>> \/ activePost # <<>>

\* However the tasks queue each other and themselves, every flush ends.
FlushesEnd == []<>(stack = <<>>)
=============================================================================
