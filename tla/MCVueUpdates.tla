---------------------------- MODULE MCVueUpdates ----------------------------
(***************************************************************************)
(* How the Vue runtime notices a change and brings it to the page, in      *)
(* parts side by side: the scheduler with tasks that do what they like,    *)
(* the components and watchers that it serves (on the same scheduler), the *)
(* reactivity, an asynchronous component, and the children of a KeepAlive. *)
(* The initial state picks the part that runs; the others stand still.     *)
(***************************************************************************)
EXTENDS VueScheduler

CONSTANTS Child, Flush, Datum, MaxWrites, UpdateLimit,
          Kinds, Plain, Queued, Computed, Recurse, MaxLen, Value, Writers, MaxEffects, MaxDepth,
          Wrapper, Controlled, MaxRequests,
          Kept, Included, Limit, NoChild, MaxRenders

\* A parent comes before its child, whose update may queue itself; hooks have no order.
MCId == [task \in Task |-> IF task \notin Job THEN 9 ELSE IF task \in AllowRecurse THEN 2 ELSE 1]
MCNoTask == <<"none", "none">>
MCChild == <<"child1", "child2">>
MCKept == {<<"A", 1>>, <<"A", 2>>, <<"B", 1>>}
MCIncluded == {{"A", "B"}, {"A"}, {"B"}}
MCSteps == [effect \in Plain \cup Queued \cup Computed |-> 1]

\* The instances of the child come in a sequence; data is of the four kinds that have a
\* proxy; an effect is of one sort, and it is not what stands for no effect; neither is a
\* child what stands for no child.
ASSUME UpdatesAssumption ==
    /\ Child \in Seq({Child[i] : i \in DOMAIN Child})
    /\ Kinds \subseteq {"object", "array", "map", "set"} /\ MaxLen \in Nat
    /\ Plain \cap Queued = {} /\ Plain \cap Computed = {} /\ Queued \cap Computed = {}
    /\ "none" \notin Plain \cup Queued \cup Computed
    /\ NoChild \notin Kept /\ Limit \subseteq Nat

VARIABLES state, mode, instance, props, next, tracked, shown, oldValue, newValue, told, nested,
          kind, content, length, deps, active, dirty, queued, shouldTrack, trackStack,
          calls, view, excused,
          option, pendingRequest, resolvedComp, retries, requests, wrapper,
          alive, max, aliveRenders,
          part

Updates == INSTANCE VueUpdates WITH RecursionLimit <- UpdateLimit, Value <- Datum
Reactivity == INSTANCE VueReactivity WITH stack <- calls, Steps <- MCSteps
Async == INSTANCE VueAsyncComponent
KeepAlive == INSTANCE VueKeepAlive WITH k <- alive, renders <- aliveRenders, Child <- Kept

componentVars == <<state, mode, instance, props, next, tracked, shown, oldValue, newValue, told,
                   nested>>
reactivityVars == <<kind, content, length, deps, active, dirty, queued, shouldTrack, trackStack,
                    calls, view, excused>>
asyncVars == <<option, pendingRequest, resolvedComp, retries, requests, wrapper>>
aliveVars == <<alive, max, aliveRenders>>
mcVars == <<schedulerVars, componentVars, reactivityVars, asyncVars, aliveVars, part>>

MCInit ==
    /\ part \in {"scheduler", "updates", "reactivity", "async", "keep-alive"}
    /\ Init
    /\ part # "updates" => mode = CHOOSE flush \in Flush : TRUE
    /\ Updates!Init
    /\ part # "reactivity" => kind = "object" /\ active = {} /\ content = <<>>
    /\ Reactivity!Init
    /\ part # "async" => option = CHOOSE given \in Async!Options : TRUE
    /\ Async!Init
    /\ part # "keep-alive" => max = 0
    /\ KeepAlive!Init
    /\ part # "keep-alive" => alive.include = CHOOSE include \in Included : TRUE

Scheduler(step) ==
    /\ part = "scheduler" /\ step
    /\ UNCHANGED <<componentVars, reactivityVars, asyncVars, aliveVars, part>>
Update(step) ==
    /\ part = "updates" /\ step
    /\ UNCHANGED <<reactivityVars, asyncVars, aliveVars, part>>
React(step) ==
    /\ part = "reactivity" /\ step
    /\ UNCHANGED <<schedulerVars, componentVars, asyncVars, aliveVars, part>>
Load(step) ==
    /\ part = "async" /\ step
    /\ UNCHANGED <<schedulerVars, componentVars, reactivityVars, aliveVars, part>>
Keep(step) ==
    /\ part = "keep-alive" /\ step
    /\ UNCHANGED <<schedulerVars, componentVars, reactivityVars, asyncVars, part>>

MCNext ==
    \/ Scheduler(Next)
    \/ Update(Updates!Next)
    \/ React(Reactivity!Next)
    \/ Load(Async!Next)
    \/ Keep(KeepAlive!Next)

\* The fairness of the parts.
MCSpec ==
    /\ MCInit /\ [][MCNext]_mcVars
    /\ WF_mcVars(Scheduler(Proceeds) \/ Update(Updates!Proceeds))
    /\ \A w \in Wrapper : WF_mcVars(Load(Async!WrapperSteps(w)))
    /\ \A r \in 1..MaxRequests : WF_mcVars(r \in DOMAIN requests /\ Load(Async!RequestSteps(r)))

-----------------------------------------------------------------------------
\* flushJobs, queueJob and invalidateJob: the part of the queue that waits is in order and
\* holds one job twice at most, no insertion or removal lets the loop skip a job, an update that
\* throws does not stop the scheduler, and every flush ends.
FlushesInOrder ==
    /\ [](part = "scheduler" => QueueInOrder /\ StopsOnlyInCallbacks)
    /\ [][part = "scheduler" => WaitingJobIsKept]_mcVars
    /\ FlushesEnd

\* track and trigger: no effect is left with what it has read changed, unless it ran at
\* that time; one that is stopped is not tracked, unless it was stopped while it ran;
\* tracking is as it was after whatever ran.
NoStaleEffect ==
    Reactivity!NoStaleEffect /\ Reactivity!StoppedIsUntracked /\ Reactivity!TrackingRestored

\* setupRenderEffect and unmountComponent: when no update is under way or to come the page
\* is what the state says, and no effect of a component that is gone is tracked.
PageIsCurrent == Updates!PageIsCurrent /\ Updates!GoneIsUntracked

\* doWatch: and then every watcher's callback has had the current value, except where a
\* post callback left it waiting or a sync one's job ran within its own callback, and
\* nothing runs for a component that is gone.
WatchersAreTold ==
    [](part = "updates" => Updates!WatchersAreTold) /\ Updates!GoneStaysGone

\* defineAsyncComponent: a failure is asked again, except that undefined is kept; a request
\* that is overtaken gives way to the one that overtook it, and every wrapper is answered.
AsyncIsAnswered ==
    /\ [](part = "async" => Async!FailureIsAskedAgain)
    /\ Async!NewestIsGiven /\ Async!EveryWrapperIsAnswered

\* KeepAlive: what is put aside can be found, what comes back is alive, the cache keeps to
\* its limits, and all of it goes in the end.
KeptIsReachable ==
    /\ KeepAlive!HiddenIsCached /\ KeepAlive!NoneIsRevived /\ KeepAlive!WithinLimits
    /\ KeepAlive!DeactivatedIsHidden /\ KeepAlive!NothingOutlives
=============================================================================
