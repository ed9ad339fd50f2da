----------------------------- MODULE VueUpdates -----------------------------
(***************************************************************************)
(* The updates of two components of the Vue runtime, a root and the child  *)
(* it shows, on top of the scheduler: the render effects, the watchers of  *)
(* doWatch, the props that the root hands down, the hooks, and the mounts  *)
(* and unmounts of the child.  The root renders show and x and gives x to  *)
(* the child as a prop; the child renders the prop and y.  A watcher's     *)
(* callback, a hook and the code outside Vue may write the state.          *)
(***************************************************************************)
EXTENDS Naturals, Sequences, FiniteSets, SequencesExt

CONSTANTS Child,      \* a sequence: the instances of the child, in the order they are created
          Flush,      \* the flush options of the watchers, of "pre", "post", "sync"
          Value,      \* the values of the reactive state
          MaxWrites,  \* how often the state is written (a bound for TLC)
          RecursionLimit

VARIABLES queue, flushIndex, isFlushing, isFlushPending,
          pendingPre, activePre, preIndex, parentJob,
          pendingPost, activePost, postIndex, stack, thrown,
          state,      \* the reactive state: show, x and y, and how often it was written
          mode,       \* the flush option of the watchers
          instance,   \* instance[c]: "new", "mounted" or "unmounted"
          props,      \* props[c], the prop of child c
          next,       \* next[c]: <<the prop its parent has rendered>>, while c is to take it
          tracked,    \* the pairs <<source, task>> of targetMap
          shown,      \* what each component has rendered last
          oldValue,   \* of each watcher
          newValue,   \* what a watcher's job has found, in each of its calls, the innermost first
          told,       \* the value each watcher's callback was called with last
          nested      \* history: the watchers whose job has run within their own callback

Root == "root"
Instance == {Root} \cup {Child[i] : i \in DOMAIN Child}
Update(c) == <<"update", c>>
Watch(c) == <<"watch", c>>
Hook(c) == <<"hook", c>>
Position(c) == IF c = Root THEN 0 ELSE CHOOSE i \in DOMAIN Child : Child[i] = c
NoOrder == Len(Child) + 1  \* of what has no id

Updates == {Update(c) : c \in Instance}
Watches == {Watch(c) : c \in Instance}
Hooks == {Hook(c) : c \in Instance}

S == INSTANCE VueScheduler
         WITH Job <- Updates, PreCb <- Watches, PostCb <- Watches \cup Hooks,
              Id <- [t \in Updates \cup Watches \cup Hooks |->
                        IF t \in Updates THEN Position(t[2]) ELSE NoOrder],
              AllowRecurse <- Updates \cup Watches, MaxCalls <- 0, MaxWaiting <- 0,
              NoTask <- <<"none", "none">>

queueVars == <<queue, flushIndex, isFlushing>>
preVars == <<pendingPre, activePre, preIndex, parentJob>>
postVars == <<pendingPost, activePost, postIndex>>
schedulerVars == <<queueVars, isFlushPending, preVars, postVars, stack, thrown>>
componentVars ==
    <<state, mode, instance, props, next, tracked, shown, oldValue, newValue, told, nested>>
vars == <<schedulerVars, componentVars>>

NoQueueing == UNCHANGED <<queueVars, isFlushPending, preVars, postVars>>

-----------------------------------------------------------------------------
(* The calls: besides the scheduler's, the update of the child by its       *)
(* parent, the scheduler of an effect, and a watcher's job that is called   *)
(* at once.                                                                *)

Frame(fn, t) == S!Call(fn, "runs", S!NotSeen, t, 0)
TopTask == Head(stack).task
Works(fns, at) == ~thrown /\ stack # <<>> /\ Head(stack).fn \in fns /\ Head(stack).at = at
At(at) == [Head(stack) EXCEPT !.at = at]
Continues(at, calls) == stack' = calls \o <<At(at)>> \o Tail(stack)

\* A call that no loop of the scheduler made just ends.
Ends == IF Head(stack).fn = "task" THEN S!ReturnsToLoop
        ELSE stack' = Tail(stack) /\ NoQueueing /\ UNCHANGED thrown

Mounted == {c \in Instance : instance[c] = "mounted"}
CurrentChild == Mounted \ {Root}

\* What can be written: the state, and the props of a component.
StateOf(name) == <<"state", name>>
PropOf(c) == <<"prop", c>>

\* trigger calls the schedulers of all effects that track a source, in any order.
TriggerCalls(source) ==
    {[i \in DOMAIN o |-> Frame("schedule", o[i])] :
        o \in SetToSeqs({t \in Updates \cup Watches : <<source, t>> \in tracked})}

\* What a watcher's getter and a component's render function see.
Watched(c) == IF c = Root THEN state.y ELSE props[c]
Sees(c) == IF c = Root THEN <<state.show, state.x>> ELSE <<props[c], state.y>>
Untracked(t) == {p \in tracked : p[2] # t}
Tracks(c) == Untracked(Update(c)) \cup
                 (IF c = Root THEN {StateOf("show"), StateOf("x")} ELSE {StateOf("y"), PropOf(c)})
                     \X {Update(c)}

-----------------------------------------------------------------------------
(* The schedulers.                                                         *)

\* instance.update = effect(..., {scheduler: queueJob, allowRecurse: true}).
UpdateIsScheduled ==
    /\ Works({"schedule"}, "runs") /\ TopTask \in Updates
    /\ S!QueueJob(TopTask)
    /\ stack' = Tail(stack)
    /\ UNCHANGED <<thrown, componentVars>>

\* doWatch's scheduler, by the flush option; a pre watcher of a component that is not
\* mounted yet runs at once, too.
WatchIsScheduled ==
    /\ Works({"schedule"}, "runs") /\ TopTask \in Watches
    /\ \/ /\ mode = "sync" \/ (mode = "pre" /\ instance[TopTask[2]] = "new")
          /\ stack' = <<Frame("job", TopTask)>> \o Tail(stack)
          /\ NoQueueing
       \/ /\ mode = "post"
          /\ S!QueuePostFlushCb(TopTask)
          /\ stack' = Tail(stack)
       \/ /\ mode = "pre" /\ instance[TopTask[2]] # "new"
          /\ S!QueuePreFlushCb(TopTask)
          /\ stack' = Tail(stack)
    /\ UNCHANGED <<thrown, componentVars>>

-----------------------------------------------------------------------------
(* The job of a watcher with a callback.                                   *)

Jobs == {"task", "job"}

RunnerActive(c) == instance[c] = "mounted"

\* The getter runs; nothing happens when the watcher is stopped or the value is the
\* old one.
WatchJobGets ==
    /\ Works(Jobs, "runs") /\ TopTask \in Watches
    /\ LET c == TopTask[2]
       IN  IF RunnerActive(c) /\ Watched(c) # oldValue[c]
           THEN /\ newValue' = [newValue EXCEPT ![c] = <<Watched(c)>> \o @]
                /\ told' = [told EXCEPT ![c] = Watched(c)]
                /\ Continues("callback", <<>>) /\ NoQueueing /\ UNCHANGED thrown
           ELSE Ends /\ UNCHANGED <<newValue, told>>
    /\ nested' = nested \cup {c \in Instance : Watch(c) = TopTask /\ newValue[c] # <<>>}
    /\ UNCHANGED <<state, mode, instance, props, next, tracked, shown, oldValue>>

\* A call's new value is kept when its callback is over.
KeepsNewValue(c) ==
    /\ oldValue' = [oldValue EXCEPT ![c] = Head(newValue[c])]
    /\ newValue' = [newValue EXCEPT ![c] = Tail(@)]

WatchCallbackEnds ==
    /\ Works(Jobs, "callback") /\ TopTask \in Watches
    /\ KeepsNewValue(TopTask[2])
    /\ Ends
    /\ UNCHANGED <<state, mode, instance, props, next, tracked, shown, told, nested>>

-----------------------------------------------------------------------------
(* componentEffect.                                                        *)

Updating == {"task", "update"}

\* A wrong variant: the props are set on the raw object, which triggers nothing.
SetsRawProps(c) == <<>>
TriggersProps(c) == IF <<PropOf(c), Watch(c)>> \in tracked THEN <<Frame("schedule", Watch(c))>>
                    ELSE <<>>

\* A stopped effect has a scheduler and returns; otherwise its deps are cleaned up,
\* and updateComponentPreRender takes the props, whose watchers' schedulers run, and
\* flushes the callbacks before the render.
UpdateBegins ==
    /\ Works(Updating, "runs") /\ TopTask \in Updates
    /\ LET c == TopTask[2]
       IN  IF instance[c] # "mounted" THEN Ends /\ UNCHANGED <<props, next, tracked>>
           ELSE IF next[c] = <<>>
           THEN /\ tracked' = Untracked(TopTask)
                /\ Continues("render", <<>>)
                /\ NoQueueing /\ UNCHANGED <<thrown, props, next>>
           ELSE /\ tracked' = Untracked(TopTask)
                /\ props' = [props EXCEPT ![c] = Head(next[c])]
                /\ next' = [next EXCEPT ![c] = <<>>]
                /\ Continues("render", TriggersProps(c) \o <<S!PreCall(S!NotSeen, TopTask)>>)
                /\ NoQueueing /\ UNCHANGED thrown
    /\ UNCHANGED <<state, mode, instance, shown, oldValue, newValue, told, nested>>

\* invalidateJob(instance.update); nothing happens when it is not queued.
RemovesJob(t) == IF S!Includes(queue, t, 0) THEN S!InvalidateJob(t) ELSE NoQueueing

Renders(c) ==
    /\ shown' = [shown EXCEPT ![c] = Sees(c)]
    /\ tracked' = Tracks(c)

ChildRenders ==
    /\ Works(Updating, "render") /\ TopTask \in Updates /\ TopTask[2] # Root
    /\ Renders(TopTask[2])
    /\ Continues("rendered", <<>>)
    /\ NoQueueing /\ UNCHANGED <<thrown, state, mode, instance, props, next, oldValue, newValue, told, nested>>

\* shouldUpdateComponent: the prop that the root passes has changed.
ShouldUpdate(c) == props[c] # state.x

\* The root renders and patches a child that stays.
RootRendersSame ==
    /\ Works(Updating, "render") /\ TopTask = Update(Root)
    /\ state.show = (CurrentChild # {})
    /\ Renders(Root)
    /\ \/ /\ \A c \in CurrentChild : ~ShouldUpdate(c)
          /\ Continues("rendered", <<>>)
          /\ NoQueueing /\ UNCHANGED next
       \/ \E c \in CurrentChild :
             /\ ShouldUpdate(c)
             /\ next' = [next EXCEPT ![c] = <<state.x>>]
             /\ RemovesJob(Update(c))
             /\ Continues("rendered", <<Frame("update", Update(c))>>)
    /\ UNCHANGED <<thrown, state, mode, instance, props, oldValue, newValue, told, nested>>

\* It shows a new child: setup creates its watcher, which runs its getter, and the
\* child renders; the mounted hook is queued.
RootRendersNewChild ==
    /\ Works(Updating, "render") /\ TopTask = Update(Root)
    /\ state.show /\ CurrentChild = {}
    /\ \E c \in Instance :
          /\ instance[c] = "new" /\ \A d \in Instance : instance[d] = "new" => Position(c) <= Position(d)
          /\ instance' = [instance EXCEPT ![c] = "mounted"]
          /\ props' = [props EXCEPT ![c] = state.x]
          /\ shown' = [shown EXCEPT ![Root] = Sees(Root), ![c] = <<state.x, state.y>>]
          /\ tracked' = Tracks(Root) \cup {<<StateOf("y"), Update(c)>>, <<PropOf(c), Update(c)>>,
                                           <<PropOf(c), Watch(c)>>}
          /\ oldValue' = [oldValue EXCEPT ![c] = state.x]
          /\ told' = [told EXCEPT ![c] = state.x]
          /\ pendingPost' = Append(pendingPost, Hook(c))
    /\ S!FlushPending
    /\ Continues("rendered", <<>>)
    /\ UNCHANGED <<queueVars, preVars, activePost, postIndex, thrown,
                   state, mode, next, newValue, nested>>

\* A wrong variant: unmounting does not stop the render effect and the watchers.
StopsNothing(c) == tracked
StopsEffects(c) == {p \in tracked : p[2] \notin {Update(c), Watch(c)}}

\* It removes the child: unmountComponent stops its effects and queues its hook.
RootRemovesChild ==
    /\ Works(Updating, "render") /\ TopTask = Update(Root)
    /\ ~state.show
    /\ \E c \in CurrentChild :
          /\ instance' = [instance EXCEPT ![c] = "unmounted"]
          /\ shown' = [shown EXCEPT ![Root] = Sees(Root)]
          /\ tracked' = StopsEffects(c) \cup {StateOf("show"), StateOf("x")} \X {Update(Root)}
          /\ pendingPost' = Append(pendingPost, Hook(c))
    /\ S!FlushPending
    /\ Continues("rendered", <<>>)
    /\ UNCHANGED <<queueVars, preVars, activePost, postIndex, thrown,
                   state, mode, props, next, oldValue, newValue, told, nested>>

\* The updated hook is queued, an array, which is not looked for in the active queue.
UpdateQueuesHook ==
    /\ Works(Updating, "rendered") /\ TopTask \in Updates
    /\ pendingPost' = Append(pendingPost, Hook(TopTask[2]))
    /\ S!FlushPending
    /\ Continues("updated", <<>>)
    /\ UNCHANGED <<queueVars, preVars, activePost, postIndex, thrown, componentVars>>

UpdateEnds ==
    /\ Works(Updating, "updated")
    /\ Ends
    /\ UNCHANGED componentVars

HookEnds ==
    /\ Works({"task"}, "runs") /\ TopTask \in Hooks
    /\ Ends
    /\ UNCHANGED componentVars

-----------------------------------------------------------------------------
(* The writes: by code outside Vue, in callbacks, and in hooks.            *)

\* trigger is called for a value that hasChanged.
StateChanges(source) ==
    \/ source = "show" /\ state' = [state EXCEPT !.show = ~@, !.writes = @ + 1]
    \/ \E v \in Value : /\ source = "x" /\ v # state.x
                       /\ state' = [state EXCEPT !.x = v, !.writes = @ + 1]
    \/ \E v \in Value : /\ source = "y" /\ v # state.y
                       /\ state' = [state EXCEPT !.y = v, !.writes = @ + 1]

Writes(source, rest) ==
    /\ state.writes < MaxWrites
    /\ StateChanges(source)
    /\ \E calls \in TriggerCalls(StateOf(source)) : stack' = calls \o rest
    /\ NoQueueing
    /\ UNCHANGED <<thrown, mode, instance, props, next, tracked, shown, oldValue, newValue, told,
                   nested>>

Source == {"show", "x", "y"}

OutsideWrites == stack = <<>> /\ ~thrown /\ \E s \in Source : Writes(s, <<>>)

CallbackWrites ==
    /\ \/ Works(Jobs, "callback") /\ TopTask \in Watches
       \/ Works({"task"}, "runs") /\ TopTask \in Hooks
    /\ \E s \in Source : Writes(s, stack)

-----------------------------------------------------------------------------
First == CHOOSE v \in Value : TRUE

\* createApp(...).mount: the root is mounted without a child.
Init ==
    /\ S!Init
    /\ state = [show |-> FALSE, x |-> First, y |-> First, writes |-> 0]
    /\ mode \in Flush
    /\ instance = [c \in Instance |-> IF c = Root THEN "mounted" ELSE "new"]
    /\ props = [c \in Instance |-> First]
    /\ next = [c \in Instance |-> <<>>]
    /\ tracked = {<<StateOf("show"), Update(Root)>>, <<StateOf("x"), Update(Root)>>,
                   <<StateOf("y"), Watch(Root)>>}
    /\ shown = [c \in Instance |-> IF c = Root THEN <<FALSE, First>> ELSE <<First, First>>]
    /\ oldValue = [c \in Instance |-> First]
    /\ newValue = [c \in Instance |-> <<>>]
    /\ told = [c \in Instance |-> First]
    /\ nested = {}

SchedulerProceeds ==
    /\ \/ S!FlushBegins \/ S!FlushRestarts \/ S!QueueIsSorted \/ S!NextJobRuns \/ S!QueueIsDone
       \/ S!FlushEnds \/ S!OuterFlushEnds
       \/ S!PreCbsBegin \/ S!NextPreCbRuns \/ S!PreCbsEnd
       \/ S!PostCbsBegin \/ S!NextPostCbRuns \/ S!PostCbsEnd \/ S!Unwinds
    /\ UNCHANGED componentVars

Proceeds ==
    \/ SchedulerProceeds
    \/ UpdateIsScheduled \/ WatchIsScheduled
    \/ WatchJobGets \/ WatchCallbackEnds
    \/ UpdateBegins \/ ChildRenders \/ RootRendersSame \/ RootRendersNewChild \/ RootRemovesChild
    \/ UpdateQueuesHook \/ UpdateEnds \/ HookEnds

Next == Proceeds \/ OutsideWrites \/ CallbackWrites

Spec == Init /\ [][Next]_vars /\ WF_vars(Proceeds)

-----------------------------------------------------------------------------
Idle == stack = <<>> /\ ~isFlushPending /\ ~isFlushing

\* When no update is under way or to come, the page is what the state says: the child
\* is there when it is to be shown, has the current prop, and no component shows an old
\* value.
PageIsCurrent ==
    Idle => /\ state.show = (CurrentChild # {})
            /\ \A c \in Mounted : shown[c] = Sees(c)
            /\ \A c \in CurrentChild : props[c] = state.x

\* And then every watcher's callback has had the current value, unless it still waits:
\* what a post callback triggers is not flushed; or unless it is a sync one whose job ran
\* within its own callback, which then keeps as the old value one that was not told last.
WatchersAreTold ==
    Idle => \A c \in Mounted : \/ told[c] = Watched(c)
                               \/ S!Includes(pendingPre, Watch(c), 0)
                               \/ mode = "sync" /\ c \in nested

\* No component and no watcher's callback runs for a component that is gone.
GoneStaysGone ==
    [][\A c \in Instance : instance[c] = "unmounted" =>
          shown'[c] = shown[c] /\ told'[c] = told[c]]_vars

\* No effect of a component that is gone is tracked, so that it can be collected.
GoneIsUntracked ==
    \A c \in Instance : instance[c] = "unmounted" =>
        \A p \in tracked : p[2] \notin {Update(c), Watch(c)}
=============================================================================
