--------------------------- MODULE MCVuePageProofs ---------------------------
(***************************************************************************)
(* Proofs about the page and the watchers of MCVueUpdates, for any         *)
(* components, values and mode of the watchers: as long as no update is    *)
(* cut off by RECURSION_LIMIT, the page shows what the state says and the  *)
(* watchers have been told, up to what is under way or to come.            *)
(***************************************************************************)
EXTENDS MCVueQueueProofs

-----------------------------------------------------------------------------
(* The invariant of the components.                                        *)

Deps(c) == IF c = Updates!Root THEN {Updates!StateOf("show"), Updates!StateOf("x")} ELSE {Updates!StateOf("y"), Updates!PropOf(c)}
WatchDep(c) == IF c = Updates!Root THEN Updates!StateOf("y") ELSE Updates!PropOf(c)

ComponentTypes ==
    /\ instance \in [Updates!Instance -> {"new", "mounted", "unmounted"}]
    /\ DOMAIN props = Updates!Instance /\ DOMAIN next = Updates!Instance /\ DOMAIN shown = Updates!Instance
    /\ DOMAIN told = Updates!Instance /\ DOMAIN oldValue = Updates!Instance /\ DOMAIN newValue = Updates!Instance
    /\ nested \subseteq Updates!Instance
    /\ DOMAIN state = {"show", "x", "y", "writes"} /\ state.show \in BOOLEAN

\* What is tracked is of mounted components, and all that they read, except for the
\* one whose update has cleaned its deps up and has not rendered yet.
Tracking ==
    /\ \A p \in tracked : \E c \in Updates!Mounted : p[2] \in {Updates!Update(c), Updates!Watch(c)}
    /\ \A c \in Updates!Mounted : \/ UpdateAt(stack, c, {"render"})
                          \/ \A d \in Deps(c) : <<d, Updates!Update(c)>> \in tracked
    /\ \A c \in Updates!Mounted : <<WatchDep(c), Updates!Watch(c)>> \in tracked
    /\ \A c \in Updates!Instance : Scheduled(stack, Updates!Watch(c)) => instance[c] # "new"
    /\ \A c \in Updates!Instance : UpdateAt(stack, c, {"render"}) => c \in Updates!Mounted

\* A prop that a child is to take is the current one, and is taken at once.
Takes(c) ==
    stack # <<>> /\ Head(stack).fn = "update" /\ Head(stack).at = "runs" /\ Head(stack).task = Updates!Update(c)
Taking ==
    \A c \in Updates!Instance : next[c] # <<>> => next[c] = <<state.x>> /\ c \in Updates!CurrentChild /\ Takes(c)

\* What is not current is to come.
Page ==
    /\ Updates!Root \in Updates!Mounted
    /\ \A c, d \in Updates!CurrentChild : c = d
    /\ \A c \in Updates!Mounted : shown[c] = Updates!Sees(c) \/ Coming(c)
    /\ state.show = (Updates!CurrentChild # {}) \/ Coming(Updates!Root)
    /\ \A c \in Updates!CurrentChild : props[c] = state.x \/ Coming(Updates!Root) \/ next[c] = <<state.x>>

\* What a watcher has not been told is to come, unless its job ran within its callback.
IsTold(c) ==
    \/ newValue[c] = <<>> /\ told[c] = oldValue[c] /\ NoCallback(stack, c)
    \/ newValue[c] = <<told[c]>> /\ OneCallback(stack, c)
Telling ==
    /\ \A c \in Updates!Mounted : told[c] = Updates!Watched(c) \/ WatchComing(c) \/ c \in nested
    /\ \A c \in Updates!Instance \ nested : IsTold(c)
    /\ nested # {} => mode = "sync"
    /\ HasJob(stack) => mode = "sync"
ComponentInv == ComponentTypes /\ Tracking /\ Taking /\ Page /\ Telling

\* A step of watchers does not change what is on the page.
LEMMA PageKept ==
    ASSUME ComponentInv, UNCHANGED <<state, mode, instance, props, next, tracked, shown>>,
           ComponentTypes', Telling', \A c \in Updates!Instance : next[c] = <<>>,
           \A c \in Updates!Mounted : Coming(c) => Coming(c)',
           \A c \in Updates!Instance : UpdateAt(stack', c, {"render"}) <=> UpdateAt(stack, c, {"render"}),
           \A c \in Updates!Instance : Scheduled(stack', Updates!Watch(c)) => Scheduled(stack, Updates!Watch(c))
    PROVE  ComponentInv'
<1>1. Updates!Mounted' = Updates!Mounted /\ Updates!CurrentChild' = Updates!CurrentChild /\ Updates!Mounted \subseteq Updates!Instance /\ Updates!Root \in Updates!Instance
    BY DEF Updates!Mounted, Updates!CurrentChild, Updates!Instance
<1>2. Tracking'
    BY <1>1 DEF ComponentInv, Tracking
<1>3. Taking'
    BY <1>1 DEF ComponentInv, Taking
<1>4. Page'
  <2>1. \A c : Updates!Sees(c)' = Updates!Sees(c)
      BY DEF Updates!Sees
  <2>2. QED
      BY <1>1, <2>1 DEF ComponentInv, Page, Updates!CurrentChild
<1>5. QED
    BY <1>2, <1>3, <1>4 DEF ComponentInv

\* A step that keeps the work keeps it, where no prop is to be taken.
LEMMA ComponentsKept ==
    ASSUME ComponentInv, WorkKept, UNCHANGED Updates!componentVars,
           \A c \in Updates!Instance : ~Takes(c)
    PROVE  ComponentInv'
<1>1. UNCHANGED <<state, mode, instance, props, next, tracked, shown, oldValue, newValue, told, nested>>
    BY DEF Updates!componentVars
<1>2. Updates!Mounted' = Updates!Mounted /\ Updates!Mounted \subseteq Updates!Instance
    BY <1>1 DEF Updates!Mounted
<1>3. ComponentTypes'
    BY <1>1 DEF ComponentInv, ComponentTypes
<1>4. Telling'
  <2>1. \A c : Updates!Watched(c)' = Updates!Watched(c)
      BY <1>1 DEF Updates!Watched
  <2>2. \A c \in Updates!Mounted : told[c] = Updates!Watched(c) \/ WatchComing(c) \/ c \in nested
      BY DEF ComponentInv, Telling
  <2>3. \A c \in Updates!Instance : WatchComing(c) => WatchComing(c)'
      BY DEF WorkKept
  <2>4. \A c \in Updates!Instance : IsTold(c) => IsTold(c)'
      BY <1>1 DEF WorkKept, IsTold
  <2>5. HasJob(stack') => mode = "sync"
      BY DEF WorkKept, ComponentInv, Telling
  <2>6. QED
      BY <1>1, <1>2, <2>1, <2>2, <2>3, <2>4, <2>5 DEF ComponentInv, Telling
<1>5. /\ \A c \in Updates!Instance : Coming(c) => Coming(c)'
      /\ \A c \in Updates!Instance : UpdateAt(stack', c, {"render"}) <=> UpdateAt(stack, c, {"render"})
      /\ \A c \in Updates!Instance : Scheduled(stack', Updates!Watch(c)) => Scheduled(stack, Updates!Watch(c))
    BY DEF WorkKept
<1>6. \A c \in Updates!Instance : next[c] = <<>>
    BY DEF ComponentInv, Taking
<1>7. QED
    BY <1>1, <1>2, <1>3, <1>4, <1>5, <1>6, PageKept

-----------------------------------------------------------------------------
(* The calls of the components.                                            *)

\* What is under way with a call more, in one.
Adds(f, s, r) ==
    /\ \A n : OnLevel(r, n) <=> Level(f) = n \/ OnLevel(s, n)
    /\ \A c, ats : UpdateAt(r, c, ats) <=>
          \/ f.fn \in {"task", "update"} /\ f.task = Updates!Update(c) /\ f.at \in ats
          \/ UpdateAt(s, c, ats)
    /\ \A t : Scheduled(r, t) <=> (f.fn = "schedule" /\ f.task = t) \/ Scheduled(s, t)
    /\ \A c : RunsWatch(r, c) <=> IsJob(f, c, "runs") \/ RunsWatch(s, c)
    /\ \A c : NoCallback(r, c) <=> ~IsJob(f, c, "callback") /\ NoCallback(s, c)
    /\ \A c : IsJob(f, c, "callback") => (OneCallback(r, c) <=> NoCallback(s, c))
    /\ \A c : ~IsJob(f, c, "callback") => (OneCallback(r, c) <=> OneCallback(s, c))
    /\ HasJob(r) <=> f.fn = "job" \/ HasJob(s)

LEMMA PushAdds ==
    ASSUME NEW s \in Seq(CallSet), NEW f \in CallSet, NEW r, r = <<f>> \o s
    PROVE  Adds(f, s, r)
BY PushSees DEF Adds

\* What the flushes depend on stays.
Keeps(r) ==
    /\ r \in Seq(CallSet) /\ Nested(r)
    /\ NoFlushing(stack) => NoFlushing(r)
    /\ \A fn, t : Loops(stack, fn, t) => Loops(r, fn, t)

\* The innermost call is of a component and ends, or goes on.
LEMMA TopEnds ==
    ASSUME SchedulerInv, stack # <<>>, Head(stack).fn \notin Flushes
    PROVE  /\ Head(stack) \in CallSet /\ Good(Head(stack)) /\ Fits(Head(stack), Tail(stack))
           /\ Keeps(Tail(stack)) /\ Adds(Head(stack), Tail(stack), stack)
<1>1. stack \in Seq(CallSet) /\ Nested(stack)
    BY DEF SchedulerInv, Stacked
<1>2. /\ stack = <<Head(stack)>> \o Tail(stack) /\ Head(stack) \in CallSet
      /\ Tail(stack) \in Seq(CallSet) /\ Nested(Tail(stack)) /\ Fits(Head(stack), Tail(stack))
      /\ Good(Head(stack))
    BY <1>1, Apart1
<1>3. /\ NoFlushing(stack) <=> ~Flushing(Head(stack)) /\ NoFlushing(Tail(stack))
      /\ \A fn, t : Loops(stack, fn, t) <=>
            \/ Head(stack).fn = fn /\ Head(stack).at = "loop" /\ Head(stack).task = t
            \/ Loops(Tail(stack), fn, t)
    BY <1>2, PushSees
<1>4. Head(stack).at # "loop"
    BY <1>2 DEF Good, Flushes
<1>5. Keeps(Tail(stack))
    BY <1>2, <1>3, <1>4 DEF Keeps
<1>6. Adds(Head(stack), Tail(stack), stack)
    BY <1>1, <1>2, PushAdds
<1>7. QED
    BY <1>2, <1>5, <1>6

LEMMA TopGoesOn ==
    ASSUME SchedulerInv, stack # <<>>, Head(stack).fn \notin Flushes,
           NEW at \in {"runs", "render", "rendered", "updated", "callback"}, Good(Updates!At(at)),
           NEW q, q = <<Updates!At(at)>> \o Tail(stack)
    PROVE  /\ Keeps(q) /\ q # <<>> /\ Head(q) = Updates!At(at) /\ Adds(Updates!At(at), Tail(stack), q)
           /\ Updates!At(at) \in CallSet /\ Updates!At(at).fn = Head(stack).fn /\ Updates!At(at).at = at
           /\ Updates!At(at).task = Head(stack).task /\ Level(Updates!At(at)) = Level(Head(stack))
           /\ \A n : OnLevel(q, n) <=> OnLevel(stack, n)
<1> DEFINE g == Updates!At(at)
<1>1. /\ Head(stack) \in CallSet /\ Keeps(Tail(stack)) /\ Adds(Head(stack), Tail(stack), stack)
    BY TopEnds
<1>2. g \in CallSet /\ g.fn = Head(stack).fn /\ g.at = at /\ g.task = Head(stack).task
  <2>1. at \in {"pre", "sort", "jobs", "finally", "ends", "begin", "loop",
                 "runs", "render", "rendered", "updated", "callback"}
      OBVIOUS
  <2>2. /\ [Head(stack) EXCEPT !.at = at] \in CallSet
        /\ [Head(stack) EXCEPT !.at = at].fn = Head(stack).fn /\ [Head(stack) EXCEPT !.at = at].at = at
        /\ [Head(stack) EXCEPT !.at = at].task = Head(stack).task
      BY <1>1, <2>1, CallAt, ZenonT(60)
  <2>3. QED
      BY <2>2 DEF Updates!At
<1>3. stack \in Seq(CallSet) /\ Nested(stack)
    BY DEF SchedulerInv, Stacked
<1> HIDE DEF g
<1>4. Good(g) /\ q = <<g>> \o Tail(stack)
    BY DEF g
<1>5. q \in Seq(CallSet) /\ Nested(q) /\ Head(q) = g /\ q # <<>>
    BY <1>2, <1>3, <1>4, GoesOn
<1>6. Tail(stack) \in Seq(CallSet)
    BY <1>1 DEF Keeps
<1>7. Adds(g, Tail(stack), q)
    BY <1>2, <1>4, <1>6, PushAdds
<1>8. Level(g) = Level(Head(stack))
    BY <1>2 DEF Level
<1>9. \A n : OnLevel(q, n) <=> OnLevel(stack, n)
    BY <1>1, <1>7, <1>8 DEF Adds
<1>10. Keeps(q)
  <2>1. /\ NoFlushing(q) <=> ~Flushing(g) /\ NoFlushing(Tail(stack))
        /\ \A fn, t : Loops(q, fn, t) <=>
              (g.fn = fn /\ g.at = "loop" /\ g.task = t) \/ Loops(Tail(stack), fn, t)
      BY <1>2, <1>4, <1>6, PushSees
  <2>2. ~Flushing(g)
      BY <1>2 DEF Flushing, Flushes
  <2>3. QED
      BY <1>1, <1>5, <2>1, <2>2 DEF Keeps
<1>11. QED
    BY <1>2, <1>5, <1>7, <1>8, <1>9, <1>10 DEF g

\* Calls that are made by a call that goes on.
LEMMA MadeOnTop ==
    ASSUME NEW made \in Seq(CallSet), NEW g \in CallSet, NEW t \in Seq(CallSet)
    PROVE  /\ made \o <<g>> \o t = made \o (<<g>> \o t)
           /\ <<>> \o <<g>> \o t = <<g>> \o t
<1>1. <<g>> \in Seq(CallSet)
    OBVIOUS
<1>2. (made \o <<g>>) \o t = made \o (<<g>> \o t)
    BY <1>1, ConcatAssociative
<1>3. <<>> \o <<g>> = <<g>>
    BY <1>1, ConcatEmptySeq
<1>4. QED
    BY <1>2, <1>3

\* Nothing is queued.
LEMMA NoneQueued ==
    ASSUME SchedulerInv, Updates!NoQueueing, Keeps(stack'),
           ~(stack # <<>> /\ Head(stack).fn = "flushJobs" /\ Head(stack).at = "pre"),
           \A n \in {1, 4} : OnLevel(stack', n) <=> OnLevel(stack, n)
    PROVE  /\ SchedulerInv'
           /\ \A c : UpdateWaits(c)' <=> UpdateWaits(c)
           /\ \A c : WatchWaits(c)' <=> WatchWaits(c)
<1>1. UNCHANGED <<queue, flushIndex, isFlushing, isFlushPending, pendingPre, activePre, preIndex,
                  parentJob, pendingPost, activePost, postIndex>>
    BY DEF Updates!NoQueueing, Updates!queueVars, Updates!preVars, Updates!postVars
<1>2. SchedulerTypes'
    BY <1>1 DEF SchedulerInv, SchedulerTypes
<1>3. Stacked'
    BY DEF Keeps, Stacked
<1>4. Flags'
    BY <1>1, FlagsKept DEF Keeps, SchedulerInv, LeftOver
<1>5. OnLevel(stack', 1) <=> OnLevel(stack, 1)
    OBVIOUS
<1>6. Indexed'
    BY <1>1, <1>5 DEF SchedulerInv, Indexed
<1>7. Looping'
    BY <1>1, LoopingKept DEF Keeps, SchedulerInv
<1>8. \A c : UpdateWaits(c)' <=> UpdateWaits(c)
    BY <1>1, <1>5 DEF UpdateWaits, FirstUpdate
<1>9. OnLevel(stack', 4) <=> OnLevel(stack, 4)
    OBVIOUS
<1>10. \A c : WatchWaits(c)' <=> WatchWaits(c)
    BY <1>1, <1>9 DEF WatchWaits, FirstPre, FirstPost
<1>11. QED
    BY <1>2, <1>3, <1>4, <1>6, <1>7, <1>8, <1>10 DEF SchedulerInv

\* A callback is queued.
LEMMA CallbackIsQueued ==
    ASSUME SchedulerInv, Updates!S!FlushPending, Keeps(stack'),
           pendingPre' \in Seq(Updates!Watches), \A t : Ahead(pendingPre, 0, t) => Ahead(pendingPre', 0, t),
           pendingPost' \in Seq(Updates!Watches \cup Updates!Hooks),
           \A t : Ahead(pendingPost, 0, t) => Ahead(pendingPost', 0, t),
           UNCHANGED <<queue, flushIndex, isFlushing, activePre, preIndex, parentJob, activePost,
                       postIndex>>,
           \A n \in {1, 4} : OnLevel(stack', n) <=> OnLevel(stack, n)
    PROVE  /\ SchedulerInv'
           /\ \A d : UpdateWaits(d)' <=> UpdateWaits(d)
           /\ \A d : WatchWaits(d) => WatchWaits(d)'
<1>1. isFlushPending' = (isFlushPending \/ ~isFlushing) /\ isFlushing \in BOOLEAN
      /\ isFlushPending \in BOOLEAN
    BY DEF Updates!S!FlushPending, SchedulerInv, SchedulerTypes
<1>2. SchedulerTypes'
    BY <1>1 DEF SchedulerInv, SchedulerTypes
<1>3. Stacked'
    BY DEF Keeps, Stacked
<1>4. Flags'
    BY <1>1 DEF Flags, Keeps, SchedulerInv
<1>5. OnLevel(stack', 1) <=> OnLevel(stack, 1)
    OBVIOUS
<1>6. Indexed'
    BY <1>5 DEF SchedulerInv, Indexed
<1>7. Looping'
    BY LoopingKept DEF Keeps, SchedulerInv
<1>8. \A d : UpdateWaits(d)' <=> UpdateWaits(d)
    BY <1>5 DEF UpdateWaits, FirstUpdate
<1>9. OnLevel(stack', 4) <=> OnLevel(stack, 4)
    OBVIOUS
<1>10. \A d : WatchWaits(d) => WatchWaits(d)'
    BY <1>9 DEF WatchWaits, FirstPre, FirstPost
<1>11. QED
    BY <1>2, <1>3, <1>4, <1>6, <1>7, <1>8, <1>10 DEF SchedulerInv

\* A hook is queued.
LEMMA HookIsQueued ==
    ASSUME SchedulerInv, NEW c \in Updates!Instance, pendingPost' = Append(pendingPost, Updates!Hook(c)),
           Updates!S!FlushPending, UNCHANGED <<Updates!queueVars, Updates!preVars, activePost, postIndex>>, Keeps(stack'),
           \A n \in {1, 4} : OnLevel(stack', n) <=> OnLevel(stack, n)
    PROVE  /\ SchedulerInv'
           /\ \A d : UpdateWaits(d)' <=> UpdateWaits(d)
           /\ \A d : WatchWaits(d) => WatchWaits(d)'
<1>1. UNCHANGED <<queue, flushIndex, isFlushing, pendingPre, activePre, preIndex,
                  parentJob, activePost, postIndex>>
    BY DEF Updates!queueVars, Updates!preVars
<1>2. /\ pendingPost' \in Seq(Updates!Watches \cup Updates!Hooks)
      /\ \A t : Ahead(pendingPost, 0, t) => Ahead(pendingPost', 0, t)
  <2>1. Updates!Hook(c) \in Updates!Watches \cup Updates!Hooks /\ pendingPost \in Seq(Updates!Watches \cup Updates!Hooks)
      BY TasksDiffer DEF SchedulerInv, SchedulerTypes
  <2>2. QED
      BY <2>1, AppendHas
<1>3. pendingPre' \in Seq(Updates!Watches) /\ \A t : Ahead(pendingPre, 0, t) => Ahead(pendingPre', 0, t)
    BY <1>1 DEF SchedulerInv, SchedulerTypes
<1>4. QED
    BY <1>1, <1>2, <1>3, CallbackIsQueued

\* A call of a component ends; a task lets its loop go on.
LEMMA EndsKeeps ==
    ASSUME SchedulerInv, stack # <<>>, Head(stack).fn \in {"task", "update", "job"}, Updates!Ends
    PROVE  /\ SchedulerInv' /\ stack' = Tail(stack)
           /\ \A c : UpdateWaits(c) => UpdateWaits(c)'
           /\ \A c : WatchWaits(c) => WatchWaits(c)'
<1> DEFINE h == Head(stack)
           t == Tail(stack)
<1>1. h \in CallSet /\ Good(h) /\ Fits(h, t) /\ Keeps(t) /\ Adds(h, t, stack)
    BY TopEnds DEF Flushes
<1>2. h.fn \in {"task", "update", "job"}
    OBVIOUS
<1>3. /\ h.fn = "task" => Updates!S!ReturnsToLoop
      /\ h.fn # "task" => stack' = t /\ Updates!NoQueueing
    BY DEF Updates!Ends
<1>4. stack' = t
    BY <1>3 DEF Updates!S!ReturnsToLoop, Updates!S!Below
<1>5. \A n : OnLevel(t, n) => n < Level(h) \/ (n = Level(h) /\ n \in {0, 5})
    BY <1>1, BelowIs
<1>6. \A n : OnLevel(stack, n) <=> Level(h) = n \/ OnLevel(t, n)
    BY <1>1 DEF Adds
<1>7. CASE h.fn # "task"
  <2>1. Level(h) \in {2, 5}
      BY <1>2, <1>7, LevelIs
  <2>2. \A n \in {1, 4} : OnLevel(stack', n) <=> OnLevel(stack, n)
      BY <1>4, <1>6, <2>1
  <2>3. QED
      BY <1>1, <1>2, <1>3, <1>4, <1>7, <2>2, NoneQueued
<1>8. CASE h.fn = "task"
  <2>1. t # <<>> /\ Makes(t[1], h)
      BY <1>1, <1>8 DEF Fits
  <2>2. /\ t[1].fn = "flushJobs" => flushIndex' = flushIndex + 1 /\ UNCHANGED <<preIndex, postIndex>>
        /\ t[1].fn = "flushPre" => preIndex' = preIndex + 1 /\ UNCHANGED <<flushIndex, postIndex>>
        /\ t[1].fn = "flushPost" => postIndex' = postIndex + 1 /\ UNCHANGED <<flushIndex, preIndex>>
        /\ UNCHANGED <<queue, isFlushing, isFlushPending, pendingPre, activePre, parentJob,
                       pendingPost, activePost>>
      BY <1>3, <1>8 DEF Updates!S!ReturnsToLoop, Updates!S!Below
  <2>3. flushIndex \in Nat /\ preIndex \in Nat /\ postIndex \in Nat /\ Len(queue) \in Nat
      BY DEF SchedulerInv, SchedulerTypes
  <2>4. /\ h.task \in Updates!Updates => t[1].fn = "flushJobs"
        /\ h.task \notin Updates!Updates => t[1].fn \in {"flushPre", "flushPost"}
      BY <1>8, <2>1 DEF Makes
  <2> HIDE DEF t, h
  <2>a. /\ h.task \in Updates!Updates => flushIndex' = flushIndex + 1 /\ UNCHANGED <<preIndex, postIndex>>
        /\ h.task \notin Updates!Updates =>
              \/ preIndex' = preIndex + 1 /\ UNCHANGED <<flushIndex, postIndex>>
              \/ postIndex' = postIndex + 1 /\ UNCHANGED <<flushIndex, preIndex>>
      BY <2>2, <2>4
  <2>b. flushIndex' \in Nat /\ preIndex' \in Nat /\ postIndex' \in Nat
      BY <2>3, <2>a
  <2>5. SchedulerTypes'
      BY <2>2, <2>b DEF SchedulerInv, SchedulerTypes
  <2>6. Stacked'
      BY <1>1, <1>4 DEF Keeps, Stacked
  <2>7. Flags'
      BY <1>1, <1>2, <1>4, <2>2, FlagsKept DEF Keeps, SchedulerInv, LeftOver, h
  <2>8. Looping'
      BY <1>1, <1>4, <2>2, LoopingKept DEF Keeps, SchedulerInv
  <2>9. CASE h.task \in Updates!Updates
    <3>1. Level(h) = 1
        BY <1>8, <2>9, LevelIs
    <3>2. OnLevel(stack, 1) /\ ~OnLevel(t, 1) /\ ~OnLevel(stack, 4) /\ ~OnLevel(t, 4)
        BY <1>5, <1>6, <3>1
    <3>3. flushIndex' = flushIndex + 1 /\ UNCHANGED <<preIndex, postIndex, queue>>
        BY <2>2, <2>4, <2>9
    <3>4. Indexed'
        BY <1>4, <2>3, <3>2, <3>3 DEF SchedulerInv, Indexed
    <3>5. FirstUpdate' = FirstUpdate
        BY <1>4, <2>3, <3>2, <3>3 DEF FirstUpdate
    <3>6. \A c : UpdateWaits(c) => UpdateWaits(c)'
        BY <3>3, <3>5 DEF UpdateWaits
    <3>7. \A c : WatchWaits(c) => WatchWaits(c)'
        BY <1>4, <2>2, <3>2, <3>3 DEF WatchWaits, FirstPre, FirstPost
    <3>8. QED
        BY <1>4, <2>5, <2>6, <2>7, <2>8, <3>4, <3>6, <3>7 DEF SchedulerInv, t
  <2>10. CASE h.task \notin Updates!Updates
    <3>1. Level(h) = 4
        BY <1>8, <2>10, LevelIs
    <3>2. (OnLevel(stack, 1) <=> OnLevel(t, 1)) /\ OnLevel(stack, 4) /\ ~OnLevel(t, 4)
        BY <1>5, <1>6, <3>1
    <3>3. /\ UNCHANGED <<flushIndex, queue>>
          /\ preIndex' \in Nat /\ preIndex' <= preIndex + 1
          /\ postIndex' \in Nat /\ postIndex' <= postIndex + 1
        BY <2>2, <2>3, <2>a, <2>10
    <3>4. Indexed'
        BY <1>4, <3>2, <3>3 DEF SchedulerInv, Indexed
    <3>5. \A c : UpdateWaits(c) => UpdateWaits(c)'
        BY <1>4, <3>2, <3>3 DEF UpdateWaits, FirstUpdate
    <3>6. /\ FirstPre' = preIndex' /\ FirstPre = preIndex + 1
          /\ FirstPost' = postIndex' /\ FirstPost = postIndex + 1
      <4>1. ~OnLevel(stack', 4) /\ OnLevel(stack, 4)
          BY <1>4, <3>2
      <4>2. QED
        <5>1. FirstPre' = preIndex' + 0 /\ FirstPost' = postIndex' + 0
            BY <4>1 DEF FirstPre, FirstPost
        <5>2. FirstPre = preIndex + 1 /\ FirstPost = postIndex + 1
            BY <4>1 DEF FirstPre, FirstPost
        <5>3. QED
          <6>1. \A n \in Nat : n + 0 = n
              OBVIOUS
          <6>2. preIndex' \in Nat /\ postIndex' \in Nat
              BY <3>3
          <6>3. preIndex' + 0 = preIndex' /\ postIndex' + 0 = postIndex'
              BY <6>1, <6>2
          <6>4. QED
              BY <5>1, <5>2, <6>3
    <3>7. ASSUME NEW s, NEW n \in Nat, NEW m \in Nat, m <= n, NEW u, Ahead(s, n, u) PROVE Ahead(s, m, u)
        BY <3>7 DEF Ahead
    <3>8. /\ \A u : Ahead(activePre, FirstPre, u) => Ahead(activePre, FirstPre', u)
          /\ \A u : Ahead(activePost, FirstPost, u) => Ahead(activePost, FirstPost', u)
        BY <2>3, <3>3, <3>6, <3>7
    <3>9. \A c : WatchWaits(c) => WatchWaits(c)'
        BY <2>2, <3>8 DEF WatchWaits
    <3>10. QED
        BY <1>4, <2>5, <2>6, <2>7, <2>8, <3>4, <3>5, <3>9 DEF SchedulerInv, t
  <2>11. QED
      BY <2>9, <2>10
<1>9. QED
    BY <1>7, <1>8

\* An update runs within a flush, and a flush of callbacks for an update within its render.
LEMMA UnderWhat ==
    ASSUME NEW s \in Seq(CallSet), Nested(s)
    PROVE  /\ OnLevel(s, 1) => ~NoFlushing(s)
           /\ \A c \in Updates!Instance : Loops(s, "flushPre", Updates!Update(c)) => UpdateAt(s, c, {"render"})
<1>0. Len(s) \in Nat
    OBVIOUS
<1>1. ASSUME OnLevel(s, 1) PROVE ~NoFlushing(s)
  <2>1. PICK i \in 1..Len(s) : Level(s[i]) = 1
      BY <1>1 DEF OnLevel
  <2>2. s[i].fn = "task" /\ s[i].task \in Updates!Updates
      BY <2>1 DEF Level
  <2>3. i # Len(s) /\ Makes(s[i + 1], s[i])
      BY <2>2 DEF Nested
  <2>4. i + 1 \in 1..Len(s) /\ Flushing(s[i + 1])
      BY <1>0, <2>2, <2>3 DEF Makes, Flushing
  <2>5. QED
      BY <2>4 DEF NoFlushing
<1>2. ASSUME NEW c \in Updates!Instance, Loops(s, "flushPre", Updates!Update(c)) PROVE UpdateAt(s, c, {"render"})
  <2>1. PICK i \in 1..Len(s) : s[i].fn = "flushPre" /\ s[i].task = Updates!Update(c)
      BY <1>2 DEF Loops
  <2>2. i # Len(s) /\ Makes(s[i + 1], s[i])
      BY <2>1 DEF Nested
  <2>3. Updates!Update(c) # NoUpdate
      BY TasksDiffer
  <2>4. i + 1 \in 1..Len(s) /\ s[i + 1].fn = "update" /\ s[i + 1].at = "render"
        /\ s[i + 1].task = Updates!Update(c)
      BY <1>0, <2>1, <2>2, <2>3 DEF Makes
  <2>5. QED
      BY <2>4 DEF UpdateAt
<1>3. QED
    BY <1>1, <1>2

\* The call that has been scheduled.
LEMMA ScheduleEnds ==
    ASSUME SchedulerInv, stack # <<>>, Head(stack).fn = "schedule", stack' = Tail(stack)
    PROVE  /\ Keeps(stack') /\ Adds(Head(stack), stack', stack)
           /\ Head(stack).task \in Updates!Updates \cup Updates!Watches
           /\ \A n \in {1, 4} : OnLevel(stack', n) <=> OnLevel(stack, n)
           /\ \A c : \A ats : UpdateAt(stack', c, ats) <=> UpdateAt(stack, c, ats)
           /\ \A t : t # Head(stack).task => (Scheduled(stack, t) <=> Scheduled(stack', t))
           /\ \A c : RunsWatch(stack', c) <=> RunsWatch(stack, c)
           /\ \A c : NoCallback(stack', c) <=> NoCallback(stack, c)
           /\ \A c : OneCallback(stack', c) <=> OneCallback(stack, c)
           /\ HasJob(stack') <=> HasJob(stack)
           /\ \A t : Scheduled(stack', t) => Scheduled(stack, t)
           /\ Scheduled(stack, Head(stack).task)
<1>1. Head(stack) \in CallSet /\ Good(Head(stack)) /\ Keeps(stack') /\ Adds(Head(stack), stack', stack)
    BY TopEnds DEF Flushes
<1>2. Level(Head(stack)) = 5 /\ Head(stack).task \in Updates!Updates \cup Updates!Watches
    BY <1>1, LevelIs DEF Good
<1>3. \A c, at : ~IsJob(Head(stack), c, at)
    BY DEF IsJob
<1>4. \A n \in {1, 4} : OnLevel(stack', n) <=> OnLevel(stack, n)
    BY <1>1, <1>2 DEF Adds
<1>5. QED
    BY <1>1, <1>2, <1>3, <1>4 DEF Adds

\* Where the update is inserted.
LEMMA InsertedAt ==
    ASSUME SchedulerInv, NEW t \in Updates!Updates, Updates!S!Wanted(t), Updates!S!QueueJob(t)
    PROVE  /\ \E p \in 1..Len(queue) + 1 : p > FirstUpdate /\ queue' = Updates!S!InsertAt(queue, p, t)
           /\ isFlushPending' = (isFlushPending \/ ~isFlushing)
           /\ UNCHANGED <<flushIndex, isFlushing, pendingPre, activePre, preIndex, parentJob,
                          pendingPost, activePost, postIndex>>
<1>1. PICK i \in Updates!S!FindInsertionIndex(t) :
            queue' = Updates!S!InsertAt(queue, IF i > Len(queue) THEN Len(queue) + 1 ELSE i + 1, t)
    BY DEF Updates!S!QueueJob
<1>2. /\ flushIndex \in Nat /\ Len(queue) \in Nat /\ flushIndex <= Len(queue)
      /\ OnLevel(stack, 1) => flushIndex < Len(queue)
    BY DEF SchedulerInv, SchedulerTypes, Indexed
<1>3. \/ i = flushIndex + 1 /\ flushIndex + 1 >= Len(queue)
      \/ i \in flushIndex + 1..Len(queue)
    BY <1>1 DEF Updates!S!FindInsertionIndex, Updates!S!SearchStart
<1> DEFINE p == IF i > Len(queue) THEN Len(queue) + 1 ELSE i + 1
<1>4. i \in Nat /\ i >= flushIndex + 1 /\ i <= Len(queue) + 1
    BY <1>2, <1>3
<1>5. p \in 1..Len(queue) + 1 /\ (p > flushIndex + 1 \/ (p = Len(queue) + 1 /\ p > flushIndex))
    BY <1>2, <1>4
<1>6. p > FirstUpdate
  <2> HIDE DEF p
  <2>1. CASE OnLevel(stack, 1)
    <3>1. FirstUpdate = flushIndex + 1
        BY <2>1 DEF FirstUpdate
    <3>2. QED
        BY <1>2, <1>5, <2>1, <3>1
  <2>2. CASE ~OnLevel(stack, 1)
    <3>1. FirstUpdate = flushIndex + 0
        BY <2>2 DEF FirstUpdate
    <3>2. QED
        BY <1>2, <1>5, <3>1
  <2>3. QED
      BY <2>1, <2>2
<1>7. /\ isFlushPending' = (isFlushPending \/ ~isFlushing)
      /\ UNCHANGED <<flushIndex, isFlushing, pendingPre, activePre, preIndex, parentJob,
                     pendingPost, activePost, postIndex>>
    BY DEF Updates!S!QueueJob, Updates!S!FlushPending, Updates!S!preVars, Updates!S!postVars
<1>8. QED
    BY <1>1, <1>5, <1>6, <1>7

\* An update that is not wanted waits, or its render is under way.
LEMMA NotWanted ==
    ASSUME SchedulerInv, NEW c \in Updates!Instance, ~Updates!S!Wanted(Updates!Update(c))
    PROVE  UpdateWaits(c) \/ UpdateAt(stack, c, {"render"})
<1>1. Updates!Update(c) \in Updates!Updates /\ Updates!Update(c) # NoUpdate
    BY TasksDiffer
<1>2. stack \in Seq(CallSet) /\ Nested(stack)
    BY DEF SchedulerInv, Stacked
<1>3. /\ flushIndex \in Nat /\ Len(queue) \in Nat /\ isFlushing \in BOOLEAN
    BY DEF SchedulerInv, SchedulerTypes
<1>4. CASE Updates!Update(c) = parentJob
  <2>1. Loops(stack, "flushPre", Updates!Update(c))
      BY <1>1, <1>4 DEF SchedulerInv, Looping
  <2>2. QED
      BY <1>2, <2>1, UnderWhat
<1>5. CASE Updates!Update(c) # parentJob
  <2>1. \E k \in (IF isFlushing THEN flushIndex + 1 ELSE flushIndex) + 1..Len(queue) : queue[k] = Updates!Update(c)
      BY <1>1, <1>5, Zenon DEF Updates!S!Wanted, Updates!S!Includes
  <2>2. CASE isFlushing
    <3>1. PICK k \in (flushIndex + 1) + 1..Len(queue) : queue[k] = Updates!Update(c)
        BY <2>1, <2>2
    <3>2. FirstUpdate = flushIndex + 1 \/ FirstUpdate = flushIndex + 0
        BY DEF FirstUpdate
    <3>3. k \in 1..Len(queue) /\ k > FirstUpdate
        BY <1>3, <3>2
    <3>4. QED
        BY <3>1, <3>3 DEF UpdateWaits, Ahead
  <2>3. CASE ~isFlushing
    <3>1. PICK k \in flushIndex + 1..Len(queue) : queue[k] = Updates!Update(c)
        BY <2>1, <2>3
    <3>2. ~OnLevel(stack, 1)
        BY <1>2, <2>3, UnderWhat DEF SchedulerInv, Flags
    <3>3. FirstUpdate = flushIndex + 0
        BY <3>2 DEF FirstUpdate
    <3>4. k \in 1..Len(queue) /\ k > FirstUpdate
        BY <1>3, <3>3
    <3>5. QED
        BY <3>1, <3>4 DEF UpdateWaits, Ahead
  <2>4. QED
      BY <2>2, <2>3
<1>6. QED
    BY <1>4, <1>5

LEMMA UpdateIsScheduledKeeps ==
    ASSUME SchedulerInv, Updates!UpdateIsScheduled
    PROVE  SchedulerInv' /\ WorkKept
<1> DEFINE t == Head(stack).task
<1>1. /\ stack # <<>> /\ Head(stack).fn = "schedule" /\ t \in Updates!Updates /\ Updates!S!QueueJob(t)
      /\ stack' = Tail(stack)
    BY DEF Updates!UpdateIsScheduled, Updates!Works, Updates!TopTask
<1>2. PICK c \in Updates!Instance : t = Updates!Update(c)
    BY <1>1 DEF Updates!Updates
<1>3. /\ Keeps(stack')
      /\ \A n \in {1, 4} : OnLevel(stack', n) <=> OnLevel(stack, n)
      /\ \A d : \A ats : UpdateAt(stack', d, ats) <=> UpdateAt(stack, d, ats)
      /\ \A u : u # t => (Scheduled(stack, u) <=> Scheduled(stack', u))
      /\ \A d : RunsWatch(stack', d) <=> RunsWatch(stack, d)
      /\ \A d : NoCallback(stack', d) <=> NoCallback(stack, d)
      /\ \A d : OneCallback(stack', d) <=> OneCallback(stack, d)
      /\ HasJob(stack') <=> HasJob(stack)
      /\ \A u : Scheduled(stack', u) => Scheduled(stack, u)
    BY <1>1, ScheduleEnds
<1>4. \A d : Updates!Watch(d) # t
    BY <1>2, TasksDiffer
<1> HIDE DEF t
<1>5. ASSUME SchedulerInv', \A d \in Updates!Instance : UpdateWaits(d) => UpdateWaits(d)',
             UpdateWaits(c)' \/ UpdateAt(stack, c, {"render"}),
             \A d \in Updates!Instance : WatchWaits(d) => WatchWaits(d)'
      PROVE  WorkKept
  <2>1. ASSUME NEW d \in Updates!Instance, Coming(d) PROVE Coming(d)'
    <3>1. CASE d = c
      <4>1. CASE UpdateWaits(c)'
          BY <3>1, <4>1 DEF Coming
      <4>2. CASE UpdateAt(stack, c, {"render"})
        <5>1. UpdateAt(stack, c, {"runs", "render"})
            BY <4>2 DEF UpdateAt
        <5>2. UpdateAt(stack', c, {"runs", "render"})
            BY <1>3, <5>1
        <5>3. QED
            BY <3>1, <5>2 DEF Coming
      <4>3. QED
          BY <1>5, <4>1, <4>2
    <3>2. CASE d # c
      <4>1. Updates!Update(d) # t
          BY <1>2, <3>2, TasksDiffer
      <4>2. QED
          BY <1>3, <1>5, <2>1, <4>1 DEF Coming
    <3>3. QED
        BY <3>1, <3>2
  <2>2. ASSUME NEW d \in Updates!Instance, WatchComing(d) PROVE WatchComing(d)'
      BY <1>3, <1>4, <1>5, <2>2 DEF WatchComing
  <2>3. QED
      BY <1>3, <2>1, <2>2 DEF WorkKept
<1>6. CASE Updates!S!Wanted(t)
  <2>1. /\ \E p \in 1..Len(queue) + 1 : p > FirstUpdate /\ queue' = Updates!S!InsertAt(queue, p, t)
        /\ isFlushPending' = (isFlushPending \/ ~isFlushing)
        /\ UNCHANGED <<flushIndex, isFlushing, pendingPre, activePre, preIndex, parentJob,
                       pendingPost, activePost, postIndex>>
      BY <1>1, <1>6, InsertedAt
  <2>2. PICK p \in 1..Len(queue) + 1 : p > FirstUpdate /\ queue' = Updates!S!InsertAt(queue, p, t)
      BY <2>1
  <2>3. queue \in Seq(Updates!Updates) /\ FirstUpdate \in Nat /\ Len(queue) \in Nat /\ flushIndex \in Nat
    <3>1. FirstUpdate = flushIndex + 1 \/ FirstUpdate = flushIndex + 0
        BY DEF FirstUpdate
    <3>2. QED
        BY <3>1 DEF SchedulerInv, SchedulerTypes
  <2>4. /\ queue' \in Seq(Updates!Updates) /\ Len(queue') = Len(queue) + 1 /\ Ahead(queue', FirstUpdate, t)
        /\ \A u : Ahead(queue, FirstUpdate, u) => Ahead(queue', FirstUpdate, u)
      BY <1>1, <2>2, <2>3, InsertHas
  <2>5. OnLevel(stack', 1) <=> OnLevel(stack, 1)
      BY <1>3
  <2>6. FirstUpdate' = FirstUpdate
      BY <2>1, <2>5 DEF FirstUpdate
  <2>7. isFlushPending' \in BOOLEAN /\ isFlushing \in BOOLEAN
      BY <2>1 DEF SchedulerInv, SchedulerTypes
  <2>8. SchedulerTypes'
      BY <2>1, <2>4, <2>7 DEF SchedulerInv, SchedulerTypes
  <2>9. Stacked'
      BY <1>3 DEF Keeps, Stacked
  <2>10. Flags'
      BY <1>3, <2>1, <2>7 DEF Keeps, Flags, SchedulerInv
  <2>11. Indexed'
      BY <2>1, <2>3, <2>4, <2>5 DEF SchedulerInv, Indexed
  <2>12. Looping'
      BY <1>3, <2>1, LoopingKept DEF Keeps, SchedulerInv
  <2>13. SchedulerInv'
      BY <2>8, <2>9, <2>10, <2>11, <2>12 DEF SchedulerInv
  <2>14. \A d \in Updates!Instance : UpdateWaits(d) => UpdateWaits(d)'
      BY <2>4, <2>6 DEF UpdateWaits
  <2>15. UpdateWaits(c)'
      BY <1>2, <2>4, <2>6 DEF UpdateWaits
  <2>16. OnLevel(stack', 4) <=> OnLevel(stack, 4)
      BY <1>3
  <2>17. \A d \in Updates!Instance : WatchWaits(d) => WatchWaits(d)'
      BY <2>1, <2>16 DEF WatchWaits, FirstPre, FirstPost
  <2>18. QED
      BY <1>5, <2>13, <2>14, <2>15, <2>17
<1>7. CASE ~Updates!S!Wanted(t)
  <2>1. Updates!NoQueueing
      BY <1>1, <1>7 DEF Updates!S!QueueJob, Updates!NoQueueing, Updates!queueVars, Updates!preVars, Updates!postVars,
         Updates!S!queueVars, Updates!S!preVars, Updates!S!postVars
  <2>2. /\ SchedulerInv'
        /\ \A d : UpdateWaits(d)' <=> UpdateWaits(d)
        /\ \A d : WatchWaits(d)' <=> WatchWaits(d)
      BY <1>1, <1>3, <2>1, NoneQueued
  <2>3. UpdateWaits(c) \/ UpdateAt(stack, c, {"render"})
      BY <1>2, <1>7, NotWanted
  <2>4. QED
      BY <1>5, <2>2, <2>3
<1>8. QED
    BY <1>6, <1>7

\* The calls that components make.
LEMMA FrameIs ==
    ASSUME NEW fn \in {"schedule", "job", "update"}, NEW t \in Own
    PROVE  /\ Updates!Frame(fn, t) \in CallSet /\ Updates!Frame(fn, t).fn = fn /\ Updates!Frame(fn, t).at = "runs"
           /\ Updates!Frame(fn, t).task = t
<1>1. Updates!S!NotSeen \in [Own -> Nat]
    BY TaskIs DEF Updates!S!NotSeen
<1>2. QED
    BY <1>1 DEF Updates!Frame, Updates!S!Call, CallSet

\* A scheduler or a job is called.
LEMMA PushKeeps ==
    ASSUME NEW s, Keeps(s), NEW f \in CallSet, Good(f), f.fn \in {"schedule", "job"},
           NEW r, r = <<f>> \o s
    PROVE  Keeps(r) /\ Adds(f, s, r)
<1>1. s \in Seq(CallSet) /\ Nested(s)
    BY DEF Keeps
<1>2. r \in Seq(CallSet) /\ Nested(r)
    BY <1>1, FitsAnywhere, NestedPush, OneMore
<1>3. /\ NoFlushing(r) <=> ~Flushing(f) /\ NoFlushing(s)
      /\ \A fn, t : Loops(r, fn, t) <=> (f.fn = fn /\ f.at = "loop" /\ f.task = t) \/ Loops(s, fn, t)
    BY <1>1, PushSees
<1>4. ~Flushing(f)
    BY DEF Flushing
<1>5. Keeps(r)
    BY <1>2, <1>3, <1>4 DEF Keeps
<1>6. QED
    BY <1>1, <1>5, PushAdds

\* The callback of a watcher is queued, or stands in the active queue.
LEMMA PushedWaits ==
    ASSUME NEW T, NEW c \in Updates!Instance, Updates!Watch(c) \in T, NEW ran, NEW index \in Nat,
           NEW pending \in Seq(T), NEW p, p = Updates!S!Pushed(Updates!Watch(c), ran, index, pending)
    PROVE  /\ p \in Seq(T) /\ \A t : Ahead(pending, 0, t) => Ahead(p, 0, t)
           /\ Ahead(p, 0, Updates!Watch(c)) \/ Ahead(ran, index + 1, Updates!Watch(c))
<1>1. Updates!Watch(c) \in Updates!Updates \cup Updates!Watches
    BY TasksDiffer
<1>2. p = IF Updates!S!Includes(ran, Updates!Watch(c), index + 1) THEN pending ELSE Append(pending, Updates!Watch(c))
    BY <1>1 DEF Updates!S!Pushed
<1>3. CASE Updates!S!Includes(ran, Updates!Watch(c), index + 1)
  <2>1. PICK i \in (index + 1) + 1..Len(ran) : ran[i] = Updates!Watch(c)
      BY <1>3 DEF Updates!S!Includes
  <2>2. i \in 1..Len(ran) /\ i > index + 1
      OBVIOUS
  <2>3. QED
      BY <1>2, <1>3, <2>1, <2>2 DEF Ahead
<1>4. CASE ~Updates!S!Includes(ran, Updates!Watch(c), index + 1)
    BY <1>2, <1>4, AppendHas
<1>5. QED
    BY <1>3, <1>4

LEMMA WatchIsScheduledKeeps ==
    ASSUME SchedulerInv, ComponentInv, Updates!WatchIsScheduled
    PROVE  SchedulerInv' /\ WorkKept
<1> DEFINE t == Head(stack).task
<1>1. stack # <<>> /\ Head(stack).fn = "schedule" /\ t \in Updates!Watches
    BY DEF Updates!WatchIsScheduled, Updates!Works, Updates!TopTask
<1>2. PICK c \in Updates!Instance : t = Updates!Watch(c)
    BY <1>1 DEF Updates!Watches
<1>3. /\ Keeps(Tail(stack)) /\ Adds(Head(stack), Tail(stack), stack)
      /\ Head(stack) \in CallSet /\ Good(Head(stack))
    BY <1>1, TopEnds DEF Flushes
<1>4. Level(Head(stack)) = 5
    BY <1>1, LevelIs
<1>5. \A d, at : ~IsJob(Head(stack), d, at)
    BY <1>1 DEF IsJob
<1>6. /\ \A n \in {1, 4} : OnLevel(stack, n) <=> OnLevel(Tail(stack), n)
      /\ \A d, ats : UpdateAt(stack, d, ats) <=> UpdateAt(Tail(stack), d, ats)
      /\ \A u : Scheduled(stack, u) <=> Updates!Watch(c) = u \/ Scheduled(Tail(stack), u)
      /\ \A d : RunsWatch(stack, d) <=> RunsWatch(Tail(stack), d)
      /\ \A d : NoCallback(stack, d) <=> NoCallback(Tail(stack), d)
      /\ \A d : OneCallback(stack, d) <=> OneCallback(Tail(stack), d)
      /\ HasJob(stack) <=> HasJob(Tail(stack))
  <2>1. \A n \in {1, 4} : OnLevel(stack, n) <=> OnLevel(Tail(stack), n)
      BY <1>3, <1>4 DEF Adds
  <2>2. QED
      BY <1>1, <1>2, <1>3, <1>5, <2>1 DEF Adds
<1>7. instance[c] # "new"
    BY <1>2, <1>6 DEF ComponentInv, Tracking
<1>8. t[2] = c
    BY <1>2 DEF Updates!Watch
<1>9. \/ /\ mode = "sync" /\ stack' = <<Updates!Frame("job", t)>> \o Tail(stack) /\ Updates!NoQueueing
      \/ Updates!S!QueuePostFlushCb(t) /\ stack' = Tail(stack)
      \/ Updates!S!QueuePreFlushCb(t) /\ stack' = Tail(stack)
    BY <1>7, <1>8 DEF Updates!WatchIsScheduled, Updates!TopTask
<1> HIDE DEF t
<1>10. CASE mode = "sync" /\ stack' = <<Updates!Frame("job", t)>> \o Tail(stack) /\ Updates!NoQueueing
  <2> DEFINE f == Updates!Frame("job", t)
  <2>1. f \in CallSet /\ f.fn = "job" /\ f.at = "runs" /\ f.task = Updates!Watch(c)
    <3>1. t \in Own
        BY <1>1 DEF Own, t
    <3>2. QED
        BY <1>2, <3>1, FrameIs
  <2>2. stack' = <<f>> \o Tail(stack)
      BY <1>10
  <2> HIDE DEF f
  <2>3. Good(f)
      BY <2>1, TasksDiffer DEF Good
  <2>4. Keeps(stack') /\ Adds(f, Tail(stack), stack')
      BY <1>3, <2>1, <2>2, <2>3, PushKeeps
  <2>5. Level(f) = 5 /\ (\A d : ~IsJob(f, d, "callback")) /\ IsJob(f, c, "runs")
      BY <2>1, LevelIs DEF IsJob
  <2>6. /\ \A n \in {1, 4} : OnLevel(stack', n) <=> OnLevel(stack, n)
        /\ \A d, ats : UpdateAt(stack', d, ats) <=> UpdateAt(stack, d, ats)
        /\ \A u : Scheduled(stack, u) <=> Updates!Watch(c) = u \/ Scheduled(stack', u)
        /\ \A d : RunsWatch(stack, d) => RunsWatch(stack', d)
        /\ RunsWatch(stack', c)
        /\ \A d : NoCallback(stack', d) <=> NoCallback(stack, d)
        /\ \A d : OneCallback(stack', d) <=> OneCallback(stack, d)
    <3>1. \A n \in {1, 4} : OnLevel(stack', n) <=> OnLevel(stack, n)
        BY <1>6, <2>4, <2>5 DEF Adds
    <3>2. \A d, ats : UpdateAt(stack', d, ats) <=> UpdateAt(stack, d, ats)
        BY <1>6, <2>1, <2>4 DEF Adds
    <3>3. \A u : Scheduled(stack, u) <=> Updates!Watch(c) = u \/ Scheduled(stack', u)
        BY <1>6, <2>1, <2>4 DEF Adds
    <3>4. (\A d : RunsWatch(stack, d) => RunsWatch(stack', d)) /\ RunsWatch(stack', c)
        BY <1>6, <2>4, <2>5 DEF Adds
    <3>5. /\ \A d : NoCallback(stack', d) <=> NoCallback(stack, d)
          /\ \A d : OneCallback(stack', d) <=> OneCallback(stack, d)
        BY <1>6, <2>4, <2>5 DEF Adds
    <3>6. QED
        BY <3>1, <3>2, <3>3, <3>4, <3>5
  <2>7. /\ SchedulerInv'
        /\ \A d : UpdateWaits(d)' <=> UpdateWaits(d)
        /\ \A d : WatchWaits(d)' <=> WatchWaits(d)
      BY <1>1, <1>10, <2>4, <2>6, NoneQueued
  <2>8. ASSUME NEW d \in Updates!Instance, Coming(d) PROVE Coming(d)'
    <3>1. Updates!Watch(c) # Updates!Update(d)
        BY TasksDiffer
    <3>2. QED
        BY <2>6, <2>7, <2>8, <3>1 DEF Coming
  <2>9. ASSUME NEW d \in Updates!Instance, WatchComing(d) PROVE WatchComing(d)'
    <3>1. Updates!Watch(c) = Updates!Watch(d) => c = d
        BY TasksDiffer
    <3>2. QED
        BY <2>6, <2>7, <2>9, <3>1 DEF WatchComing
  <2>10. WorkKept
      BY <1>10, <2>6, <2>8, <2>9 DEF WorkKept
  <2>11. QED
      BY <2>7, <2>10
<1>11. ASSUME stack' = Tail(stack), SchedulerInv',
              \A d : UpdateWaits(d)' <=> UpdateWaits(d), \A d : WatchWaits(d) => WatchWaits(d)',
              WatchWaits(c)'
       PROVE  WorkKept
  <2>1. ASSUME NEW d \in Updates!Instance, Coming(d) PROVE Coming(d)'
    <3>1. Updates!Watch(c) # Updates!Update(d)
        BY TasksDiffer
    <3>2. QED
        BY <1>6, <1>11, <2>1, <3>1 DEF Coming
  <2>2. ASSUME NEW d \in Updates!Instance, WatchComing(d) PROVE WatchComing(d)'
    <3>1. Updates!Watch(c) = Updates!Watch(d) => c = d
        BY TasksDiffer
    <3>2. QED
        BY <1>6, <1>11, <2>2, <3>1 DEF WatchComing
  <2>3. QED
      BY <1>6, <1>11, <2>1, <2>2 DEF WorkKept
<1>12. /\ preIndex \in Nat /\ postIndex \in Nat /\ pendingPre \in Seq(Updates!Watches)
       /\ pendingPost \in Seq(Updates!Watches \cup Updates!Hooks) /\ Updates!Watch(c) \in Updates!Watches
    BY TasksDiffer DEF SchedulerInv, SchedulerTypes
<1>13. \A s, n : /\ Ahead(s, preIndex + 1, n) => Ahead(s, FirstPre, n)
                 /\ Ahead(s, postIndex + 1, n) => Ahead(s, FirstPost, n)
  <2>1. FirstPre \in Nat /\ FirstPre <= preIndex + 1 /\ FirstPost \in Nat /\ FirstPost <= postIndex + 1
      BY <1>12 DEF FirstPre, FirstPost
  <2>2. ASSUME NEW s, NEW m \in Nat, NEW n \in Nat, m <= n, NEW u, Ahead(s, n, u) PROVE Ahead(s, m, u)
      BY <2>2 DEF Ahead
  <2>3. QED
      BY <1>12, <2>1, <2>2
<1>14. CASE Updates!S!QueuePostFlushCb(t) /\ stack' = Tail(stack)
  <2>1. /\ pendingPost' = Updates!S!Pushed(Updates!Watch(c), activePost, postIndex, pendingPost) /\ Updates!S!FlushPending
        /\ UNCHANGED <<queue, flushIndex, isFlushing, pendingPre, activePre, preIndex, parentJob,
                       activePost, postIndex>>
      BY <1>2, <1>14 DEF Updates!S!QueuePostFlushCb, Updates!S!queueVars, Updates!S!preVars
  <2>2. /\ pendingPost' \in Seq(Updates!Watches \cup Updates!Hooks)
        /\ \A u : Ahead(pendingPost, 0, u) => Ahead(pendingPost', 0, u)
        /\ Ahead(pendingPost', 0, Updates!Watch(c)) \/ Ahead(activePost, postIndex + 1, Updates!Watch(c))
    <3> DEFINE T == Updates!Watches \cup Updates!Hooks
    <3>1. Updates!Watch(c) \in T /\ pendingPost \in Seq(T)
        BY <1>12
    <3> HIDE DEF T
    <3>2. /\ pendingPost' \in Seq(T) /\ \A u : Ahead(pendingPost, 0, u) => Ahead(pendingPost', 0, u)
          /\ Ahead(pendingPost', 0, Updates!Watch(c)) \/ Ahead(activePost, postIndex + 1, Updates!Watch(c))
        BY <1>12, <2>1, <3>1, PushedWaits
    <3>3. QED
        BY <3>2 DEF T
  <2>3. pendingPre' \in Seq(Updates!Watches) /\ \A u : Ahead(pendingPre, 0, u) => Ahead(pendingPre', 0, u)
      BY <1>12, <2>1
  <2>4. Keeps(stack') /\ \A n \in {1, 4} : OnLevel(stack', n) <=> OnLevel(stack, n)
      BY <1>3, <1>6, <1>14
  <2>5. /\ SchedulerInv'
        /\ \A d : UpdateWaits(d)' <=> UpdateWaits(d)
        /\ \A d : WatchWaits(d) => WatchWaits(d)'
      BY <2>1, <2>2, <2>3, <2>4, CallbackIsQueued
  <2>6. WatchWaits(c)'
    <3>1. CASE Ahead(pendingPost', 0, Updates!Watch(c))
        BY <3>1 DEF WatchWaits
    <3>2. CASE Ahead(activePost, postIndex + 1, Updates!Watch(c))
      <4>1. WatchWaits(c)
          BY <1>13, <3>2 DEF WatchWaits
      <4>2. QED
          BY <2>5, <4>1
    <3>3. QED
        BY <2>2, <3>1, <3>2
  <2>7. QED
      BY <1>11, <1>14, <2>5, <2>6
<1>15. CASE Updates!S!QueuePreFlushCb(t) /\ stack' = Tail(stack)
  <2>1. /\ pendingPre' = Updates!S!Pushed(Updates!Watch(c), activePre, preIndex, pendingPre) /\ Updates!S!FlushPending
        /\ UNCHANGED <<queue, flushIndex, isFlushing, activePre, preIndex, parentJob, pendingPost,
                       activePost, postIndex>>
      BY <1>2, <1>15 DEF Updates!S!QueuePreFlushCb, Updates!S!queueVars, Updates!S!postVars
  <2>2. /\ pendingPre' \in Seq(Updates!Watches)
        /\ \A u : Ahead(pendingPre, 0, u) => Ahead(pendingPre', 0, u)
        /\ Ahead(pendingPre', 0, Updates!Watch(c)) \/ Ahead(activePre, preIndex + 1, Updates!Watch(c))
      BY <1>12, <2>1, PushedWaits
  <2>3. /\ pendingPost' \in Seq(Updates!Watches \cup Updates!Hooks)
        /\ \A u : Ahead(pendingPost, 0, u) => Ahead(pendingPost', 0, u)
      BY <1>12, <2>1
  <2>4. Keeps(stack') /\ \A n \in {1, 4} : OnLevel(stack', n) <=> OnLevel(stack, n)
      BY <1>3, <1>6, <1>15
  <2>5. /\ SchedulerInv'
        /\ \A d : UpdateWaits(d)' <=> UpdateWaits(d)
        /\ \A d : WatchWaits(d) => WatchWaits(d)'
      BY <2>1, <2>2, <2>3, <2>4, CallbackIsQueued
  <2>6. WatchWaits(c)'
    <3>1. CASE Ahead(pendingPre', 0, Updates!Watch(c))
        BY <3>1 DEF WatchWaits
    <3>2. CASE Ahead(activePre, preIndex + 1, Updates!Watch(c))
      <4>1. WatchWaits(c)
          BY <1>13, <3>2 DEF WatchWaits
      <4>2. QED
          BY <2>5, <4>1
    <3>3. QED
        BY <2>2, <3>1, <3>2
  <2>7. QED
      BY <1>11, <1>15, <2>5, <2>6
<1>16. QED
    BY <1>9, <1>10, <1>14, <1>15

\* The same jobs of watchers are under way.
SameJobs(r) ==
    /\ \A t : Scheduled(r, t) <=> Scheduled(stack, t)
    /\ \A d : RunsWatch(r, d) <=> RunsWatch(stack, d)
    /\ \A d : NoCallback(r, d) <=> NoCallback(stack, d)
    /\ \A d : OneCallback(r, d) <=> OneCallback(stack, d)
    /\ HasJob(r) <=> HasJob(stack)

\* The innermost call is an update: no other one is before or at its render.
LEMMA UpdateOnTop ==
    ASSUME SchedulerInv, stack # <<>>, Head(stack).fn \in {"task", "update"},
           NEW c \in Updates!Instance, Head(stack).task = Updates!Update(c)
    PROVE  /\ \A d \in Updates!Instance : ~UpdateAt(Tail(stack), d, {"runs", "render"})
           /\ \A d \in Updates!Instance : ~UpdateAt(Tail(stack), d, {"render"})
           /\ \A d, ats : UpdateAt(stack, d, ats) <=>
                 (d = c /\ Head(stack).at \in ats) \/ UpdateAt(Tail(stack), d, ats)
           /\ \A n \in {1, 4} : OnLevel(stack, n) => n = 1
           /\ SameJobs(Tail(stack))
           /\ Head(stack).at \in {"runs", "render", "rendered", "updated"}
           /\ Head(stack) \in CallSet /\ Good(Head(stack)) /\ Fits(Head(stack), Tail(stack))
           /\ Keeps(Tail(stack))
           /\ \A d \in Updates!Instance : NoCallback(stack, d)
           /\ \A t : ~Scheduled(stack, t)
           /\ \A d \in Updates!Instance : ~RunsWatch(stack, d)
<1> DEFINE h == Head(stack)
           t == Tail(stack)
<1>1. h \in CallSet /\ Good(h) /\ Fits(h, t) /\ Keeps(t) /\ Adds(h, t, stack)
    BY TopEnds DEF Flushes
<1>2. Updates!Update(c) \in Updates!Updates /\ Updates!Update(c) \notin Updates!Watches /\ Updates!Update(c) \notin Updates!Hooks
    BY TasksDiffer
<1>3. h.fn \in {"task", "update"} /\ h.task = Updates!Update(c)
    OBVIOUS
<1>4. \A n : OnLevel(t, n) => n < Level(h) \/ (n = Level(h) /\ n \in {0, 5})
    BY <1>1, BelowIs
<1> HIDE DEF h, t
<1>5. Level(h) \in {1, 2} /\ (h.fn = "task" => Level(h) = 1) /\ (h.fn = "update" => Level(h) = 2)
    BY <1>2, <1>3, LevelIs
<1>6. h.at \in {"runs", "render", "rendered", "updated"}
    BY <1>1, <1>2, <1>3 DEF Good
<1>7. ASSUME NEW d \in Updates!Instance, NEW ats \in SUBSET {"runs", "render"}, UpdateAt(t, d, ats) PROVE FALSE
  <2>1. OnLevel(t, 1) \/ OnLevel(t, 2)
      BY <1>7, LevelOfWork
  <2>2. h.fn = "update" /\ Level(h) = 2 /\ ~OnLevel(t, 2)
      BY <1>3, <1>4, <1>5, <2>1
  <2>3. PICK i \in 1..Len(t) : /\ t[i].fn \in {"task", "update"} /\ t[i].task = Updates!Update(d)
                               /\ t[i].at \in {"runs", "render"}
      BY <1>7 DEF UpdateAt
  <2>4. t # <<>> /\ Makes(t[1], h)
      BY <1>1, <2>2 DEF Fits
  <2>5. t[1].fn = "task" /\ t[1].task = Updates!Update(Updates!Root) /\ t[1].at = "rendered"
      BY <2>2, <2>4 DEF Makes
  <2>6. Len(t) \in Nat /\ i # 1
      BY <1>1, <2>3, <2>5 DEF Keeps
  <2>7. Over(t[1], t[i])
      BY <1>1, <2>6 DEF Keeps, Nested
  <2>8. Updates!Root \in Updates!Instance
      BY DEF Updates!Instance
  <2>9. Level(t[1]) = 1
      BY <2>5, <2>8, TasksDiffer, LevelIs
  <2>10. Level(t[i]) \in {1, 2}
      BY <2>3, TasksDiffer, LevelIs
  <2>11. QED
      BY <2>5, <2>7, <2>9, <2>10 DEF Over
<1>8. \A n \in {4, 5} : ~OnLevel(t, n)
    BY <1>4, <1>5
<1>9. \A d, at : ~IsJob(h, d, at)
    BY <1>3, TasksDiffer DEF IsJob
<1>10. SameJobs(t)
  <2>1. h.fn # "schedule" /\ h.fn # "job"
      BY <1>3
  <2>2. QED
      BY <1>1, <1>9, <2>1 DEF Adds, SameJobs
<1>11. /\ \A d \in Updates!Instance : NoCallback(stack, d)
       /\ \A u : ~Scheduled(stack, u)
       /\ \A d \in Updates!Instance : ~RunsWatch(stack, d)
  <2>1. /\ \A d \in Updates!Instance : NoCallback(t, d)
        /\ \A u : ~Scheduled(t, u)
        /\ \A d \in Updates!Instance : ~RunsWatch(t, d)
      BY <1>8, LevelOfWork
  <2>2. QED
      BY <1>10, <2>1 DEF SameJobs
<1>12. \A n \in {1, 4} : OnLevel(stack, n) => n = 1
    BY <1>1, <1>5, <1>8 DEF Adds
<1>13. \A d, ats : UpdateAt(stack, d, ats) <=> (d = c /\ h.at \in ats) \/ UpdateAt(t, d, ats)
  <2>1. \A d : Updates!Update(c) = Updates!Update(d) <=> d = c
      BY TasksDiffer
  <2>2. QED
      BY <1>1, <1>3, <2>1 DEF Adds
<1>14. /\ \A d \in Updates!Instance : ~UpdateAt(t, d, {"runs", "render"})
       /\ \A d \in Updates!Instance : ~UpdateAt(t, d, {"render"})
  <2>1. {"runs", "render"} \in SUBSET {"runs", "render"} /\ {"render"} \in SUBSET {"runs", "render"}
      OBVIOUS
  <2>2. QED
      BY <1>7, <2>1
<1>15. QED
    BY <1>1, <1>6, <1>10, <1>11, <1>12, <1>13, <1>14 DEF h, t

\* An update goes on.
LEMMA UpdateGoesOn ==
    ASSUME SchedulerInv, stack # <<>>, Head(stack).fn \in {"task", "update"},
           NEW c \in Updates!Instance, Head(stack).task = Updates!Update(c),
           NEW at \in {"render", "rendered", "updated"}, NEW q, q = <<Updates!At(at)>> \o Tail(stack)
    PROVE  /\ Keeps(q) /\ q # <<>> /\ Head(q) = Updates!At(at) /\ Updates!At(at) \in CallSet
           /\ Updates!At(at).fn = Head(stack).fn /\ Updates!At(at).at = at /\ Updates!At(at).task = Updates!Update(c)
           /\ \A n : OnLevel(q, n) <=> OnLevel(stack, n)
           /\ \A d, ats : UpdateAt(q, d, ats) <=> (d = c /\ at \in ats) \/ UpdateAt(Tail(stack), d, ats)
           /\ SameJobs(q)
<1>1. Head(stack) \in CallSet /\ Good(Head(stack)) /\ SameJobs(Tail(stack))
    BY UpdateOnTop
<1>2. at \in {"runs", "render", "rendered", "updated", "callback"}
    OBVIOUS
<1>3. Updates!Update(c) \in Updates!Updates /\ Updates!Update(c) \notin Updates!Watches /\ Updates!Update(c) \notin Updates!Hooks
    BY TasksDiffer
<1>4. Updates!At(at).fn = Head(stack).fn /\ Updates!At(at).at = at /\ Updates!At(at).task = Head(stack).task
  <2>1. at \in {"pre", "sort", "jobs", "finally", "ends", "begin", "loop",
                 "runs", "render", "rendered", "updated", "callback"}
      OBVIOUS
  <2>2. /\ [Head(stack) EXCEPT !.at = at].fn = Head(stack).fn /\ [Head(stack) EXCEPT !.at = at].at = at
        /\ [Head(stack) EXCEPT !.at = at].task = Head(stack).task
      BY <1>1, <2>1, CallAt
  <2>3. QED
      BY <2>2 DEF Updates!At
<1>5. Good(Updates!At(at))
    BY <1>1, <1>3, <1>4 DEF Good
<1>6. Head(stack).fn \notin Flushes
    BY DEF Flushes
<1>7. /\ Keeps(q) /\ q # <<>> /\ Head(q) = Updates!At(at) /\ Adds(Updates!At(at), Tail(stack), q)
      /\ Updates!At(at) \in CallSet /\ \A n : OnLevel(q, n) <=> OnLevel(stack, n)
    BY <1>2, <1>5, <1>6, TopGoesOn
<1> DEFINE g == Updates!At(at)
<1>8. g.fn \in {"task", "update"} /\ g.task = Updates!Update(c) /\ g.at = at
    BY <1>4
<1>9. Adds(g, Tail(stack), q)
    BY <1>7
<1> HIDE DEF g
<1>10. \A d, ats : UpdateAt(q, d, ats) <=> (d = c /\ at \in ats) \/ UpdateAt(Tail(stack), d, ats)
  <2>1. \A d : Updates!Update(c) = Updates!Update(d) <=> d = c
      BY TasksDiffer
  <2>2. QED
      BY <1>8, <1>9, <2>1 DEF Adds
<1>11. SameJobs(q)
  <2>1. \A d, a : ~IsJob(g, d, a)
      BY <1>8, TasksDiffer DEF IsJob
  <2>2. g.fn # "schedule" /\ g.fn # "job"
      BY <1>8
  <2>3. QED
      BY <1>1, <1>9, <2>1, <2>2 DEF Adds, SameJobs
<1>12. QED
    BY <1>4, <1>7, <1>10, <1>11

LEMMA UpdateQueuesHookKeeps ==
    ASSUME SchedulerInv, Updates!UpdateQueuesHook
    PROVE  SchedulerInv' /\ WorkKept
<1>1. /\ stack # <<>> /\ Head(stack).fn \in {"task", "update"} /\ Head(stack).at = "rendered"
      /\ Head(stack).task \in Updates!Updates
      /\ pendingPost' = Append(pendingPost, Updates!Hook(Head(stack).task[2])) /\ Updates!S!FlushPending
      /\ stack' = <<>> \o <<Updates!At("updated")>> \o Tail(stack)
      /\ UNCHANGED <<Updates!queueVars, Updates!preVars, activePost, postIndex>>
    BY DEF Updates!UpdateQueuesHook, Updates!Works, Updates!TopTask, Updates!Updating, Updates!Continues
<1>2. PICK c \in Updates!Instance : Head(stack).task = Updates!Update(c) /\ Head(stack).task[2] = c
    BY <1>1, TasksDiffer
<1>3. stack' = <<Updates!At("updated")>> \o Tail(stack)
  <2> DEFINE q == <<Updates!At("updated")>> \o Tail(stack)
  <2>1. Updates!At("updated") \in CallSet
      BY <1>1, <1>2, UpdateGoesOn
  <2>2. Tail(stack) \in Seq(CallSet)
      BY <1>1, <1>2, UpdateOnTop DEF Keeps
  <2>3. <<>> \in Seq(CallSet)
      OBVIOUS
  <2>4. QED
      BY <1>1, <2>1, <2>2, <2>3, MadeOnTop
<1>4. /\ Keeps(stack') /\ \A n : OnLevel(stack', n) <=> OnLevel(stack, n)
      /\ \A d, ats : UpdateAt(stack', d, ats) <=> (d = c /\ "updated" \in ats) \/ UpdateAt(Tail(stack), d, ats)
      /\ SameJobs(stack')
    BY <1>1, <1>2, <1>3, UpdateGoesOn
<1>5. \A d, ats : UpdateAt(stack, d, ats) <=> (d = c /\ "rendered" \in ats) \/ UpdateAt(Tail(stack), d, ats)
    BY <1>1, <1>2, UpdateOnTop
<1>6. /\ SchedulerInv'
      /\ \A d : UpdateWaits(d)' <=> UpdateWaits(d)
      /\ \A d : WatchWaits(d) => WatchWaits(d)'
    BY <1>1, <1>2, <1>4, HookIsQueued
<1>7. /\ \A d : UpdateAt(stack', d, {"runs", "render"}) <=> UpdateAt(stack, d, {"runs", "render"})
      /\ \A d : UpdateAt(stack', d, {"render"}) <=> UpdateAt(stack, d, {"render"})
    BY <1>4, <1>5
<1>8. WorkKept
    BY <1>4, <1>6, <1>7 DEF WorkKept, Coming, WatchComing, SameJobs
<1>9. QED
    BY <1>6, <1>8

LEMMA UpdateEndsKeeps ==
    ASSUME SchedulerInv, Updates!UpdateEnds
    PROVE  SchedulerInv' /\ WorkKept
<1>1. stack # <<>> /\ Head(stack).fn \in {"task", "update"} /\ Head(stack).at = "updated" /\ Updates!Ends
    BY DEF Updates!UpdateEnds, Updates!Works, Updates!Updating
<1>2. Good(Head(stack))
    BY <1>1, TopEnds DEF Flushes
<1>3. Head(stack).task \in Updates!Updates
    BY <1>1, <1>2 DEF Good
<1>4. PICK c \in Updates!Instance : Head(stack).task = Updates!Update(c)
    BY <1>3, TasksDiffer
<1>5. /\ SchedulerInv' /\ stack' = Tail(stack)
      /\ \A d : UpdateWaits(d) => UpdateWaits(d)'
      /\ \A d : WatchWaits(d) => WatchWaits(d)'
    BY <1>1, EndsKeeps
<1>6. /\ \A d, ats : UpdateAt(stack, d, ats) <=> (d = c /\ "updated" \in ats) \/ UpdateAt(stack', d, ats)
      /\ SameJobs(stack')
    BY <1>1, <1>4, <1>5, UpdateOnTop
<1>7. /\ \A d : UpdateAt(stack', d, {"runs", "render"}) <=> UpdateAt(stack, d, {"runs", "render"})
      /\ \A d : UpdateAt(stack', d, {"render"}) <=> UpdateAt(stack, d, {"render"})
    BY <1>6
<1>8. WorkKept
    BY <1>5, <1>6, <1>7 DEF WorkKept, Coming, WatchComing, SameJobs
<1>9. QED
    BY <1>5, <1>8

LEMMA HookEndsKeeps ==
    ASSUME SchedulerInv, Updates!HookEnds
    PROVE  SchedulerInv' /\ WorkKept
<1>1. stack # <<>> /\ Head(stack).fn = "task" /\ Head(stack).task \in Updates!Hooks /\ Updates!Ends
    BY DEF Updates!HookEnds, Updates!Works, Updates!TopTask
<1>2. PICK c \in Updates!Instance : Head(stack).task = Updates!Hook(c)
    BY <1>1, TasksDiffer
<1>3. /\ SchedulerInv' /\ stack' = Tail(stack)
      /\ \A d : UpdateWaits(d) => UpdateWaits(d)'
      /\ \A d : WatchWaits(d) => WatchWaits(d)'
    BY <1>1, EndsKeeps
<1>4. Adds(Head(stack), stack', stack)
    BY <1>1, <1>3, TopEnds DEF Flushes
<1>5. (\A d, at : ~IsJob(Head(stack), d, at)) /\ \A d : Head(stack).task # Updates!Update(d)
    BY <1>2, TasksDiffer DEF IsJob
<1>6. SameJobs(stack') /\ \A d, ats : UpdateAt(stack', d, ats) <=> UpdateAt(stack, d, ats)
  <2>1. Head(stack).fn # "schedule" /\ Head(stack).fn # "job"
      BY <1>1
  <2>2. QED
      BY <1>4, <1>5, <2>1 DEF Adds, SameJobs
<1>7. WorkKept
    BY <1>3, <1>6 DEF WorkKept, Coming, WatchComing, SameJobs
<1>8. QED
    BY <1>3, <1>7

\* A job of a watcher is the innermost call.
LEMMA JobOnTop ==
    ASSUME SchedulerInv, ComponentInv, stack # <<>>, Head(stack).fn \in {"task", "job"},
           NEW c \in Updates!Instance, Head(stack).task = Updates!Watch(c)
    PROVE  /\ Adds(Head(stack), Tail(stack), stack) /\ Head(stack) \in CallSet /\ Good(Head(stack))
           /\ \A d, at : IsJob(Head(stack), d, at) <=> d = c /\ Head(stack).at = at
           /\ \A d, ats : UpdateAt(stack, d, ats) <=> UpdateAt(Tail(stack), d, ats)
           /\ \A t : Scheduled(stack, t) <=> Scheduled(Tail(stack), t)
           /\ HasJob(Tail(stack)) => HasJob(stack)
           /\ ~NoCallback(Tail(stack), c) => HasJob(stack)
           /\ \A d \in Updates!Instance : ~Takes(d) /\ next[d] = <<>>
<1> DEFINE h == Head(stack)
           t == Tail(stack)
<1>1. h \in CallSet /\ Good(h) /\ Fits(h, t) /\ Adds(h, t, stack)
    BY TopEnds DEF Flushes
<1>2. h.fn \in {"task", "job"} /\ h.task = Updates!Watch(c) /\ Updates!Watch(c) \notin Updates!Updates
    BY TasksDiffer
<1>3. \A n : OnLevel(t, n) => n < Level(h) \/ (n = Level(h) /\ n \in {0, 5})
    BY <1>1, BelowIs
<1>4. \A d \in Updates!Instance : ~Takes(d)
    BY DEF Takes
<1>5. \A d \in Updates!Instance : next[d] = <<>>
    BY <1>4 DEF ComponentInv, Taking
<1> HIDE DEF h, t
<1>6. \A d, at : IsJob(h, d, at) <=> d = c /\ h.at = at
  <2>1. \A d : Updates!Watch(c) = Updates!Watch(d) <=> d = c
      BY TasksDiffer
  <2>2. QED
      BY <1>2, <2>1 DEF IsJob
<1>7. ASSUME ~NoCallback(t, c) PROVE HasJob(stack)
  <2>1. OnLevel(t, 4) \/ OnLevel(t, 5)
      BY <1>7, LevelOfWork
  <2>2. Level(h) # 4
      BY <1>3, <2>1
  <2>3. h.fn = "job"
      BY <1>2, <2>2, LevelIs
  <2>4. QED
      BY <1>1, <2>3 DEF Adds
<1>8. \A d : Updates!Watch(c) # Updates!Update(d)
    BY TasksDiffer
<1>9. /\ \A d, ats : UpdateAt(stack, d, ats) <=> UpdateAt(t, d, ats)
      /\ \A u : Scheduled(stack, u) <=> Scheduled(t, u)
      /\ HasJob(t) => HasJob(stack)
    BY <1>1, <1>2, <1>8 DEF Adds
<1>10. QED
    BY <1>1, <1>4, <1>5, <1>6, <1>7, <1>9 DEF h, t

LEMMA WatchJobGetsKeeps ==
    ASSUME SchedulerInv, ComponentInv, Updates!WatchJobGets
    PROVE  SchedulerInv' /\ ComponentInv'
<1>1. /\ stack # <<>> /\ Head(stack).fn \in {"task", "job"} /\ Head(stack).at = "runs"
      /\ Head(stack).task \in Updates!Watches
      /\ UNCHANGED <<state, mode, instance, props, next, tracked, shown, oldValue>>
    BY DEF Updates!WatchJobGets, Updates!Works, Updates!TopTask, Updates!Jobs
<1>2. PICK c \in Updates!Instance : Head(stack).task = Updates!Watch(c) /\ Head(stack).task[2] = c
    BY <1>1, TasksDiffer
<1>3. /\ Adds(Head(stack), Tail(stack), stack) /\ Head(stack) \in CallSet /\ Good(Head(stack))
      /\ \A d, at : IsJob(Head(stack), d, at) <=> d = c /\ "runs" = at
      /\ \A d, ats : UpdateAt(stack, d, ats) <=> UpdateAt(Tail(stack), d, ats)
      /\ \A t : Scheduled(stack, t) <=> Scheduled(Tail(stack), t)
      /\ HasJob(Tail(stack)) => HasJob(stack)
      /\ ~NoCallback(Tail(stack), c) => HasJob(stack)
      /\ \A d \in Updates!Instance : ~Takes(d) /\ next[d] = <<>>
    BY <1>1, <1>2, JobOnTop
<1>4. /\ \A d : RunsWatch(stack, d) <=> d = c \/ RunsWatch(Tail(stack), d)
      /\ \A d : NoCallback(stack, d) <=> NoCallback(Tail(stack), d)
      /\ \A d : OneCallback(stack, d) <=> OneCallback(Tail(stack), d)
    BY <1>3 DEF Adds
<1>5. IF Updates!RunnerActive(c) /\ Updates!Watched(c) # oldValue[c]
      THEN /\ newValue' = [newValue EXCEPT ![c] = <<Updates!Watched(c)>> \o @]
           /\ told' = [told EXCEPT ![c] = Updates!Watched(c)]
           /\ stack' = <<>> \o <<Updates!At("callback")>> \o Tail(stack) /\ Updates!NoQueueing
      ELSE Updates!Ends /\ UNCHANGED <<newValue, told>>
    BY <1>2 DEF Updates!WatchJobGets, Updates!TopTask, Updates!Continues
<1>6. nested' = nested \cup {d \in Updates!Instance : d = c /\ newValue[d] # <<>>}
  <2>1. \A d : Updates!Watch(d) = Head(stack).task <=> d = c
      BY <1>2, TasksDiffer
  <2>2. QED
      BY <2>1 DEF Updates!WatchJobGets, Updates!TopTask
<1>7. nested' \subseteq Updates!Instance /\ nested \subseteq nested' /\ (c \notin nested' => newValue[c] = <<>>)
    BY <1>6 DEF ComponentInv, ComponentTypes
<1>8. ASSUME nested' # {} PROVE mode = "sync"
  <2>1. CASE nested # {}
      BY <2>1 DEF ComponentInv, Telling
  <2>2. CASE nested = {}
    <3>1. newValue[c] # <<>> /\ c \notin nested
        BY <1>6, <1>8, <2>2
    <3>2. OneCallback(stack, c)
        BY <3>1 DEF ComponentInv, Telling, IsTold
    <3>3. ~NoCallback(stack, c)
        BY <3>2 DEF OneCallback, NoCallback
    <3>4. HasJob(stack)
        BY <1>3, <1>4, <3>3
    <3>5. QED
        BY <3>4 DEF ComponentInv, Telling
  <2>3. QED
      BY <2>1, <2>2
<1>9. Updates!Mounted' = Updates!Mounted /\ Updates!Mounted \subseteq Updates!Instance /\ \A d : Updates!Watched(d)' = Updates!Watched(d)
    BY <1>1 DEF Updates!Mounted, Updates!Watched
<1>10. ASSUME SchedulerInv', ComponentTypes', \A d : UpdateWaits(d) => UpdateWaits(d)',
              \A d : WatchWaits(d) => WatchWaits(d)',
              \A d, ats : UpdateAt(stack', d, ats) <=> UpdateAt(stack, d, ats),
              \A u : Scheduled(stack', u) <=> Scheduled(stack, u),
              \A d : RunsWatch(stack, d) => d = c \/ RunsWatch(stack', d),
              HasJob(stack') => HasJob(stack),
              c \in Updates!Mounted => told'[c] = Updates!Watched(c) \/ c \in nested',
              c \notin nested' => IsTold(c)',
              \A d \in Updates!Instance \ {c} : told'[d] = told[d] /\ (IsTold(d) => IsTold(d)')
       PROVE  SchedulerInv' /\ ComponentInv'
  <2>1. ASSUME NEW d \in Updates!Mounted PROVE told'[d] = Updates!Watched(d) \/ WatchComing(d)' \/ d \in nested'
    <3>1. CASE d = c
        BY <1>10, <3>1
    <3>2. CASE d # c
      <4>1. told[d] = Updates!Watched(d) \/ WatchComing(d) \/ d \in nested
          BY DEF ComponentInv, Telling
      <4>2. WatchComing(d) => WatchComing(d)'
          BY <1>10, <3>2 DEF WatchComing
      <4>3. told'[d] = told[d]
          BY <1>9, <1>10, <3>2
      <4>4. QED
          BY <1>7, <4>1, <4>2, <4>3
    <3>3. QED
        BY <3>1, <3>2
  <2>2. ASSUME NEW d \in Updates!Instance \ nested' PROVE IsTold(d)'
    <3>1. d # c => IsTold(d)
        BY <1>7 DEF ComponentInv, Telling
    <3>2. QED
        BY <1>10, <3>1
  <2>3. HasJob(stack') => mode = "sync"
      BY <1>10 DEF ComponentInv, Telling
  <2>4. Telling'
      BY <1>1, <1>8, <1>9, <2>1, <2>2, <2>3 DEF Telling
  <2>5. \A d \in Updates!Instance : Coming(d) => Coming(d)'
      BY <1>10 DEF Coming
  <2>6. ComponentInv'
      BY <1>1, <1>3, <1>9, <1>10, <2>4, <2>5, PageKept
  <2>7. QED
      BY <1>10, <2>6
<1>11. CASE Updates!RunnerActive(c) /\ Updates!Watched(c) # oldValue[c]
  <2> DEFINE g == Updates!At("callback")
  <2>1. g.fn = Head(stack).fn /\ g.at = "callback" /\ g.task = Updates!Watch(c) /\ g \in CallSet
    <3>1. "callback" \in {"pre", "sort", "jobs", "finally", "ends", "begin", "loop",
                 "runs", "render", "rendered", "updated", "callback"}
        OBVIOUS
    <3>2. /\ [Head(stack) EXCEPT !.at = "callback"].fn = Head(stack).fn
          /\ [Head(stack) EXCEPT !.at = "callback"].at = "callback"
          /\ [Head(stack) EXCEPT !.at = "callback"].task = Head(stack).task
          /\ [Head(stack) EXCEPT !.at = "callback"] \in CallSet
        BY <1>3, <3>1, CallAt
    <3>3. QED
        BY <1>2, <3>2 DEF Updates!At
  <2>2. Good(g)
      BY <1>1, <1>2, <2>1 DEF Good
  <2>3. stack' = <<g>> \o Tail(stack)
    <3>1. Tail(stack) \in Seq(CallSet) /\ <<>> \in Seq(CallSet)
        BY <1>1, TopEnds DEF Flushes, Keeps
    <3>2. QED
        BY <1>5, <1>11, <2>1, <3>1, MadeOnTop
  <2>4. /\ Keeps(stack') /\ Adds(g, Tail(stack), stack')
        /\ \A n : OnLevel(stack', n) <=> OnLevel(stack, n)
    <3>1. Head(stack).fn \notin Flushes
        BY <1>1 DEF Flushes
    <3>2. "callback" \in {"runs", "render", "rendered", "updated", "callback"}
        OBVIOUS
    <3>3. QED
        BY <1>1, <2>2, <2>3, <3>1, <3>2, TopGoesOn
  <2> HIDE DEF g
  <2>5. /\ SchedulerInv'
        /\ \A d : UpdateWaits(d)' <=> UpdateWaits(d)
        /\ \A d : WatchWaits(d)' <=> WatchWaits(d)
      BY <1>1, <1>5, <1>11, <2>4, NoneQueued
  <2>6. \A d, at : IsJob(g, d, at) <=> d = c /\ "callback" = at
    <3>1. \A d : Updates!Watch(c) = Updates!Watch(d) <=> d = c
        BY TasksDiffer
    <3>2. QED
        BY <1>1, <2>1, <3>1 DEF IsJob
  <2>7. /\ \A d, ats : UpdateAt(stack', d, ats) <=> UpdateAt(stack, d, ats)
        /\ \A u : Scheduled(stack', u) <=> Scheduled(stack, u)
        /\ HasJob(stack') => HasJob(stack)
    <3>1. \A d : Updates!Watch(c) # Updates!Update(d)
        BY TasksDiffer
    <3>2. Head(stack).fn = "job" => HasJob(stack)
        BY <1>3 DEF Adds
    <3>3. QED
        BY <1>1, <1>3, <2>1, <2>4, <3>1, <3>2 DEF Adds
  <2>8. /\ \A d : RunsWatch(stack, d) => d = c \/ RunsWatch(stack', d)
        /\ \A d : d # c => (NoCallback(stack', d) <=> NoCallback(stack, d))
        /\ \A d : d # c => (OneCallback(stack', d) <=> OneCallback(stack, d))
        /\ OneCallback(stack', c) <=> NoCallback(stack, c)
      BY <1>4, <2>4, <2>6 DEF Adds
  <2>9. /\ newValue' = [newValue EXCEPT ![c] = <<Updates!Watched(c)>> \o @]
        /\ told' = [told EXCEPT ![c] = Updates!Watched(c)]
      BY <1>5, <1>11
  <2>10. DOMAIN newValue = Updates!Instance /\ DOMAIN told = Updates!Instance
      BY DEF ComponentInv, ComponentTypes
  <2>11. /\ newValue'[c] = <<Updates!Watched(c)>> \o newValue[c] /\ told'[c] = Updates!Watched(c)
         /\ \A d \in Updates!Instance \ {c} : newValue'[d] = newValue[d] /\ told'[d] = told[d]
         /\ DOMAIN newValue' = Updates!Instance /\ DOMAIN told' = Updates!Instance
      BY <2>9, <2>10
  <2>12. ComponentTypes'
      BY <1>1, <1>7, <2>11 DEF ComponentInv, ComponentTypes
  <2>13. c \notin nested' => IsTold(c)'
    <3> SUFFICES ASSUME c \notin nested' PROVE IsTold(c)'
        OBVIOUS
    <3>1. newValue[c] = <<>> /\ c \notin nested
        BY <1>7
    <3>2. NoCallback(stack, c)
        BY <3>1 DEF ComponentInv, Telling, IsTold
    <3>3. newValue'[c] = <<told'[c]>>
      <4> DEFINE w == Updates!Watched(c)
      <4>1. newValue'[c] = <<w>> \o <<>> /\ told'[c] = w
          BY <2>11, <3>1
      <4> HIDE DEF w
      <4>2. <<w>> \o <<>> = <<w>>
          OBVIOUS
      <4>3. QED
          BY <4>1, <4>2
    <3>4. QED
        BY <2>8, <3>2, <3>3 DEF IsTold
  <2>14. ASSUME NEW d \in Updates!Instance \ {c} PROVE told'[d] = told[d] /\ (IsTold(d) => IsTold(d)')
      BY <1>1, <2>8, <2>11 DEF IsTold
  <2>15. QED
      BY <1>10, <2>5, <2>7, <2>8, <2>11, <2>12, <2>13, <2>14
<1>12. CASE ~(Updates!RunnerActive(c) /\ Updates!Watched(c) # oldValue[c])
  <2>1. Updates!Ends /\ UNCHANGED <<newValue, told>>
      BY <1>5, <1>12
  <2>2. /\ SchedulerInv' /\ stack' = Tail(stack)
        /\ \A d : UpdateWaits(d) => UpdateWaits(d)'
        /\ \A d : WatchWaits(d) => WatchWaits(d)'
      BY <1>1, <2>1, EndsKeeps
  <2>3. ComponentTypes'
      BY <1>1, <1>7, <2>1 DEF ComponentInv, ComponentTypes
  <2>4. \A d : IsTold(d)' <=> IsTold(d)
      BY <1>1, <1>4, <2>1, <2>2 DEF IsTold
  <2>5. c \notin nested' => IsTold(c)'
      BY <1>7, <2>4 DEF ComponentInv, Telling
  <2>6. ASSUME c \in Updates!Mounted, c \notin nested' PROVE told'[c] = Updates!Watched(c)
    <3>1. Updates!Watched(c) = oldValue[c]
        BY <1>12, <2>6 DEF Updates!RunnerActive, Updates!Mounted
    <3>2. newValue[c] = <<>> /\ IsTold(c)
        BY <1>7, <2>4, <2>5, <2>6
    <3>3. told[c] = oldValue[c]
        BY <3>2 DEF IsTold
    <3>4. QED
        BY <2>1, <3>1, <3>3
  <2>7. QED
      BY <1>3, <1>4, <1>10, <2>1, <2>2, <2>3, <2>4, <2>5, <2>6
<1>13. QED
    BY <1>11, <1>12

LEMMA WatchCallbackEndsKeeps ==
    ASSUME SchedulerInv, ComponentInv, Updates!WatchCallbackEnds
    PROVE  SchedulerInv' /\ ComponentInv'
<1>1. /\ stack # <<>> /\ Head(stack).fn \in {"task", "job"} /\ Head(stack).at = "callback"
      /\ Head(stack).task \in Updates!Watches /\ Updates!Ends /\ Updates!KeepsNewValue(Head(stack).task[2])
      /\ UNCHANGED <<state, mode, instance, props, next, tracked, shown, told, nested>>
    BY DEF Updates!WatchCallbackEnds, Updates!Works, Updates!TopTask, Updates!Jobs
<1>2. PICK c \in Updates!Instance : Head(stack).task = Updates!Watch(c) /\ Head(stack).task[2] = c
    BY <1>1, TasksDiffer
<1>3. /\ oldValue' = [oldValue EXCEPT ![c] = Head(newValue[c])]
      /\ newValue' = [newValue EXCEPT ![c] = Tail(@)]
    BY <1>1, <1>2 DEF Updates!KeepsNewValue
<1>4. /\ Adds(Head(stack), Tail(stack), stack)
      /\ \A d, at : IsJob(Head(stack), d, at) <=> d = c /\ "callback" = at
      /\ \A d, ats : UpdateAt(stack, d, ats) <=> UpdateAt(Tail(stack), d, ats)
      /\ \A t : Scheduled(stack, t) <=> Scheduled(Tail(stack), t)
      /\ HasJob(Tail(stack)) => HasJob(stack)
      /\ \A d \in Updates!Instance : next[d] = <<>>
    BY <1>1, <1>2, JobOnTop
<1>5. /\ SchedulerInv' /\ stack' = Tail(stack)
      /\ \A d : UpdateWaits(d) => UpdateWaits(d)'
      /\ \A d : WatchWaits(d) => WatchWaits(d)'
    BY <1>1, EndsKeeps
<1>6. /\ \A d : RunsWatch(stack, d) <=> RunsWatch(stack', d)
      /\ \A d : d # c => (NoCallback(stack', d) <=> NoCallback(stack, d))
      /\ \A d : d # c => (OneCallback(stack', d) <=> OneCallback(stack, d))
      /\ ~NoCallback(stack, c) /\ (OneCallback(stack, c) => NoCallback(stack', c))
    BY <1>4, <1>5 DEF Adds
<1>7. DOMAIN newValue = Updates!Instance /\ DOMAIN oldValue = Updates!Instance
    BY DEF ComponentInv, ComponentTypes
<1>8. /\ newValue'[c] = Tail(newValue[c]) /\ oldValue'[c] = Head(newValue[c])
      /\ \A d \in Updates!Instance \ {c} : newValue'[d] = newValue[d] /\ oldValue'[d] = oldValue[d]
      /\ DOMAIN newValue' = Updates!Instance /\ DOMAIN oldValue' = Updates!Instance
    BY <1>3, <1>7
<1>9. ComponentTypes'
    BY <1>1, <1>8 DEF ComponentInv, ComponentTypes
<1>10. Updates!Mounted' = Updates!Mounted /\ Updates!Mounted \subseteq Updates!Instance /\ \A d : Updates!Watched(d)' = Updates!Watched(d)
    BY <1>1 DEF Updates!Mounted, Updates!Watched
<1>11. \A d \in Updates!Mounted : told'[d] = Updates!Watched(d) \/ WatchComing(d)' \/ d \in nested'
  <2>1. \A d : WatchComing(d) => WatchComing(d)'
      BY <1>4, <1>5, <1>6 DEF WatchComing
  <2>2. QED
      BY <1>1, <2>1 DEF ComponentInv, Telling
<1>12. ASSUME NEW d \in Updates!Instance \ nested' PROVE IsTold(d)'
  <2>1. IsTold(d)
      BY <1>1 DEF ComponentInv, Telling
  <2>2. CASE d = c
    <3>1. newValue[c] = <<told[c]>> /\ OneCallback(stack, c)
        BY <1>6, <2>1, <2>2 DEF IsTold
    <3>2. newValue'[c] = <<>> /\ oldValue'[c] = told[c]
      <4> DEFINE w == told[c]
      <4>1. newValue'[c] = Tail(<<w>>) /\ oldValue'[c] = Head(<<w>>)
          BY <1>8, <3>1
      <4> HIDE DEF w
      <4>2. Tail(<<w>>) = <<>> /\ Head(<<w>>) = w
          OBVIOUS
      <4>3. QED
          BY <4>1, <4>2 DEF w
    <3>3. QED
        BY <1>1, <1>6, <2>2, <3>1, <3>2 DEF IsTold
  <2>3. CASE d # c
      BY <1>1, <1>6, <1>8, <2>1, <2>3 DEF IsTold
  <2>4. QED
      BY <2>2, <2>3
<1>13. (HasJob(stack') => mode = "sync") /\ (nested # {} => mode = "sync")
    BY <1>4, <1>5 DEF ComponentInv, Telling
<1>14. Telling'
    BY <1>1, <1>10, <1>11, <1>12, <1>13 DEF Telling
<1>15. \A d \in Updates!Instance : Coming(d) => Coming(d)'
    BY <1>4, <1>5 DEF Coming
<1>16. ComponentInv'
    BY <1>1, <1>4, <1>5, <1>9, <1>10, <1>14, <1>15, PageKept
<1>17. QED
    BY <1>5, <1>16

\* A step of an update leaves the watchers alone.
LEMMA TellingKept ==
    ASSUME ComponentInv, UNCHANGED <<state, mode, instance, props, oldValue, newValue, told, nested>>,
           SameJobs(stack'), \A d \in Updates!Instance : WatchWaits(d) => WatchWaits(d)'
    PROVE  Telling'
<1>1. Updates!Mounted' = Updates!Mounted /\ Updates!Mounted \subseteq Updates!Instance /\ \A d : Updates!Watched(d)' = Updates!Watched(d)
    BY DEF Updates!Mounted, Updates!Watched
<1>2. \A d \in Updates!Mounted : told'[d] = Updates!Watched(d) \/ WatchComing(d)' \/ d \in nested'
  <2>1. \A d \in Updates!Instance : WatchComing(d) => WatchComing(d)'
      BY DEF WatchComing, SameJobs
  <2>2. QED
      BY <1>1, <2>1 DEF ComponentInv, Telling
<1>3. \A d \in Updates!Instance \ nested' : IsTold(d)'
  <2>1. \A d : IsTold(d)' <=> IsTold(d)
      BY DEF IsTold, SameJobs
  <2>2. QED
      BY <2>1 DEF ComponentInv, Telling
<1>4. (HasJob(stack') => mode = "sync") /\ (nested # {} => mode = "sync")
    BY DEF ComponentInv, Telling, SameJobs
<1>5. QED
    BY <1>1, <1>2, <1>3, <1>4 DEF Telling

\* The deps of an effect are cleaned up before it runs.
LEMMA CleanedUp ==
    ASSUME ComponentInv, NEW c \in Updates!Mounted, tracked' = Updates!Untracked(Updates!Update(c)), UNCHANGED instance,
           \A d \in Updates!Instance : ~UpdateAt(stack, d, {"render"}),
           \A d \in Updates!Instance : UpdateAt(stack', d, {"render"}) <=> d = c,
           \A d \in Updates!Instance : Scheduled(stack', Updates!Watch(d)) => d = c
    PROVE  Tracking'
<1>1. Updates!Mounted' = Updates!Mounted /\ Updates!Mounted \subseteq Updates!Instance
    BY DEF Updates!Mounted
<1>2. tracked' \subseteq tracked /\ \A s, t : <<s, t>> \in tracked /\ t # Updates!Update(c) => <<s, t>> \in tracked'
    BY DEF Updates!Untracked
<1>3. \A p \in tracked' : \E d \in Updates!Mounted' : p[2] \in {Updates!Update(d), Updates!Watch(d)}
    BY <1>1, <1>2 DEF ComponentInv, Tracking
<1>4. ASSUME NEW d \in Updates!Mounted
      PROVE  UpdateAt(stack', d, {"render"}) \/ \A e \in Deps(d) : <<e, Updates!Update(d)>> \in tracked'
  <2>1. CASE d = c
      BY <1>1, <2>1
  <2>2. CASE d # c
    <3>1. Updates!Update(d) # Updates!Update(c)
        BY <2>2, TasksDiffer
    <3>2. \A e \in Deps(d) : <<e, Updates!Update(d)>> \in tracked
        BY <1>1 DEF ComponentInv, Tracking
    <3>3. QED
        BY <1>2, <3>1, <3>2
  <2>3. QED
      BY <2>1, <2>2
<1>5. ASSUME NEW d \in Updates!Mounted PROVE <<WatchDep(d), Updates!Watch(d)>> \in tracked'
  <2>1. Updates!Watch(d) # Updates!Update(c)
      BY TasksDiffer
  <2>2. QED
      BY <1>2, <2>1 DEF ComponentInv, Tracking
<1>6. \A d \in Updates!Instance : Scheduled(stack', Updates!Watch(d)) => instance'[d] # "new"
    BY DEF Updates!Mounted
<1>7. \A d \in Updates!Instance : UpdateAt(stack', d, {"render"}) => d \in Updates!Mounted'
    BY <1>1
<1>8. QED
    BY <1>1, <1>3, <1>4, <1>5, <1>6, <1>7 DEF Tracking, Deps, WatchDep, Updates!StateOf, Updates!PropOf

\* Calls one after the other.
LEMMA ThreeMore ==
    ASSUME NEW f \in CallSet, NEW p \in CallSet, NEW g \in CallSet, NEW t \in Seq(CallSet)
    PROVE  ((<<f>> \o <<p>>) \o <<g>>) \o t = <<f>> \o (<<p>> \o (<<g>> \o t))
<1> DEFINE q == <<g>> \o t
           m == <<f>> \o <<p>>
<1>1. <<f>> \in Seq(CallSet) /\ m \in Seq(CallSet) /\ q \in Seq(CallSet)
    OBVIOUS
<1>2. m \o <<g>> \o t = m \o q
    BY <1>1, MadeOnTop
<1>3. <<f>> \o <<p>> \o q = <<f>> \o (<<p>> \o q)
    BY <1>1, MadeOnTop
<1>4. QED
    BY <1>2, <1>3

\* The update of a component that is not there returns at once.
LEMMA UpdateReturns ==
    ASSUME SchedulerInv, ComponentInv, stack # <<>>, Head(stack).fn \in {"task", "update"},
           Head(stack).at = "runs", NEW c \in Updates!Instance, Head(stack).task = Updates!Update(c),
           instance[c] # "mounted", Updates!Ends, UNCHANGED Updates!componentVars
    PROVE  SchedulerInv' /\ ComponentInv'
<1>1. UNCHANGED <<state, mode, instance, props, next, tracked, shown, oldValue, newValue, told, nested>>
    BY DEF Updates!componentVars
<1>2. /\ SchedulerInv' /\ stack' = Tail(stack)
      /\ \A d : UpdateWaits(d) => UpdateWaits(d)'
      /\ \A d : WatchWaits(d) => WatchWaits(d)'
    BY EndsKeeps
<1>3. /\ \A d \in Updates!Instance : ~UpdateAt(stack', d, {"render"})
      /\ \A d, ats : UpdateAt(stack, d, ats) <=> (d = c /\ "runs" \in ats) \/ UpdateAt(stack', d, ats)
      /\ SameJobs(stack')
    BY <1>2, UpdateOnTop
<1>4. c \notin Updates!Mounted /\ Updates!Mounted \subseteq Updates!Instance
    BY DEF Updates!Mounted
<1>5. \A d \in Updates!Instance : next[d] = <<>>
  <2>1. ASSUME NEW d \in Updates!Instance, next[d] # <<>> PROVE FALSE
    <3>1. d \in Updates!CurrentChild /\ Takes(d)
        BY <2>1 DEF ComponentInv, Taking
    <3>2. d = c
        BY <3>1, TasksDiffer DEF Takes
    <3>3. QED
        BY <1>4, <3>1, <3>2 DEF Updates!CurrentChild
  <2>2. QED
      BY <2>1
<1>6. \A d \in Updates!Mounted : Coming(d) => Coming(d)'
    BY <1>2, <1>3, <1>4 DEF Coming, SameJobs
<1>7. \A d \in Updates!Instance : UpdateAt(stack', d, {"render"}) <=> UpdateAt(stack, d, {"render"})
    BY <1>3
<1>8. Telling'
    BY <1>1, <1>2, <1>3, TellingKept
<1>9. ComponentTypes'
    BY <1>1 DEF ComponentInv, ComponentTypes
<1>10. ComponentInv'
    BY <1>1, <1>3, <1>5, <1>6, <1>7, <1>8, <1>9, PageKept DEF SameJobs
<1>11. QED
    BY <1>2, <1>10

\* An update without new props cleans up and is to render.
LEMMA UpdateCleansUp ==
    ASSUME SchedulerInv, ComponentInv, stack # <<>>, Head(stack).fn \in {"task", "update"},
           Head(stack).at = "runs", NEW c \in Updates!Mounted, Head(stack).task = Updates!Update(c),
           next[c] = <<>>, tracked' = Updates!Untracked(Updates!Update(c)), stack' = <<Updates!At("render")>> \o Tail(stack),
           Updates!NoQueueing,
           UNCHANGED <<state, mode, instance, props, next, shown, oldValue, newValue, told, nested>>
    PROVE  SchedulerInv' /\ ComponentInv'
<1>1. c \in Updates!Instance /\ Updates!Mounted' = Updates!Mounted /\ Updates!CurrentChild' = Updates!CurrentChild /\ Updates!Mounted \subseteq Updates!Instance
      /\ Updates!Root \in Updates!Instance
    BY DEF Updates!Mounted, Updates!CurrentChild, Updates!Instance
<1>2. /\ \A d \in Updates!Instance : ~UpdateAt(Tail(stack), d, {"render"})
      /\ \A d, ats : UpdateAt(stack, d, ats) <=> (d = c /\ "runs" \in ats) \/ UpdateAt(Tail(stack), d, ats)
      /\ \A t : ~Scheduled(stack, t)
    BY <1>1, UpdateOnTop
<1>3. /\ Keeps(stack') /\ \A n : OnLevel(stack', n) <=> OnLevel(stack, n)
      /\ \A d, ats : UpdateAt(stack', d, ats) <=> (d = c /\ "render" \in ats) \/ UpdateAt(Tail(stack), d, ats)
      /\ SameJobs(stack')
    BY <1>1, UpdateGoesOn
<1>4. /\ SchedulerInv'
      /\ \A d : UpdateWaits(d)' <=> UpdateWaits(d)
      /\ \A d : WatchWaits(d)' <=> WatchWaits(d)
    BY <1>3, NoneQueued
<1>5. Telling'
    BY <1>3, <1>4, TellingKept
<1>6. /\ \A d \in Updates!Instance : ~UpdateAt(stack, d, {"render"})
      /\ \A d \in Updates!Instance : UpdateAt(stack', d, {"render"}) <=> d = c
    BY <1>2, <1>3
<1>7. Tracking'
  <2>1. \A d \in Updates!Instance : Scheduled(stack', Updates!Watch(d)) => d = c
      BY <1>2, <1>3 DEF SameJobs
  <2>2. QED
      BY <1>6, <2>1, CleanedUp
<1>8. Taking'
  <2>1. ASSUME NEW d \in Updates!Instance PROVE next[d] = <<>>
    <3>1. next[d] # <<>> => d = c
        BY TasksDiffer DEF ComponentInv, Taking, Takes
    <3>2. QED
        BY <3>1
  <2>2. QED
      BY <2>1 DEF Taking
<1>9. Page'
  <2>1. \A d : Updates!Sees(d)' = Updates!Sees(d)
      BY DEF Updates!Sees
  <2>2. \A d \in Updates!Instance : Coming(d) => Coming(d)'
      BY <1>2, <1>3, <1>4 DEF Coming, SameJobs
  <2>3. QED
      BY <1>1, <2>1, <2>2 DEF ComponentInv, Page
<1>10. ComponentTypes'
    BY DEF ComponentInv, ComponentTypes
<1>11. QED
    BY <1>4, <1>5, <1>7, <1>8, <1>9, <1>10 DEF ComponentInv

\* An update takes its props, calls their watcher and flushes the callbacks.
LEMMA UpdateTakesProps ==
    ASSUME SchedulerInv, ComponentInv, stack # <<>>, Head(stack).fn \in {"task", "update"},
           Head(stack).at = "runs", NEW c \in Updates!Mounted, Head(stack).task = Updates!Update(c),
           next[c] # <<>>, tracked' = Updates!Untracked(Updates!Update(c)),
           props' = [props EXCEPT ![c] = Head(next[c])], next' = [next EXCEPT ![c] = <<>>],
           Updates!Continues("render", Updates!TriggersProps(c) \o <<Updates!S!PreCall(Updates!S!NotSeen, Updates!Update(c))>>), Updates!NoQueueing,
           UNCHANGED <<state, mode, instance, shown, oldValue, newValue, told, nested>>
    PROVE  SchedulerInv' /\ ComponentInv'
<1> DEFINE f == Updates!Frame("schedule", Updates!Watch(c))
           p == Updates!S!PreCall(Updates!S!NotSeen, Updates!Update(c))
           g == Updates!At("render")
           q == <<g>> \o Tail(stack)
           r == <<p>> \o q
<1>1. c \in Updates!Instance /\ Updates!Mounted' = Updates!Mounted /\ Updates!CurrentChild' = Updates!CurrentChild /\ Updates!Mounted \subseteq Updates!Instance
      /\ Updates!Root \in Updates!Instance
    BY DEF Updates!Mounted, Updates!CurrentChild, Updates!Instance
<1>2. next[c] = <<state.x>> /\ c \in Updates!CurrentChild /\ Head(stack).fn = "update"
    BY <1>1 DEF ComponentInv, Taking, Takes
<1>3. c # Updates!Root
    BY <1>2 DEF Updates!CurrentChild
<1>4. /\ \A d \in Updates!Instance : ~UpdateAt(Tail(stack), d, {"render"})
      /\ \A d, ats : UpdateAt(stack, d, ats) <=> (d = c /\ "runs" \in ats) \/ UpdateAt(Tail(stack), d, ats)
      /\ (\A t : ~Scheduled(stack, t)) /\ Tail(stack) \in Seq(CallSet)
    BY <1>1, UpdateOnTop DEF Keeps
<1>5. /\ Keeps(q) /\ Head(q) = g /\ q # <<>> /\ g \in CallSet
      /\ g.fn = "update" /\ g.at = "render" /\ g.task = Updates!Update(c)
      /\ \A n : OnLevel(q, n) <=> OnLevel(stack, n)
      /\ \A d, ats : UpdateAt(q, d, ats) <=> (d = c /\ "render" \in ats) \/ UpdateAt(Tail(stack), d, ats)
      /\ SameJobs(q)
    BY <1>1, <1>2, UpdateGoesOn
<1>6. p \in CallSet /\ p.fn = "flushPre" /\ p.at = "begin" /\ p.task = Updates!Update(c) /\ Updates!Update(c) \in Updates!Updates
  <2>1. Updates!S!NotSeen \in [Own -> Nat]
      BY TaskIs DEF Updates!S!NotSeen
  <2>2. Updates!Update(c) \in Updates!Updates
      BY <1>1, TasksDiffer
  <2>3. QED
      BY <2>1, <2>2, FlushCallsAre
<1>7. f \in CallSet /\ f.fn = "schedule" /\ f.at = "runs" /\ f.task = Updates!Watch(c) /\ Updates!Watch(c) \in Updates!Watches
  <2>1. Updates!Watch(c) \in Updates!Watches /\ Updates!Watch(c) \in Own
      BY <1>1, TasksDiffer DEF Own
  <2>2. QED
      BY <2>1, FrameIs
<1>8. Updates!TriggersProps(c) = <<f>>
  <2>1. <<Updates!PropOf(c), Updates!Watch(c)>> \in tracked
      BY <1>3 DEF ComponentInv, Tracking, WatchDep
  <2>2. QED
      BY <2>1 DEF Updates!TriggersProps
<1>9. stack' = <<f>> \o r
  <2>1. stack' = (Updates!TriggersProps(c) \o <<p>>) \o <<g>> \o Tail(stack)
      BY DEF Updates!Continues
  <2> HIDE DEF f, p, g
  <2>2. stack' = ((<<f>> \o <<p>>) \o <<g>>) \o Tail(stack)
      BY <1>8, <2>1
  <2>3. QED
      BY <1>4, <1>5, <1>6, <1>7, <2>2, ThreeMore
<1> HIDE DEF f, p, g
<1>10. Keeps(r) /\ Adds(p, q, r)
  <2>1. q \in Seq(CallSet) /\ Nested(q)
      BY <1>5 DEF Keeps
  <2>2. Good(p)
      BY <1>3, <1>6, TasksDiffer DEF Good
  <2>3. Over(p, g)
    <3>1. Level(p) = 3 /\ Level(g) = 2
        BY <1>5, <1>6, LevelIs
    <3>2. QED
        BY <3>1 DEF Over
  <2>4. Makes(g, p)
      BY <1>5, <1>6, TasksDiffer DEF Makes
  <2> HIDE DEF q
  <2>5. r \in Seq(CallSet) /\ Nested(r)
      BY <1>5, <1>6, <2>1, <2>2, <2>3, <2>4, CallsOne
  <2>6. /\ NoFlushing(r) <=> ~Flushing(p) /\ NoFlushing(q)
        /\ \A fn, t : Loops(r, fn, t) <=> (p.fn = fn /\ p.at = "loop" /\ p.task = t) \/ Loops(q, fn, t)
      BY <1>6, <2>1, PushSees
  <2>7. ~Flushing(p)
      BY <1>6 DEF Flushing
  <2>8. Keeps(r)
      BY <1>5, <2>5, <2>6, <2>7 DEF Keeps
  <2>9. QED
      BY <1>6, <2>1, <2>8, PushAdds
<1> HIDE DEF q, r
<1>11. Keeps(stack') /\ Adds(f, r, stack')
  <2>1. Good(f)
      BY <1>7 DEF Good
  <2>2. QED
      BY <1>7, <1>9, <1>10, <2>1, PushKeeps
<1>12. \A n \in {1, 4} : OnLevel(stack', n) <=> OnLevel(stack, n)
  <2>1. Level(p) = 3 /\ Level(f) = 5
      BY <1>6, <1>7, LevelIs
  <2>2. QED
      BY <1>5, <1>10, <1>11, <2>1 DEF Adds
<1>13. /\ \A d, ats : UpdateAt(stack', d, ats) <=> (d = c /\ "render" \in ats) \/ UpdateAt(Tail(stack), d, ats)
       /\ \A t : Scheduled(stack', t) <=> t = Updates!Watch(c)
  <2>1. \A d, ats : UpdateAt(stack', d, ats) <=> UpdateAt(q, d, ats)
      BY <1>6, <1>7, <1>10, <1>11 DEF Adds
  <2>2. \A t : Scheduled(stack', t) <=> t = Updates!Watch(c) \/ Scheduled(q, t)
      BY <1>6, <1>7, <1>10, <1>11 DEF Adds
  <2>3. QED
      BY <1>4, <1>5, <2>1, <2>2 DEF SameJobs
<1>14. /\ \A d : RunsWatch(stack', d) <=> RunsWatch(stack, d)
       /\ \A d : NoCallback(stack', d) <=> NoCallback(stack, d)
       /\ \A d : OneCallback(stack', d) <=> OneCallback(stack, d)
       /\ HasJob(stack') <=> HasJob(stack)
  <2>1. \A d, at : ~IsJob(f, d, at) /\ ~IsJob(p, d, at)
      BY <1>6, <1>7 DEF IsJob
  <2>2. f.fn # "job" /\ p.fn # "job"
      BY <1>6, <1>7
  <2>3. QED
      BY <1>5, <1>10, <1>11, <2>1, <2>2 DEF Adds, SameJobs
<1>15. /\ SchedulerInv'
       /\ \A d : UpdateWaits(d)' <=> UpdateWaits(d)
       /\ \A d : WatchWaits(d)' <=> WatchWaits(d)
    BY <1>2, <1>11, <1>12, NoneQueued
<1>16. DOMAIN props = Updates!Instance /\ DOMAIN next = Updates!Instance
    BY DEF ComponentInv, ComponentTypes
<1>17. /\ props'[c] = state.x /\ next'[c] = <<>>
       /\ \A d \in Updates!Instance \ {c} : props'[d] = props[d] /\ next'[d] = next[d]
       /\ DOMAIN props' = Updates!Instance /\ DOMAIN next' = Updates!Instance
  <2>1. Head(next[c]) = state.x
      BY <1>2
  <2>2. QED
      BY <1>1, <1>16, <2>1
<1>18. ComponentTypes'
    BY <1>17 DEF ComponentInv, ComponentTypes
<1>19. Tracking'
  <2>1. \A d \in Updates!Instance : Scheduled(stack', Updates!Watch(d)) => d = c
      BY <1>13, TasksDiffer
  <2>2. /\ \A d \in Updates!Instance : ~UpdateAt(stack, d, {"render"})
        /\ \A d \in Updates!Instance : UpdateAt(stack', d, {"render"}) <=> d = c
      BY <1>4, <1>13
  <2>3. QED
      BY <2>1, <2>2, CleanedUp
<1>20. Taking'
  <2>1. ASSUME NEW d \in Updates!Instance PROVE next'[d] = <<>>
    <3>1. next[d] # <<>> => d = c
        BY TasksDiffer DEF ComponentInv, Taking, Takes
    <3>2. QED
        BY <1>17, <3>1
  <2>2. QED
      BY <2>1 DEF Taking
<1>21. \A d \in Updates!Instance : Coming(d) => Coming(d)'
    BY <1>4, <1>13, <1>15 DEF Coming
<1>22. Page'
  <2>1. Coming(c)'
      BY <1>13 DEF Coming
  <2>2. \A d \in Updates!Instance \ {c} : Updates!Sees(d)' = Updates!Sees(d)
      BY <1>17 DEF Updates!Sees
  <2>3. \A d \in Updates!CurrentChild : d = c
      BY <1>2 DEF ComponentInv, Page
  <2>4. QED
      BY <1>1, <1>17, <1>21, <2>1, <2>2, <2>3 DEF ComponentInv, Page
<1>23. Telling'
  <2>1. \A d \in Updates!Instance \ {c} : Updates!Watched(d)' = Updates!Watched(d)
      BY <1>17 DEF Updates!Watched
  <2>2. WatchComing(c)'
      BY <1>13 DEF WatchComing
  <2>3. \A d \in Updates!Instance : WatchComing(d) => WatchComing(d)'
      BY <1>4, <1>14, <1>15 DEF WatchComing
  <2>4. \A d \in Updates!Mounted : told'[d] = Updates!Watched(d)' \/ WatchComing(d)' \/ d \in nested'
    <3>1. \A d \in Updates!Mounted : told[d] = Updates!Watched(d) \/ WatchComing(d) \/ d \in nested
        BY DEF ComponentInv, Telling
    <3>2. QED
        BY <1>1, <2>1, <2>2, <2>3, <3>1
  <2>5. \A d \in Updates!Instance \ nested' : IsTold(d)'
    <3>1. \A d : IsTold(d)' <=> IsTold(d)
        BY <1>14 DEF IsTold
    <3>2. QED
        BY <3>1 DEF ComponentInv, Telling
  <2>6. (HasJob(stack') => mode = "sync") /\ (nested # {} => mode = "sync")
      BY <1>14 DEF ComponentInv, Telling
  <2>7. QED
      BY <1>1, <2>4, <2>5, <2>6 DEF Telling
<1>24. QED
    BY <1>15, <1>18, <1>19, <1>20, <1>22, <1>23 DEF ComponentInv

LEMMA UpdateBeginsKeeps ==
    ASSUME SchedulerInv, ComponentInv, Updates!UpdateBegins
    PROVE  SchedulerInv' /\ ComponentInv'
<1>1. /\ stack # <<>> /\ Head(stack).fn \in {"task", "update"} /\ Head(stack).at = "runs"
      /\ Head(stack).task \in Updates!Updates
      /\ UNCHANGED <<state, mode, instance, shown, oldValue, newValue, told, nested>>
    BY DEF Updates!UpdateBegins, Updates!Works, Updates!TopTask, Updates!Updating
<1>2. PICK c \in Updates!Instance : Head(stack).task = Updates!Update(c) /\ Head(stack).task[2] = c
    BY <1>1, TasksDiffer
<1>3. IF instance[c] # "mounted" THEN Updates!Ends /\ UNCHANGED <<props, next, tracked>>
      ELSE IF next[c] = <<>>
      THEN /\ tracked' = Updates!Untracked(Updates!Update(c))
           /\ Updates!Continues("render", <<>>)
           /\ Updates!NoQueueing /\ UNCHANGED <<thrown, props, next>>
      ELSE /\ tracked' = Updates!Untracked(Updates!Update(c))
           /\ props' = [props EXCEPT ![c] = Head(next[c])]
           /\ next' = [next EXCEPT ![c] = <<>>]
           /\ Updates!Continues("render", Updates!TriggersProps(c) \o <<Updates!S!PreCall(Updates!S!NotSeen, Updates!Update(c))>>)
           /\ Updates!NoQueueing /\ UNCHANGED thrown
    BY <1>2 DEF Updates!UpdateBegins, Updates!TopTask
<1>4. instance[c] = "mounted" => c \in Updates!Mounted
    BY DEF Updates!Mounted
<1>5. CASE instance[c] # "mounted"
    BY <1>1, <1>2, <1>3, <1>5, UpdateReturns DEF Updates!componentVars
<1>6. CASE instance[c] = "mounted" /\ next[c] = <<>>
  <2>1. Updates!At("render") \in CallSet /\ Tail(stack) \in Seq(CallSet) /\ <<>> \in Seq(CallSet)
    <3>1. Updates!At("render") \in CallSet
        BY <1>1, <1>2, UpdateGoesOn
    <3>2. Tail(stack) \in Seq(CallSet)
        BY <1>1, <1>2, UpdateOnTop DEF Keeps
    <3>3. QED
        BY <3>1, <3>2
  <2>2. stack' = <<>> \o <<Updates!At("render")>> \o Tail(stack)
      BY <1>3, <1>6 DEF Updates!Continues
  <2>3. stack' = <<Updates!At("render")>> \o Tail(stack)
      BY <2>1, <2>2, MadeOnTop
  <2>4. QED
      BY <1>1, <1>2, <1>3, <1>4, <1>6, <2>3, UpdateCleansUp
<1>7. CASE instance[c] = "mounted" /\ next[c] # <<>>
    BY <1>1, <1>2, <1>3, <1>4, <1>7, UpdateTakesProps
<1>8. QED
    BY <1>5, <1>6, <1>7

\* What a component reads is tracked again when it renders.
LEMMA RenderTracks ==
    ASSUME ComponentInv, NEW c \in Updates!Mounted, tracked' = Updates!Tracks(c), UNCHANGED instance,
           \A d \in Updates!Instance : UpdateAt(stack, d, {"render"}) <=> d = c,
           \A d \in Updates!Instance : ~UpdateAt(stack', d, {"render"}),
           \A d \in Updates!Instance : Scheduled(stack', Updates!Watch(d)) => Scheduled(stack, Updates!Watch(d))
    PROVE  Tracking'
<1>1. Updates!Mounted' = Updates!Mounted /\ Updates!Mounted \subseteq Updates!Instance
    BY DEF Updates!Mounted
<1>2. tracked' = {p \in tracked : p[2] # Updates!Update(c)} \cup Deps(c) \X {Updates!Update(c)}
    BY DEF Updates!Tracks, Updates!Untracked, Deps
<1>3. \A s, t : <<s, t>> \in tracked /\ t # Updates!Update(c) => <<s, t>> \in tracked'
    BY <1>2
<1>4. ASSUME NEW p \in tracked' PROVE \E d \in Updates!Mounted : p[2] \in {Updates!Update(d), Updates!Watch(d)}
  <2>1. CASE p \in tracked
      BY <2>1 DEF ComponentInv, Tracking
  <2>2. CASE p \in Deps(c) \X {Updates!Update(c)}
    <3>1. p[2] = Updates!Update(c)
        BY <2>2
    <3>2. QED
        BY <3>1
  <2>3. QED
      BY <1>2, <2>1, <2>2
<1>5. ASSUME NEW d \in Updates!Mounted PROVE \A e \in Deps(d) : <<e, Updates!Update(d)>> \in tracked'
  <2>1. CASE d = c
      BY <1>2, <2>1
  <2>2. CASE d # c
    <3>1. Updates!Update(d) # Updates!Update(c)
        BY <2>2, TasksDiffer
    <3>2. \A e \in Deps(d) : <<e, Updates!Update(d)>> \in tracked
        BY <1>1, <2>2 DEF ComponentInv, Tracking
    <3>3. QED
        BY <1>3, <3>1, <3>2
  <2>3. QED
      BY <2>1, <2>2
<1>6. ASSUME NEW d \in Updates!Mounted PROVE <<WatchDep(d), Updates!Watch(d)>> \in tracked'
  <2>1. Updates!Watch(d) # Updates!Update(c)
      BY TasksDiffer
  <2>2. QED
      BY <1>3, <2>1 DEF ComponentInv, Tracking
<1>7. \A d \in Updates!Instance : Scheduled(stack', Updates!Watch(d)) => instance'[d] # "new"
    BY DEF ComponentInv, Tracking
<1>8. QED
    BY <1>1, <1>4, <1>5, <1>6, <1>7 DEF Tracking, Deps, WatchDep, Updates!StateOf, Updates!PropOf

\* A component renders and calls no update.
LEMMA UpdateRenders ==
    ASSUME SchedulerInv, ComponentInv, stack # <<>>, Head(stack).fn \in {"task", "update"},
           Head(stack).at = "render", NEW c \in Updates!Instance, Head(stack).task = Updates!Update(c), Updates!Renders(c),
           Updates!Continues("rendered", <<>>), Updates!NoQueueing,
           UNCHANGED <<state, mode, instance, props, next, oldValue, newValue, told, nested>>,
           c = Updates!Root => /\ state.show = (Updates!CurrentChild # {})
                       /\ \A d \in Updates!CurrentChild : props[d] = state.x
    PROVE  SchedulerInv' /\ ComponentInv'
<1>1. Updates!Mounted' = Updates!Mounted /\ Updates!CurrentChild' = Updates!CurrentChild /\ Updates!Mounted \subseteq Updates!Instance
      /\ Updates!Root \in Updates!Instance
    BY DEF Updates!Mounted, Updates!CurrentChild, Updates!Instance
<1>2. /\ \A d \in Updates!Instance : ~UpdateAt(Tail(stack), d, {"render"})
      /\ \A d \in Updates!Instance : ~UpdateAt(Tail(stack), d, {"runs", "render"})
      /\ \A d, ats : UpdateAt(stack, d, ats) <=> (d = c /\ "render" \in ats) \/ UpdateAt(Tail(stack), d, ats)
      /\ Tail(stack) \in Seq(CallSet)
    BY UpdateOnTop DEF Keeps
<1>3. stack' = <<Updates!At("rendered")>> \o Tail(stack)
  <2>1. Updates!At("rendered") \in CallSet
      BY UpdateGoesOn
  <2>2. <<>> \in Seq(CallSet)
      OBVIOUS
  <2>3. QED
      BY <1>2, <2>1, <2>2, MadeOnTop DEF Updates!Continues
<1>4. /\ Keeps(stack') /\ \A n : OnLevel(stack', n) <=> OnLevel(stack, n)
      /\ \A d, ats : UpdateAt(stack', d, ats) <=> (d = c /\ "rendered" \in ats) \/ UpdateAt(Tail(stack), d, ats)
      /\ SameJobs(stack')
    BY <1>3, UpdateGoesOn
<1>5. /\ SchedulerInv'
      /\ \A d : UpdateWaits(d)' <=> UpdateWaits(d)
      /\ \A d : WatchWaits(d)' <=> WatchWaits(d)
    BY <1>4, NoneQueued
<1>6. Telling'
    BY <1>4, <1>5, TellingKept
<1>7. /\ \A d \in Updates!Instance : UpdateAt(stack, d, {"render"}) <=> d = c
      /\ \A d \in Updates!Instance : ~UpdateAt(stack', d, {"render"})
    BY <1>2, <1>4
<1>8. c \in Updates!Mounted
    BY <1>7 DEF ComponentInv, Tracking
<1>9. Tracking'
  <2>1. \A d \in Updates!Instance : Scheduled(stack', Updates!Watch(d)) => Scheduled(stack, Updates!Watch(d))
      BY <1>4 DEF SameJobs
  <2>2. tracked' = Updates!Tracks(c)
      BY DEF Updates!Renders
  <2>3. QED
      BY <1>7, <1>8, <2>1, <2>2, RenderTracks
<1>10. Taking'
  <2>1. \A d \in Updates!Instance : next[d] = <<>>
      BY DEF ComponentInv, Taking, Takes
  <2>2. QED
      BY <2>1 DEF Taking
<1>11. DOMAIN shown = Updates!Instance
    BY DEF ComponentInv, ComponentTypes
<1>12. /\ shown'[c] = Updates!Sees(c) /\ DOMAIN shown' = Updates!Instance
       /\ \A d \in Updates!Instance \ {c} : shown'[d] = shown[d]
    BY <1>11 DEF Updates!Renders
<1>13. ComponentTypes'
    BY <1>12 DEF ComponentInv, ComponentTypes
<1>14. \A d \in Updates!Instance \ {c} : Coming(d) => Coming(d)'
    BY <1>2, <1>4, <1>5 DEF Coming, SameJobs
<1>15. Page'
  <2>1. \A d : Updates!Sees(d)' = Updates!Sees(d)
      BY DEF Updates!Sees
  <2>2. \A d \in Updates!Mounted : shown'[d] = Updates!Sees(d) \/ Coming(d)'
      BY <1>1, <1>12, <1>14 DEF ComponentInv, Page
  <2>3. state.show = (Updates!CurrentChild # {}) \/ Coming(Updates!Root)'
      BY <1>1, <1>14 DEF ComponentInv, Page
  <2>4. \A d \in Updates!CurrentChild : props[d] = state.x \/ Coming(Updates!Root)' \/ next[d] = <<state.x>>
      BY <1>1, <1>14 DEF ComponentInv, Page
  <2>5. QED
      BY <1>1, <2>1, <2>2, <2>3, <2>4 DEF ComponentInv, Page
<1>16. QED
    BY <1>5, <1>6, <1>9, <1>10, <1>13, <1>15 DEF ComponentInv

LEMMA ChildRendersKeeps ==
    ASSUME SchedulerInv, ComponentInv, Updates!ChildRenders
    PROVE  SchedulerInv' /\ ComponentInv'
<1>1. /\ stack # <<>> /\ Head(stack).fn \in {"task", "update"} /\ Head(stack).at = "render"
      /\ Head(stack).task \in Updates!Updates /\ Head(stack).task[2] # Updates!Root
      /\ Updates!Renders(Head(stack).task[2]) /\ Updates!Continues("rendered", <<>>) /\ Updates!NoQueueing
      /\ UNCHANGED <<state, mode, instance, props, next, oldValue, newValue, told, nested>>
    BY DEF Updates!ChildRenders, Updates!Works, Updates!TopTask, Updates!Updating
<1>2. PICK c \in Updates!Instance : Head(stack).task = Updates!Update(c) /\ Head(stack).task[2] = c
    BY <1>1, TasksDiffer
<1>3. QED
    BY <1>1, <1>2, UpdateRenders

\* A job is removed that is still to run.
LEMMA RemovesKeeps ==
    ASSUME SchedulerInv, NEW c \in Updates!Instance, Updates!RemovesJob(Updates!Update(c)), Keeps(stack'),
           OnLevel(stack, 1), ~(Head(stack).fn = "flushJobs" /\ Head(stack).at = "pre"),
           \A n \in {1, 4} : OnLevel(stack', n) <=> OnLevel(stack, n)
    PROVE  /\ SchedulerInv'
           /\ \A d \in Updates!Instance \ {c} : UpdateWaits(d) => UpdateWaits(d)'
           /\ \A d : WatchWaits(d)' <=> WatchWaits(d)
<1>1. UNCHANGED <<flushIndex, isFlushing, isFlushPending, pendingPre, activePre, preIndex, parentJob,
                  pendingPost, activePost, postIndex>>
    BY DEF Updates!RemovesJob, Updates!S!InvalidateJob, Updates!S!preVars, Updates!S!postVars, Updates!NoQueueing, Updates!queueVars, Updates!preVars, Updates!postVars
<1>2. \/ queue' = queue
      \/ \E i \in DOMAIN queue : queue[i] = Updates!Update(c) /\ i - 1 > flushIndex /\ queue' = Updates!S!RemoveAt(queue, i)
    BY DEF Updates!RemovesJob, Updates!S!InvalidateJob, Updates!NoQueueing, Updates!queueVars
<1>3. /\ queue \in Seq(Updates!Updates) /\ flushIndex \in Nat /\ Len(queue) \in Nat /\ DOMAIN queue = 1..Len(queue)
      /\ flushIndex < Len(queue)
    BY DEF SchedulerInv, SchedulerTypes, Indexed
<1>4. OnLevel(stack', 1) /\ FirstUpdate = flushIndex + 1 /\ FirstUpdate' = flushIndex + 1
  <2>1. OnLevel(stack', 1)
      OBVIOUS
  <2>2. QED
      BY <1>1, <2>1 DEF FirstUpdate
<1>5. /\ queue' \in Seq(Updates!Updates) /\ flushIndex < Len(queue') /\ (queue' # <<>> => queue # <<>>)
      /\ Len(queue') \in Nat
      /\ \A u : u # Updates!Update(c) /\ Ahead(queue, flushIndex + 1, u) => Ahead(queue', flushIndex + 1, u)
  <2>1. CASE queue' = queue
      BY <1>3, <2>1
  <2>2. CASE queue' # queue
    <3>1. PICK i \in 1..Len(queue) : /\ queue[i] = Updates!Update(c) /\ i - 1 > flushIndex
                                     /\ queue' = Updates!S!RemoveAt(queue, i)
        BY <1>2, <1>3, <2>2
    <3>2. i > flushIndex + 1 /\ flushIndex + 1 \in Nat
        BY <1>3, <3>1
    <3>3. /\ queue' \in Seq(Updates!Updates) /\ Len(queue') = Len(queue) - 1
          /\ \A u : u # queue[i] /\ Ahead(queue, flushIndex + 1, u) => Ahead(queue', flushIndex + 1, u)
        BY <1>3, <3>1, <3>2, RemoveHas
    <3>4. flushIndex < Len(queue') /\ Len(queue') \in Nat
        BY <1>3, <3>2, <3>3
    <3>5. queue # <<>>
        BY <1>3
    <3>6. QED
        BY <3>1, <3>3, <3>4, <3>5
  <2>3. QED
      BY <2>1, <2>2
<1>6. SchedulerTypes'
    BY <1>1, <1>5 DEF SchedulerInv, SchedulerTypes
<1>7. Stacked'
    BY DEF Keeps, Stacked
<1>8. Flags'
    BY <1>1, <1>5, FlagsKept DEF Keeps, SchedulerInv, LeftOver
<1>9. Indexed'
    BY <1>1, <1>3, <1>5 DEF Indexed
<1>10. Looping'
    BY <1>1, LoopingKept DEF Keeps, SchedulerInv
<1>11. ASSUME NEW d \in Updates!Instance \ {c}, UpdateWaits(d) PROVE UpdateWaits(d)'
  <2>1. Updates!Update(d) # Updates!Update(c)
      BY TasksDiffer
  <2>2. Ahead(queue, flushIndex + 1, Updates!Update(d))
      BY <1>4, <1>11 DEF UpdateWaits
  <2>3. Ahead(queue', flushIndex + 1, Updates!Update(d))
      BY <1>5, <2>1, <2>2
  <2>4. QED
      BY <1>4, <2>3 DEF UpdateWaits
<1>12. OnLevel(stack', 4) <=> OnLevel(stack, 4)
    OBVIOUS
<1>13. \A d : WatchWaits(d)' <=> WatchWaits(d)
    BY <1>1, <1>12 DEF WatchWaits, FirstPre, FirstPost
<1>14. QED
    BY <1>6, <1>7, <1>8, <1>9, <1>10, <1>11, <1>13 DEF SchedulerInv

\* The root is updated by the loop over the queue.
LEMMA RootOnTop ==
    ASSUME SchedulerInv, stack # <<>>, Head(stack).fn \in {"task", "update"},
           Head(stack).task = Updates!Update(Updates!Root)
    PROVE  Head(stack).fn = "task" /\ Level(Head(stack)) = 1 /\ OnLevel(stack, 1)
<1>1. Updates!Root \in Updates!Instance
    BY DEF Updates!Instance
<1>2. Good(Head(stack)) /\ Adds(Head(stack), Tail(stack), stack)
    BY TopEnds DEF Flushes
<1>3. Head(stack).fn = "task"
    BY <1>2 DEF Good
<1>4. Level(Head(stack)) = 1
    BY <1>1, <1>3, TasksDiffer, LevelIs
<1>5. QED
    BY <1>2, <1>3, <1>4 DEF Adds

\* The root renders and updates the child.
LEMMA RootUpdatesChild ==
    ASSUME SchedulerInv, ComponentInv, stack # <<>>, Head(stack).fn \in {"task", "update"},
           Head(stack).at = "render", Head(stack).task = Updates!Update(Updates!Root), Updates!Renders(Updates!Root),
           state.show = (Updates!CurrentChild # {}), NEW c \in Updates!CurrentChild,
           next' = [next EXCEPT ![c] = <<state.x>>], Updates!RemovesJob(Updates!Update(c)),
           Updates!Continues("rendered", <<Updates!Frame("update", Updates!Update(c))>>),
           UNCHANGED <<state, mode, instance, props, oldValue, newValue, told, nested>>
    PROVE  SchedulerInv' /\ ComponentInv'
<1> DEFINE u == Updates!Frame("update", Updates!Update(c))
           g == Updates!At("rendered")
           q == <<g>> \o Tail(stack)
<1>1. Updates!Mounted' = Updates!Mounted /\ Updates!CurrentChild' = Updates!CurrentChild /\ Updates!Mounted \subseteq Updates!Instance
      /\ Updates!Root \in Updates!Instance /\ c \in Updates!Instance /\ c # Updates!Root /\ c \in Updates!Mounted
    BY DEF Updates!Mounted, Updates!CurrentChild, Updates!Instance
<1>2. /\ \A d \in Updates!Instance : ~UpdateAt(Tail(stack), d, {"render"})
      /\ \A d \in Updates!Instance : ~UpdateAt(Tail(stack), d, {"runs", "render"})
      /\ \A d, ats : UpdateAt(stack, d, ats) <=> (d = Updates!Root /\ "render" \in ats) \/ UpdateAt(Tail(stack), d, ats)
      /\ Tail(stack) \in Seq(CallSet)
    BY <1>1, UpdateOnTop DEF Keeps
<1>3. /\ Keeps(q) /\ Head(q) = g /\ q # <<>> /\ g \in CallSet
      /\ g.fn = Head(stack).fn /\ g.at = "rendered" /\ g.task = Updates!Update(Updates!Root)
      /\ \A n : OnLevel(q, n) <=> OnLevel(stack, n)
      /\ \A d, ats : UpdateAt(q, d, ats) <=> (d = Updates!Root /\ "rendered" \in ats) \/ UpdateAt(Tail(stack), d, ats)
      /\ SameJobs(q)
    BY <1>1, UpdateGoesOn
<1>4. g.fn = "task" /\ OnLevel(stack, 1)
    BY <1>3, RootOnTop
<1>5. u \in CallSet /\ u.fn = "update" /\ u.at = "runs" /\ u.task = Updates!Update(c) /\ Updates!Update(c) \in Updates!Updates
  <2>1. Updates!Update(c) \in Updates!Updates /\ Updates!Update(c) \in Own
      BY <1>1, TasksDiffer DEF Own
  <2>2. QED
      BY <2>1, FrameIs
<1>6. stack' = <<u>> \o q
  <2>1. stack' = (<<u>> \o <<g>>) \o Tail(stack)
      BY DEF Updates!Continues
  <2>2. <<u>> \in Seq(CallSet)
      BY <1>5
  <2> HIDE DEF u, g
  <2>3. QED
      BY <1>2, <1>3, <2>1, <2>2, MadeOnTop
<1> HIDE DEF u, g
<1>7. Keeps(stack') /\ Adds(u, q, stack') /\ Head(stack') = u /\ stack' # <<>>
  <2>1. q \in Seq(CallSet) /\ Nested(q)
      BY <1>3 DEF Keeps
  <2>2. Good(u)
      BY <1>1, <1>5, TasksDiffer DEF Good
  <2>3. Over(u, g)
    <3>1. Level(u) = 2 /\ Level(g) = 1
        BY <1>1, <1>3, <1>4, <1>5, TasksDiffer, LevelIs
    <3>2. QED
        BY <3>1 DEF Over
  <2>4. Makes(g, u)
      BY <1>3, <1>4, <1>5 DEF Makes
  <2> HIDE DEF q
  <2>5. stack' \in Seq(CallSet) /\ Nested(stack') /\ Head(stack') = u /\ stack' # <<>>
      BY <1>3, <1>5, <1>6, <2>1, <2>2, <2>3, <2>4, CallsOne
  <2>6. /\ NoFlushing(stack') <=> ~Flushing(u) /\ NoFlushing(q)
        /\ \A fn, t : Loops(stack', fn, t) <=> (u.fn = fn /\ u.at = "loop" /\ u.task = t) \/ Loops(q, fn, t)
      BY <1>5, <1>6, <2>1, PushSees
  <2>7. ~Flushing(u)
      BY <1>5 DEF Flushing
  <2>8. Keeps(stack')
      BY <1>3, <2>5, <2>6, <2>7 DEF Keeps
  <2>9. QED
      BY <1>5, <1>6, <2>1, <2>5, <2>8, PushAdds
<1> HIDE DEF q
<1>8. \A n \in {1, 4} : OnLevel(stack', n) <=> OnLevel(stack, n)
  <2>1. Level(u) = 2
      BY <1>5, LevelIs
  <2>2. QED
      BY <1>3, <1>7, <2>1 DEF Adds
<1>9. \A d, ats : UpdateAt(stack', d, ats) <=>
            (d = c /\ "runs" \in ats) \/ (d = Updates!Root /\ "rendered" \in ats) \/ UpdateAt(Tail(stack), d, ats)
  <2>1. \A d : Updates!Update(c) = Updates!Update(d) <=> d = c
      BY TasksDiffer
  <2>2. QED
      BY <1>3, <1>5, <1>7, <2>1 DEF Adds
<1>10. SameJobs(stack')
  <2>1. \A d, at : ~IsJob(u, d, at)
      BY <1>5 DEF IsJob
  <2>2. u.fn # "schedule" /\ u.fn # "job"
      BY <1>5
  <2>3. QED
      BY <1>3, <1>7, <2>1, <2>2 DEF Adds, SameJobs
<1>11. /\ SchedulerInv'
       /\ \A d \in Updates!Instance \ {c} : UpdateWaits(d) => UpdateWaits(d)'
       /\ \A d : WatchWaits(d)' <=> WatchWaits(d)
    BY <1>1, <1>3, <1>4, <1>7, <1>8, RemovesKeeps
<1>12. Telling'
    BY <1>10, <1>11, TellingKept
<1>13. /\ \A d \in Updates!Instance : UpdateAt(stack, d, {"render"}) <=> d = Updates!Root
       /\ \A d \in Updates!Instance : ~UpdateAt(stack', d, {"render"})
    BY <1>2, <1>9
<1>14. Tracking'
  <2>1. \A d \in Updates!Instance : Scheduled(stack', Updates!Watch(d)) => Scheduled(stack, Updates!Watch(d))
      BY <1>10 DEF SameJobs
  <2>2. tracked' = Updates!Tracks(Updates!Root) /\ Updates!Root \in Updates!Mounted
      BY DEF Updates!Renders, ComponentInv, Page
  <2>3. QED
      BY <1>13, <2>1, <2>2, RenderTracks
<1>15. DOMAIN shown = Updates!Instance /\ DOMAIN next = Updates!Instance
    BY DEF ComponentInv, ComponentTypes
<1>16. /\ shown'[Updates!Root] = Updates!Sees(Updates!Root) /\ DOMAIN shown' = Updates!Instance
       /\ \A d \in Updates!Instance \ {Updates!Root} : shown'[d] = shown[d]
       /\ next'[c] = <<state.x>> /\ DOMAIN next' = Updates!Instance
       /\ \A d \in Updates!Instance \ {c} : next'[d] = next[d]
    BY <1>1, <1>15 DEF Updates!Renders
<1>17. ComponentTypes'
    BY <1>16 DEF ComponentInv, ComponentTypes
<1>18. Taking'
  <2>1. \A d \in Updates!Instance : next[d] = <<>>
      BY DEF ComponentInv, Taking, Takes
  <2>2. stack' # <<>> /\ Head(stack').fn = "update" /\ Head(stack').at = "runs" /\ Head(stack').task = Updates!Update(c)
      BY <1>5, <1>7
  <2>3. ASSUME NEW d \in Updates!Instance, next'[d] # <<>> PROVE d = c
      BY <1>16, <2>1, <2>3
  <2>4. next'[c] = <<state'.x>> /\ c \in Updates!CurrentChild'
      BY <1>1, <1>16
  <2>5. Takes(c)'
      BY <2>2 DEF Takes
  <2>6. QED
      BY <2>3, <2>4, <2>5 DEF Taking
<1>19. Coming(c)' /\ \A d \in Updates!Instance \ {c, Updates!Root} : Coming(d) => Coming(d)'
    BY <1>2, <1>9, <1>10, <1>11 DEF Coming, SameJobs
<1>20. Page'
  <2>1. \A d : Updates!Sees(d)' = Updates!Sees(d)
      BY DEF Updates!Sees
  <2>2. \A d \in Updates!Mounted : shown'[d] = Updates!Sees(d) \/ Coming(d)'
      BY <1>1, <1>16, <1>19 DEF ComponentInv, Page
  <2>3. \A d \in Updates!CurrentChild : next'[d] = <<state.x>>
      BY <1>16 DEF ComponentInv, Page
  <2>4. QED
      BY <1>1, <2>1, <2>2, <2>3 DEF ComponentInv, Page
<1>21. QED
    BY <1>11, <1>12, <1>14, <1>17, <1>18, <1>20 DEF ComponentInv

LEMMA RootRendersSameKeeps ==
    ASSUME SchedulerInv, ComponentInv, Updates!RootRendersSame
    PROVE  SchedulerInv' /\ ComponentInv'
<1>1. /\ stack # <<>> /\ Head(stack).fn \in {"task", "update"} /\ Head(stack).at = "render"
      /\ Head(stack).task = Updates!Update(Updates!Root) /\ state.show = (Updates!CurrentChild # {}) /\ Updates!Renders(Updates!Root)
      /\ UNCHANGED <<state, mode, instance, props, oldValue, newValue, told, nested>>
    BY DEF Updates!RootRendersSame, Updates!Works, Updates!TopTask, Updates!Updating
<1>2. Updates!Root \in Updates!Instance
    BY DEF Updates!Instance
<1>3. CASE /\ \A c \in Updates!CurrentChild : ~Updates!ShouldUpdate(c)
           /\ Updates!Continues("rendered", <<>>) /\ Updates!NoQueueing /\ UNCHANGED next
  <2>1. \A c \in Updates!CurrentChild : props[c] = state.x
      BY <1>3 DEF Updates!ShouldUpdate
  <2>2. QED
      BY <1>1, <1>2, <1>3, <2>1, UpdateRenders
<1>4. CASE \E c \in Updates!CurrentChild : /\ Updates!ShouldUpdate(c) /\ next' = [next EXCEPT ![c] = <<state.x>>]
                                   /\ Updates!RemovesJob(Updates!Update(c))
                                   /\ Updates!Continues("rendered", <<Updates!Frame("update", Updates!Update(c))>>)
    BY <1>1, <1>4, RootUpdatesChild
<1>5. QED
    BY <1>3, <1>4 DEF Updates!RootRendersSame

\* The root has rendered: the hook of the child that it shows or removes is queued.
LEMMA RootGoesOn ==
    ASSUME SchedulerInv, ComponentInv, stack # <<>>, Head(stack).fn \in {"task", "update"},
           Head(stack).at = "render", Head(stack).task = Updates!Update(Updates!Root),
           NEW c \in Updates!Instance, pendingPost' = Append(pendingPost, Updates!Hook(c)), Updates!S!FlushPending,
           Updates!Continues("rendered", <<>>), UNCHANGED <<Updates!queueVars, Updates!preVars, activePost, postIndex>>
    PROVE  /\ SchedulerInv' /\ SameJobs(stack')
           /\ \A d : WatchComing(d) => WatchComing(d)'
           /\ \A d \in Updates!Instance : ~UpdateAt(stack', d, {"render"})
           /\ \A d \in Updates!Instance : NoCallback(stack, d)
           /\ \A t : ~Scheduled(stack, t)
           /\ \A d \in Updates!Instance : next[d] = <<>>
<1>1. Updates!Root \in Updates!Instance
    BY DEF Updates!Instance
<1>2. /\ \A d \in Updates!Instance : ~UpdateAt(Tail(stack), d, {"render"})
      /\ \A d \in Updates!Instance : NoCallback(stack, d)
      /\ \A t : ~Scheduled(stack, t)
      /\ Tail(stack) \in Seq(CallSet)
    BY <1>1, UpdateOnTop DEF Keeps
<1>3. stack' = <<Updates!At("rendered")>> \o Tail(stack)
  <2>1. Updates!At("rendered") \in CallSet
      BY <1>1, UpdateGoesOn
  <2>2. <<>> \in Seq(CallSet)
      OBVIOUS
  <2>3. QED
      BY <1>2, <2>1, <2>2, MadeOnTop DEF Updates!Continues
<1>4. /\ Keeps(stack') /\ \A n : OnLevel(stack', n) <=> OnLevel(stack, n)
      /\ \A d, ats : UpdateAt(stack', d, ats) <=> (d = Updates!Root /\ "rendered" \in ats) \/ UpdateAt(Tail(stack), d, ats)
      /\ SameJobs(stack')
    BY <1>1, <1>3, UpdateGoesOn
<1>5. SchedulerInv' /\ \A d : WatchWaits(d) => WatchWaits(d)'
    BY <1>4, HookIsQueued
<1>6. \A d : WatchComing(d) => WatchComing(d)'
    BY <1>4, <1>5 DEF WatchComing, SameJobs
<1>7. \A d \in Updates!Instance : next[d] = <<>>
    BY DEF ComponentInv, Taking, Takes
<1>8. QED
    BY <1>2, <1>4, <1>5, <1>6, <1>7

LEMMA RootRendersNewChildKeeps ==
    ASSUME SchedulerInv, ComponentInv, Updates!RootRendersNewChild
    PROVE  SchedulerInv' /\ ComponentInv'
<1>1. /\ stack # <<>> /\ Head(stack).fn \in {"task", "update"} /\ Head(stack).at = "render"
      /\ Head(stack).task = Updates!Update(Updates!Root) /\ state.show /\ Updates!CurrentChild = {}
      /\ Updates!S!FlushPending /\ Updates!Continues("rendered", <<>>)
      /\ UNCHANGED <<Updates!queueVars, Updates!preVars, activePost, postIndex, state, mode, next, newValue, nested>>
    BY DEF Updates!RootRendersNewChild, Updates!Works, Updates!TopTask, Updates!Updating
<1>2. PICK c \in Updates!Instance :
          /\ instance[c] = "new"
          /\ instance' = [instance EXCEPT ![c] = "mounted"]
          /\ props' = [props EXCEPT ![c] = state.x]
          /\ shown' = [shown EXCEPT ![Updates!Root] = Updates!Sees(Updates!Root), ![c] = <<state.x, state.y>>]
          /\ tracked' = Updates!Tracks(Updates!Root) \cup {<<Updates!StateOf("y"), Updates!Update(c)>>, <<Updates!PropOf(c), Updates!Update(c)>>,
                                           <<Updates!PropOf(c), Updates!Watch(c)>>}
          /\ oldValue' = [oldValue EXCEPT ![c] = state.x]
          /\ told' = [told EXCEPT ![c] = state.x]
          /\ pendingPost' = Append(pendingPost, Updates!Hook(c))
    BY DEF Updates!RootRendersNewChild
<1>3. /\ SchedulerInv' /\ SameJobs(stack')
      /\ \A d : WatchComing(d) => WatchComing(d)'
      /\ \A d \in Updates!Instance : ~UpdateAt(stack', d, {"render"})
      /\ \A d \in Updates!Instance : NoCallback(stack, d)
      /\ \A t : ~Scheduled(stack, t)
      /\ \A d \in Updates!Instance : next[d] = <<>>
    BY <1>1, <1>2, RootGoesOn
<1>4. ComponentTypes /\ Tracking /\ Telling /\ Updates!Root \in Updates!Mounted
    BY DEF ComponentInv, Page
<1>5. Updates!Root \in Updates!Instance /\ c # Updates!Root /\ Updates!Mounted = {Updates!Root}
    BY <1>1, <1>2, <1>4 DEF Updates!Mounted, Updates!CurrentChild
<1>6. Updates!Mounted' = {Updates!Root, c} /\ Updates!CurrentChild' = {c}
  <2>1. instance'[c] = "mounted" /\ \A d \in Updates!Instance \ {c} : instance'[d] = instance[d]
      BY <1>2, <1>4 DEF ComponentTypes
  <2>2. \A d \in Updates!Instance : d \in Updates!Mounted' <=> d = c \/ d \in Updates!Mounted
      BY <2>1 DEF Updates!Mounted
  <2>3. Updates!Mounted' \subseteq Updates!Instance
      BY DEF Updates!Mounted
  <2>4. Updates!Mounted' = {Updates!Root, c}
      BY <1>5, <2>2, <2>3
  <2>5. QED
      BY <1>5, <2>4 DEF Updates!CurrentChild
<1>7. /\ props'[c] = state.x /\ told'[c] = state.x /\ oldValue'[c] = state.x
      /\ shown'[c] = <<state.x, state.y>> /\ shown'[Updates!Root] = Updates!Sees(Updates!Root)
      /\ \A d \in Updates!Instance \ {c} : props'[d] = props[d] /\ told'[d] = told[d] /\ oldValue'[d] = oldValue[d]
    BY <1>2, <1>4, <1>5 DEF ComponentTypes
<1>8. ComponentTypes'
    BY <1>1, <1>2, <1>4 DEF ComponentTypes
<1>9. Tracking'
  <2>1. tracked' = Updates!Untracked(Updates!Update(Updates!Root)) \cup {Updates!StateOf("show"), Updates!StateOf("x")} \X {Updates!Update(Updates!Root)}
                       \cup {<<Updates!StateOf("y"), Updates!Update(c)>>, <<Updates!PropOf(c), Updates!Update(c)>>, <<Updates!PropOf(c), Updates!Watch(c)>>}
      BY <1>2 DEF Updates!Tracks
  <2>2. \A p \in tracked' : \E d \in Updates!Mounted' : p[2] \in {Updates!Update(d), Updates!Watch(d)}
    <3>1. \A p \in Updates!Untracked(Updates!Update(Updates!Root)) : \E d \in Updates!Mounted : p[2] \in {Updates!Update(d), Updates!Watch(d)}
        BY <1>4 DEF Tracking, Updates!Untracked
    <3>2. \A p \in {Updates!StateOf("show"), Updates!StateOf("x")} \X {Updates!Update(Updates!Root)} : p[2] = Updates!Update(Updates!Root)
        OBVIOUS
    <3>3. QED
        BY <1>5, <1>6, <2>1, <3>1, <3>2
  <2>3. ASSUME NEW d \in Updates!Mounted' PROVE \A e \in Deps(d) : <<e, Updates!Update(d)>> \in tracked'
      BY <1>5, <1>6, <2>1 DEF Deps
  <2>4. <<Updates!StateOf("y"), Updates!Watch(Updates!Root)>> \in tracked'
    <3>1. Updates!Watch(Updates!Root) # Updates!Update(Updates!Root)
        BY TasksDiffer
    <3>2. QED
        BY <1>4, <2>1, <3>1 DEF Tracking, WatchDep, Updates!Untracked
  <2>5. \A d \in Updates!Mounted' : <<WatchDep(d), Updates!Watch(d)>> \in tracked'
      BY <1>5, <1>6, <2>1, <2>4 DEF WatchDep
  <2>6. \A d \in Updates!Instance : ~Scheduled(stack', Updates!Watch(d))
      BY <1>3 DEF SameJobs
  <2>7. QED
      BY <1>3, <2>2, <2>3, <2>5, <2>6 DEF Tracking, Deps, WatchDep, Updates!StateOf, Updates!PropOf
<1>10. Taking'
    BY <1>1, <1>3 DEF Taking
<1>11. Page'
  <2>1. Updates!Sees(Updates!Root)' = Updates!Sees(Updates!Root) /\ Updates!Sees(c)' = <<state.x, state.y>>
      BY <1>1, <1>5, <1>7 DEF Updates!Sees
  <2>2. \A d \in Updates!Mounted' : shown'[d] = Updates!Sees(d)'
      BY <1>6, <1>7, <2>1
  <2>3. state'.show = (Updates!CurrentChild' # {})
      BY <1>1, <1>4, <1>6 DEF ComponentTypes
  <2>4. \A d \in Updates!CurrentChild' : props'[d] = state'.x
      BY <1>1, <1>6, <1>7
  <2>5. QED
      BY <1>6, <2>2, <2>3, <2>4 DEF Page
<1>12. Telling'
  <2>1. Updates!Watched(Updates!Root)' = Updates!Watched(Updates!Root) /\ Updates!Watched(c)' = state.x
      BY <1>1, <1>5, <1>7 DEF Updates!Watched
  <2>2. told'[Updates!Root] = Updates!Watched(Updates!Root)' \/ WatchComing(Updates!Root)' \/ Updates!Root \in nested'
      BY <1>1, <1>3, <1>4, <1>5, <1>7, <2>1 DEF Telling
  <2>3. \A d \in Updates!Mounted' : told'[d] = Updates!Watched(d)' \/ WatchComing(d)' \/ d \in nested'
      BY <1>6, <1>7, <2>1, <2>2
  <2>4. ASSUME NEW d \in Updates!Instance \ nested' PROVE IsTold(d)'
    <3>1. IsTold(d) /\ NoCallback(stack, d)
        BY <1>1, <1>3, <1>4 DEF Telling
    <3>2. ~OneCallback(stack, d)
        BY <3>1 DEF NoCallback, OneCallback
    <3>3. newValue[d] = <<>> /\ told[d] = oldValue[d]
        BY <3>1, <3>2 DEF IsTold
    <3>4. told'[d] = oldValue'[d]
        BY <1>7, <3>3
    <3>5. NoCallback(stack', d)
        BY <1>3, <3>1 DEF SameJobs
    <3>6. QED
        BY <1>1, <3>3, <3>4, <3>5 DEF IsTold
  <2>5. (HasJob(stack') => mode = "sync") /\ (nested # {} => mode = "sync")
      BY <1>3, <1>4 DEF Telling, SameJobs
  <2>6. QED
      BY <1>1, <2>3, <2>4, <2>5 DEF Telling
<1>13. QED
    BY <1>3, <1>8, <1>9, <1>10, <1>11, <1>12 DEF ComponentInv

LEMMA RootRemovesChildKeeps ==
    ASSUME SchedulerInv, ComponentInv, Updates!RootRemovesChild
    PROVE  SchedulerInv' /\ ComponentInv'
<1>1. /\ stack # <<>> /\ Head(stack).fn \in {"task", "update"} /\ Head(stack).at = "render"
      /\ Head(stack).task = Updates!Update(Updates!Root) /\ ~state.show
      /\ Updates!S!FlushPending /\ Updates!Continues("rendered", <<>>)
      /\ UNCHANGED <<Updates!queueVars, Updates!preVars, activePost, postIndex,
                     state, mode, props, next, oldValue, newValue, told, nested>>
    BY DEF Updates!RootRemovesChild, Updates!Works, Updates!TopTask, Updates!Updating
<1>2. PICK c \in Updates!CurrentChild :
          /\ instance' = [instance EXCEPT ![c] = "unmounted"]
          /\ shown' = [shown EXCEPT ![Updates!Root] = Updates!Sees(Updates!Root)]
          /\ tracked' = Updates!StopsEffects(c) \cup {Updates!StateOf("show"), Updates!StateOf("x")} \X {Updates!Update(Updates!Root)}
          /\ pendingPost' = Append(pendingPost, Updates!Hook(c))
    BY DEF Updates!RootRemovesChild
<1>3. ComponentTypes /\ Tracking /\ Telling /\ Updates!Root \in Updates!Mounted /\ (\A d, e \in Updates!CurrentChild : d = e)
    BY DEF ComponentInv, Page
<1>4. c \in Updates!Instance /\ Updates!Root \in Updates!Instance /\ c # Updates!Root /\ Updates!Mounted = {Updates!Root, c}
    BY <1>3 DEF Updates!Mounted, Updates!CurrentChild
<1>5. /\ SchedulerInv' /\ SameJobs(stack')
      /\ \A d : WatchComing(d) => WatchComing(d)'
      /\ \A d \in Updates!Instance : ~UpdateAt(stack', d, {"render"})
      /\ \A t : ~Scheduled(stack, t)
      /\ \A d \in Updates!Instance : next[d] = <<>>
    BY <1>1, <1>2, <1>4, RootGoesOn
<1>6. Updates!Mounted' = {Updates!Root} /\ Updates!CurrentChild' = {}
  <2>1. instance'[c] = "unmounted" /\ \A d \in Updates!Instance \ {c} : instance'[d] = instance[d]
      BY <1>2, <1>3, <1>4 DEF ComponentTypes
  <2>2. \A d \in Updates!Instance : d \in Updates!Mounted' <=> d # c /\ d \in Updates!Mounted
      BY <2>1 DEF Updates!Mounted
  <2>3. Updates!Mounted' \subseteq Updates!Instance
      BY DEF Updates!Mounted
  <2>4. Updates!Mounted' = {Updates!Root}
      BY <1>4, <2>2, <2>3
  <2>5. QED
      BY <2>4 DEF Updates!CurrentChild
<1>7. ComponentTypes'
    BY <1>1, <1>2, <1>3 DEF ComponentTypes
<1>8. Tracking'
  <2>1. \A p \in tracked' : (p \in tracked /\ p[2] \notin {Updates!Update(c), Updates!Watch(c)}) \/ p[2] = Updates!Update(Updates!Root)
      BY <1>2 DEF Updates!StopsEffects
  <2>2. \A p \in tracked' : p[2] \in {Updates!Update(Updates!Root), Updates!Watch(Updates!Root)}
      BY <1>3, <1>4, <2>1 DEF Tracking
  <2>3. \A e \in Deps(Updates!Root) : <<e, Updates!Update(Updates!Root)>> \in tracked'
      BY <1>2 DEF Deps
  <2>4. <<WatchDep(Updates!Root), Updates!Watch(Updates!Root)>> \in tracked'
    <3>1. Updates!Watch(Updates!Root) # Updates!Update(c) /\ Updates!Watch(Updates!Root) # Updates!Watch(c)
        BY <1>4, TasksDiffer
    <3>2. <<WatchDep(Updates!Root), Updates!Watch(Updates!Root)>> \in tracked
        BY <1>3 DEF Tracking
    <3>3. QED
        BY <1>2, <3>1, <3>2 DEF Updates!StopsEffects
  <2>5. \A d \in Updates!Instance : ~Scheduled(stack', Updates!Watch(d))
      BY <1>5 DEF SameJobs
  <2>6. QED
      BY <1>5, <1>6, <2>2, <2>3, <2>4, <2>5 DEF Tracking, Deps, WatchDep, Updates!StateOf, Updates!PropOf
<1>9. Taking'
    BY <1>1, <1>5 DEF Taking
<1>10. Page'
  <2>1. shown'[Updates!Root] = Updates!Sees(Updates!Root) /\ Updates!Sees(Updates!Root)' = Updates!Sees(Updates!Root)
      BY <1>1, <1>2, <1>3, <1>4 DEF ComponentTypes, Updates!Sees
  <2>2. state'.show = (Updates!CurrentChild' # {})
      BY <1>1, <1>3, <1>6 DEF ComponentTypes
  <2>3. QED
      BY <1>6, <2>1, <2>2 DEF Page
<1>11. Telling'
  <2>1. \A d : Updates!Watched(d)' = Updates!Watched(d)
      BY <1>1 DEF Updates!Watched
  <2>2. \A d \in Updates!Mounted' : told'[d] = Updates!Watched(d)' \/ WatchComing(d)' \/ d \in nested'
      BY <1>1, <1>3, <1>4, <1>5, <1>6, <2>1 DEF Telling
  <2>3. \A d \in Updates!Instance \ nested' : IsTold(d)'
      BY <1>1, <1>3, <1>5 DEF Telling, IsTold, SameJobs
  <2>4. (HasJob(stack') => mode = "sync") /\ (nested # {} => mode = "sync")
      BY <1>3, <1>5 DEF Telling, SameJobs
  <2>5. QED
      BY <1>1, <2>2, <2>3, <2>4 DEF Telling
<1>12. QED
    BY <1>5, <1>7, <1>8, <1>9, <1>10, <1>11 DEF ComponentInv

-----------------------------------------------------------------------------
(* The writes.                                                             *)

\* What a write changes.
LEMMA WriteChanges ==
    ASSUME ComponentInv, NEW source \in Updates!Source, Updates!StateChanges(source)
    PROVE  /\ DOMAIN state' = {"show", "x", "y", "writes"} /\ state'.show \in BOOLEAN
           /\ source # "show" => state'.show = state.show
           /\ source # "x" => state'.x = state.x
           /\ source # "y" => state'.y = state.y
<1>1. DOMAIN state = {"show", "x", "y", "writes"} /\ state.show \in BOOLEAN
    BY DEF ComponentInv, ComponentTypes
<1>2. CASE source = "show" /\ state' = [state EXCEPT !.show = ~@, !.writes = @ + 1]
  <2>1. DOMAIN state' = {"show", "x", "y", "writes"} /\ state'.x = state.x /\ state'.y = state.y
      BY <1>1, <1>2
  <2>2. state'.show = ~state.show
      BY <1>1, <1>2
  <2>3. state'.show \in BOOLEAN
      BY <2>2
  <2>4. QED
      BY <1>2, <2>1, <2>3
<1>3. CASE source = "x" /\ \E v : state' = [state EXCEPT !.x = v, !.writes = @ + 1]
  <2>1. PICK v : state' = [state EXCEPT !.x = v, !.writes = @ + 1]
      BY <1>3
  <2>2. DOMAIN state' = {"show", "x", "y", "writes"} /\ state'.show = state.show /\ state'.y = state.y
      BY <1>1, <2>1
  <2>3. QED
      BY <1>1, <1>3, <2>2
<1>4. CASE source = "y" /\ \E v : state' = [state EXCEPT !.y = v, !.writes = @ + 1]
  <2>1. PICK v : state' = [state EXCEPT !.y = v, !.writes = @ + 1]
      BY <1>4
  <2>2. DOMAIN state' = {"show", "x", "y", "writes"} /\ state'.show = state.show /\ state'.x = state.x
      BY <1>1, <2>1
  <2>3. QED
      BY <1>1, <1>4, <2>2
<1>5. QED
    BY <1>2, <1>3, <1>4 DEF Updates!StateChanges

\* A write schedules the effects of whatever reads what it changes.
LEMMA WritesKeeps ==
    ASSUME SchedulerInv, ComponentInv, NEW source \in Updates!Source, Updates!Writes(source, stack),
           ~(stack # <<>> /\ Head(stack).fn = "flushJobs" /\ Head(stack).at = "pre"),
           \A c \in Updates!Instance : ~Takes(c)
    PROVE  SchedulerInv' /\ ComponentInv'
<1>1. /\ Updates!StateChanges(source) /\ Updates!NoQueueing
      /\ UNCHANGED <<mode, instance, props, next, tracked, shown, oldValue, newValue, told, nested>>
    BY DEF Updates!Writes
<1>2. PICK made \in Updates!TriggerCalls(Updates!StateOf(source)) : stack' = made \o stack
    BY DEF Updates!Writes
<1>3. /\ made \in Seq(CallSet)
      /\ \A i \in 1..Len(made) :
            /\ made[i].fn = "schedule" /\ made[i].at = "runs"
            /\ made[i].task \in Updates!Updates \cup Updates!Watches /\ <<Updates!StateOf(source), made[i].task>> \in tracked
      /\ \A t \in Updates!Updates \cup Updates!Watches : <<Updates!StateOf(source), t>> \in tracked => Scheduled(made, t)
    BY TriggersAll
<1>4. stack \in Seq(CallSet) /\ Nested(stack)
    BY DEF SchedulerInv, Stacked
<1>5. /\ stack' \in Seq(CallSet) /\ Nested(stack')
      /\ NoFlushing(stack') <=> NoFlushing(stack)
      /\ \A n : n # 5 => (OnLevel(stack', n) <=> OnLevel(stack, n))
      /\ \A fn, t : Loops(stack', fn, t) <=> Loops(stack, fn, t)
      /\ \A c, ats : UpdateAt(stack', c, ats) <=> UpdateAt(stack, c, ats)
      /\ \A t : Scheduled(stack', t) <=> Scheduled(made, t) \/ Scheduled(stack, t)
      /\ \A c : RunsWatch(stack', c) <=> RunsWatch(stack, c)
      /\ \A c : NoCallback(stack', c) <=> NoCallback(stack, c)
      /\ \A c : OneCallback(stack', c) <=> OneCallback(stack, c)
      /\ HasJob(stack') <=> HasJob(stack)
  <2>1. OnlySchedules(made)
      BY <1>3 DEF OnlySchedules
  <2>2. made \in Seq(CallSet) /\ stack \in Seq(CallSet)
      BY <1>3, <1>4
  <2> DEFINE r == stack'
  <2>3. r = made \o stack
      BY <1>2
  <2> HIDE DEF r
  <2>4. /\ r \in Seq(CallSet)
        /\ Nested(stack) => Nested(r)
        /\ NoFlushing(r) <=> NoFlushing(stack)
        /\ \A n : n # 5 => (OnLevel(r, n) <=> OnLevel(stack, n))
        /\ \A fn, t : Loops(r, fn, t) <=> Loops(stack, fn, t)
        /\ \A c, ats : UpdateAt(r, c, ats) <=> UpdateAt(stack, c, ats)
        /\ \A t : Scheduled(r, t) <=> Scheduled(made, t) \/ Scheduled(stack, t)
        /\ \A c : RunsWatch(r, c) <=> RunsWatch(stack, c)
        /\ \A c : NoCallback(r, c) <=> NoCallback(stack, c)
        /\ \A c : OneCallback(r, c) <=> OneCallback(stack, c)
        /\ HasJob(r) <=> HasJob(stack)
      BY <2>1, <2>2, <2>3, ManySee
  <2>5. QED
      BY <1>4, <2>4 DEF r
<1>6. Keeps(stack') /\ \A n \in {1, 4} : OnLevel(stack', n) <=> OnLevel(stack, n)
    BY <1>5 DEF Keeps
<1>7. /\ SchedulerInv'
      /\ \A c : UpdateWaits(c)' <=> UpdateWaits(c)
      /\ \A c : WatchWaits(c)' <=> WatchWaits(c)
    BY <1>1, <1>6, NoneQueued
<1>8. /\ DOMAIN state' = {"show", "x", "y", "writes"} /\ state'.show \in BOOLEAN
      /\ source # "show" => state'.show = state.show
      /\ source # "x" => state'.x = state.x
      /\ source # "y" => state'.y = state.y
    BY <1>1, WriteChanges
<1>9. ComponentTypes /\ Tracking /\ Taking /\ Page /\ Telling
    BY DEF ComponentInv
<1>10. /\ Updates!Mounted' = Updates!Mounted /\ Updates!CurrentChild' = Updates!CurrentChild /\ Updates!Mounted \subseteq Updates!Instance
       /\ Updates!Root \in Updates!Mounted /\ Updates!Root \in Updates!Instance
    BY <1>1, <1>9 DEF Updates!Mounted, Updates!CurrentChild, Page
<1>11. \A c \in Updates!Instance : next[c] = <<>>
    BY <1>9 DEF Taking
<1>12. \A c : (Coming(c) => Coming(c)') /\ (WatchComing(c) => WatchComing(c)')
    BY <1>5, <1>7 DEF Coming, WatchComing
<1>13. ASSUME NEW c \in Updates!Mounted, Updates!StateOf(source) \in Deps(c) PROVE Coming(c)'
  <2>1. Updates!Update(c) \in Updates!Updates
      BY <1>10, TasksDiffer
  <2>2. UpdateAt(stack, c, {"render"}) \/ <<Updates!StateOf(source), Updates!Update(c)>> \in tracked
      BY <1>9, <1>13 DEF Tracking
  <2>3. UpdateAt(stack, c, {"render"}) => UpdateAt(stack', c, {"runs", "render"})
    <3>1. UpdateAt(stack, c, {"render"}) => UpdateAt(stack, c, {"runs", "render"})
        BY DEF UpdateAt
    <3>2. QED
        BY <1>5, <3>1
  <2>4. <<Updates!StateOf(source), Updates!Update(c)>> \in tracked => Scheduled(stack', Updates!Update(c))
      BY <1>3, <1>5, <2>1
  <2>5. QED
      BY <2>2, <2>3, <2>4 DEF Coming
<1>14. ASSUME NEW c \in Updates!Mounted PROVE Updates!Sees(c)' = Updates!Sees(c) \/ Coming(c)'
  <2>1. CASE c = Updates!Root /\ source \in {"show", "x"}
    <3>1. Updates!StateOf(source) \in Deps(c)
        BY <2>1 DEF Deps
    <3>2. QED
        BY <1>13, <3>1
  <2>2. CASE c = Updates!Root /\ source \notin {"show", "x"}
      BY <1>8, <2>2 DEF Updates!Sees
  <2>3. CASE c # Updates!Root /\ source = "y"
    <3>1. Updates!StateOf(source) \in Deps(c)
        BY <2>3 DEF Deps
    <3>2. QED
        BY <1>13, <3>1
  <2>4. CASE c # Updates!Root /\ source # "y"
      BY <1>1, <1>8, <2>4 DEF Updates!Sees
  <2>5. QED
      BY <2>1, <2>2, <2>3, <2>4
<1>15. source \in {"show", "x"} => Coming(Updates!Root)'
  <2>1. source \in {"show", "x"} => Updates!StateOf(source) \in Deps(Updates!Root)
      BY DEF Deps
  <2>2. QED
      BY <1>10, <1>13, <2>1
<1>16. Page'
  <2>1. \A c \in Updates!Mounted : shown[c] = Updates!Sees(c) \/ Coming(c)
      BY <1>9 DEF Page
  <2>2. \A c \in Updates!Mounted' : shown'[c] = Updates!Sees(c)' \/ Coming(c)'
      BY <1>1, <1>10, <1>12, <1>14, <2>1
  <2>3. state'.show = (Updates!CurrentChild' # {}) \/ Coming(Updates!Root)'
      BY <1>8, <1>9, <1>10, <1>12, <1>15 DEF Page
  <2>4. \A c \in Updates!CurrentChild' : props'[c] = state'.x \/ Coming(Updates!Root)' \/ next'[c] = <<state'.x>>
    <3>1. \A c \in Updates!CurrentChild : props[c] = state.x \/ Coming(Updates!Root)
        BY <1>9, <1>10, <1>11 DEF Page, Updates!CurrentChild
    <3>2. QED
        BY <1>1, <1>8, <1>10, <1>12, <1>15, <3>1
  <2>5. QED
      BY <1>9, <1>10, <2>2, <2>3, <2>4 DEF Page
<1>17. Tracking'
  <2>1. ASSUME NEW c \in Updates!Instance, Scheduled(stack', Updates!Watch(c)) PROVE instance[c] # "new"
    <3>1. CASE Scheduled(stack, Updates!Watch(c))
        BY <1>9, <3>1 DEF Tracking
    <3>2. CASE Scheduled(made, Updates!Watch(c))
      <4>1. <<Updates!StateOf(source), Updates!Watch(c)>> \in tracked
          BY <1>3, <3>2 DEF Scheduled
      <4>2. PICK d \in Updates!Mounted : Updates!Watch(c) \in {Updates!Update(d), Updates!Watch(d)}
          BY <1>9, <4>1 DEF Tracking
      <4>3. c = d
          BY <4>2, TasksDiffer
      <4>4. QED
          BY <4>3 DEF Updates!Mounted
    <3>3. QED
        BY <1>5, <2>1, <3>1, <3>2
  <2>2. \A c \in Updates!Instance : UpdateAt(stack', c, {"render"}) <=> UpdateAt(stack, c, {"render"})
      BY <1>5
  <2>3. QED
      BY <1>1, <1>9, <1>10, <2>1, <2>2 DEF Tracking
<1>18. Telling'
  <2>1. ASSUME NEW c \in Updates!Mounted PROVE Updates!Watched(c)' = Updates!Watched(c) \/ WatchComing(c)'
    <3>1. CASE c = Updates!Root /\ source = "y"
      <4>1. Updates!Watch(c) \in Updates!Watches /\ <<Updates!StateOf(source), Updates!Watch(c)>> \in tracked
          BY <1>9, <1>10, <3>1, TasksDiffer DEF Tracking, WatchDep
      <4>2. Scheduled(stack', Updates!Watch(c))
          BY <1>3, <1>5, <4>1
      <4>3. QED
          BY <4>2 DEF WatchComing
    <3>2. CASE ~(c = Updates!Root /\ source = "y")
        BY <1>1, <1>8, <3>2 DEF Updates!Watched
    <3>3. QED
        BY <3>1, <3>2
  <2>2. \A c \in Updates!Mounted : told[c] = Updates!Watched(c) \/ WatchComing(c) \/ c \in nested
      BY <1>9 DEF Telling
  <2>3. \A c \in Updates!Mounted' : told'[c] = Updates!Watched(c)' \/ WatchComing(c)' \/ c \in nested'
      BY <1>1, <1>10, <1>12, <2>1, <2>2
  <2>4. \A c \in Updates!Instance \ nested' : IsTold(c)'
      BY <1>1, <1>5, <1>9 DEF Telling, IsTold
  <2>5. (HasJob(stack') => mode = "sync") /\ (nested # {} => mode = "sync")
      BY <1>5, <1>9 DEF Telling
  <2>6. QED
      BY <1>1, <2>3, <2>4, <2>5 DEF Telling
<1>19. ComponentTypes'
    BY <1>1, <1>8, <1>9 DEF ComponentTypes
<1>20. Taking'
    BY <1>1, <1>11 DEF Taking
<1>21. QED
    BY <1>7, <1>16, <1>17, <1>18, <1>19, <1>20 DEF ComponentInv

LEMMA OutsideWritesKeeps ==
    ASSUME SchedulerInv, ComponentInv, Updates!OutsideWrites
    PROVE  SchedulerInv' /\ ComponentInv'
<1>1. stack = <<>>
    BY DEF Updates!OutsideWrites
<1>2. PICK source \in Updates!Source : Updates!Writes(source, <<>>)
    BY DEF Updates!OutsideWrites
<1>3. Updates!Writes(source, stack)
    BY <1>1, <1>2
<1>4. \A c \in Updates!Instance : ~Takes(c)
    BY <1>1 DEF Takes
<1>5. QED
    BY <1>1, <1>3, <1>4, WritesKeeps

LEMMA CallbackWritesKeeps ==
    ASSUME SchedulerInv, ComponentInv, Updates!CallbackWrites
    PROVE  SchedulerInv' /\ ComponentInv'
<1>1. Head(stack).at \in {"callback", "runs"} /\ Head(stack).fn \in {"task", "job"}
    BY DEF Updates!CallbackWrites, Updates!Works, Updates!Jobs
<1>2. PICK source \in Updates!Source : Updates!Writes(source, stack)
    BY DEF Updates!CallbackWrites
<1>3. \A c \in Updates!Instance : ~Takes(c)
    BY <1>1 DEF Takes
<1>4. ~(stack # <<>> /\ Head(stack).fn = "flushJobs" /\ Head(stack).at = "pre")
    BY <1>1
<1>5. QED
    BY <1>2, <1>3, <1>4, WritesKeeps

-----------------------------------------------------------------------------
(* The invariant.                                                          *)

LEMMA InitHolds ==
    ASSUME Updates!Init
    PROVE  SchedulerInv /\ ComponentInv
<1>1. /\ queue = <<>> /\ flushIndex = 0 /\ isFlushing = FALSE /\ isFlushPending = FALSE
      /\ pendingPre = <<>> /\ activePre = <<>> /\ preIndex = 0 /\ parentJob = NoUpdate
      /\ pendingPost = <<>> /\ activePost = <<>> /\ postIndex = 0
      /\ stack = <<>>
    BY DEF Updates!Init, Updates!S!Init, NoUpdate
<1>2. /\ state = [show |-> FALSE, x |-> Updates!First, y |-> Updates!First, writes |-> 0]
      /\ instance = [c \in Updates!Instance |-> IF c = Updates!Root THEN "mounted" ELSE "new"]
      /\ props = [c \in Updates!Instance |-> Updates!First]
      /\ next = [c \in Updates!Instance |-> <<>>]
      /\ tracked = {<<Updates!StateOf("show"), Updates!Update(Updates!Root)>>, <<Updates!StateOf("x"), Updates!Update(Updates!Root)>>,
                    <<Updates!StateOf("y"), Updates!Watch(Updates!Root)>>}
      /\ shown = [c \in Updates!Instance |-> IF c = Updates!Root THEN <<FALSE, Updates!First>> ELSE <<Updates!First, Updates!First>>]
      /\ oldValue = [c \in Updates!Instance |-> Updates!First]
      /\ newValue = [c \in Updates!Instance |-> <<>>]
      /\ told = [c \in Updates!Instance |-> Updates!First]
      /\ nested = {}
    BY DEF Updates!Init
<1>3. \A i \in 1..Len(stack) : FALSE
    BY <1>1
<1>4. \A n : ~OnLevel(stack, n)
    BY <1>3 DEF OnLevel
<1>5. SchedulerTypes
  <2>1. \A T : <<>> \in Seq(T)
      OBVIOUS
  <2>2. QED
      BY <1>1, <2>1 DEF SchedulerTypes
<1>6. Stacked
    BY <1>1, <1>3 DEF Stacked, Nested
<1>7. Flags
    BY <1>1, <1>3 DEF Flags, NoFlushing, LeftOver
<1>8. Indexed
    BY <1>1, <1>4 DEF Indexed
<1>9. Looping
    BY <1>1 DEF Looping
<1>10. Updates!Root \in Updates!Instance /\ Updates!Mounted = {Updates!Root} /\ Updates!CurrentChild = {}
  <2>1. Updates!Root \in Updates!Instance
      BY DEF Updates!Instance
  <2>2. \A c \in Updates!Instance : instance[c] = "mounted" <=> c = Updates!Root
      BY <1>2
  <2>3. Updates!Mounted = {Updates!Root}
      BY <2>1, <2>2 DEF Updates!Mounted
  <2>4. QED
      BY <2>1, <2>3 DEF Updates!CurrentChild
<1>11. ComponentTypes
    BY <1>2 DEF ComponentTypes
<1>12. Tracking
  <2>1. \A p \in tracked : p[2] \in {Updates!Update(Updates!Root), Updates!Watch(Updates!Root)}
      BY <1>2
  <2>2. \A e \in Deps(Updates!Root) : <<e, Updates!Update(Updates!Root)>> \in tracked
      BY <1>2 DEF Deps
  <2>3. <<WatchDep(Updates!Root), Updates!Watch(Updates!Root)>> \in tracked
      BY <1>2 DEF WatchDep
  <2>4. \A c \in Updates!Instance : ~Scheduled(stack, Updates!Watch(c)) /\ ~UpdateAt(stack, c, {"render"})
      BY <1>3 DEF Scheduled, UpdateAt
  <2>5. QED
      BY <1>10, <2>1, <2>2, <2>3, <2>4 DEF Tracking
<1>13. Taking
    BY <1>2 DEF Taking
<1>14. Page
    BY <1>2, <1>10 DEF Page, Updates!Sees
<1>15. Telling
  <2>1. told[Updates!Root] = Updates!Watched(Updates!Root)
      BY <1>2, <1>10 DEF Updates!Watched
  <2>2. \A c \in Updates!Instance : IsTold(c)
      BY <1>2, <1>3 DEF IsTold, NoCallback
  <2>3. ~HasJob(stack)
      BY <1>3 DEF HasJob
  <2>4. QED
      BY <1>2, <1>10, <2>1, <2>2, <2>3 DEF Telling
<1>16. QED
    BY <1>5, <1>6, <1>7, <1>8, <1>9, <1>11, <1>12, <1>13, <1>14, <1>15 DEF SchedulerInv, ComponentInv

\* Nothing happens.
LEMMA StutterKeeps ==
    ASSUME SchedulerInv, ComponentInv, UNCHANGED Updates!vars
    PROVE  SchedulerInv' /\ ComponentInv'
<1>1. UNCHANGED <<queue, flushIndex, isFlushing, isFlushPending, pendingPre, activePre, preIndex,
                  parentJob, pendingPost, activePost, postIndex, stack>>
    BY DEF Updates!vars, Updates!schedulerVars, Updates!queueVars, Updates!preVars, Updates!postVars
<1>2. UNCHANGED <<state, mode, instance, props, next, tracked, shown, oldValue, newValue, told, nested>>
    BY DEF Updates!vars, Updates!componentVars
<1>3. SchedulerInv'
    BY <1>1 DEF SchedulerInv, SchedulerTypes, Stacked, Flags, LeftOver, Indexed, Looping
<1>4. \A c : (Coming(c)' <=> Coming(c)) /\ (WatchComing(c)' <=> WatchComing(c))
    BY <1>1 DEF Coming, WatchComing, UpdateWaits, WatchWaits, FirstUpdate, FirstPre, FirstPost
<1>5. Updates!Mounted' = Updates!Mounted /\ Updates!CurrentChild' = Updates!CurrentChild
    BY <1>2 DEF Updates!Mounted, Updates!CurrentChild
<1>6. ComponentTypes'
    BY <1>2 DEF ComponentInv, ComponentTypes
<1>7. Tracking'
    BY <1>1, <1>2, <1>5 DEF ComponentInv, Tracking
<1>8. Taking'
    BY <1>1, <1>2, <1>5 DEF ComponentInv, Taking, Takes
<1>9. Page'
  <2>1. \A c : Updates!Sees(c)' = Updates!Sees(c)
      BY <1>2 DEF Updates!Sees
  <2>2. QED
      BY <1>2, <1>4, <1>5, <2>1 DEF ComponentInv, Page
<1>10. Telling'
  <2>1. \A c : Updates!Watched(c)' = Updates!Watched(c) /\ (IsTold(c)' <=> IsTold(c))
      BY <1>1, <1>2 DEF Updates!Watched, IsTold
  <2>2. QED
      BY <1>1, <1>2, <1>4, <1>5, <2>1 DEF ComponentInv, Telling
<1>11. QED
    BY <1>3, <1>6, <1>7, <1>8, <1>9, <1>10 DEF ComponentInv

\* No step of the scheduler is of a parent's call to update a child.
LEMMA SchedulerTakesNone ==
    ASSUME Updates!SchedulerProceeds, ~thrown
    PROVE  \A c : ~Takes(c)
<1>1. stack = <<>> \/ Head(stack).fn # "update"
  <2>1. Updates!S!FlushBegins => stack = <<>>
      BY DEF Updates!S!FlushBegins
  <2>2. Updates!S!FlushRestarts \/ Updates!S!QueueIsSorted \/ Updates!S!NextJobRuns \/ Updates!S!QueueIsDone \/ Updates!S!FlushEnds
            \/ Updates!S!OuterFlushEnds => Head(stack).fn = "flushJobs"
      BY DEF Updates!S!FlushRestarts, Updates!S!QueueIsSorted, Updates!S!NextJobRuns, Updates!S!QueueIsDone, Updates!S!FlushEnds,
             Updates!S!OuterFlushEnds, Updates!S!Runs
  <2>3. Updates!S!PreCbsBegin \/ Updates!S!NextPreCbRuns \/ Updates!S!PreCbsEnd => Head(stack).fn = "flushPre"
      BY DEF Updates!S!PreCbsBegin, Updates!S!NextPreCbRuns, Updates!S!PreCbsEnd, Updates!S!Runs
  <2>4. Updates!S!PostCbsBegin \/ Updates!S!NextPostCbRuns \/ Updates!S!PostCbsEnd => Head(stack).fn = "flushPost"
      BY DEF Updates!S!PostCbsBegin, Updates!S!NextPostCbRuns, Updates!S!PostCbsEnd, Updates!S!Runs
  <2>5. ~Updates!S!Unwinds
      BY DEF Updates!S!Unwinds
  <2>6. QED
      BY <2>1, <2>2, <2>3, <2>4, <2>5 DEF Updates!SchedulerProceeds
<1>2. QED
    BY <1>1 DEF Takes

\* No update is cut off: every step keeps the invariant.
LEMMA NextKeeps ==
    ASSUME SchedulerInv, ComponentInv, Updates!Next, ~thrown, ~thrown'
    PROVE  SchedulerInv' /\ ComponentInv'
<1>1. CASE Updates!SchedulerProceeds
  <2>1. SchedulerInv' /\ WorkKept
      BY <1>1, SchedulerKeeps
  <2>2. \A c \in Updates!Instance : ~Takes(c)
      BY <1>1, SchedulerTakesNone
  <2>3. UNCHANGED Updates!componentVars
      BY <1>1 DEF Updates!SchedulerProceeds
  <2>4. QED
      BY <2>1, <2>2, <2>3, ComponentsKept
<1>2. CASE Updates!UpdateIsScheduled \/ Updates!WatchIsScheduled \/ Updates!UpdateQueuesHook \/ Updates!UpdateEnds \/ Updates!HookEnds
  <2>1. SchedulerInv' /\ WorkKept
      BY <1>2, UpdateIsScheduledKeeps, WatchIsScheduledKeeps, UpdateQueuesHookKeeps, UpdateEndsKeeps,
         HookEndsKeeps
  <2>2. Head(stack).fn \in {"schedule", "task"} \/ Head(stack).at # "runs"
      BY <1>2 DEF Updates!UpdateIsScheduled, Updates!WatchIsScheduled, Updates!UpdateQueuesHook, Updates!UpdateEnds, Updates!HookEnds, Updates!Works
  <2>3. \A c \in Updates!Instance : ~Takes(c)
      BY <2>2 DEF Takes
  <2>4. UNCHANGED Updates!componentVars
      BY <1>2 DEF Updates!UpdateIsScheduled, Updates!WatchIsScheduled, Updates!UpdateQueuesHook, Updates!UpdateEnds, Updates!HookEnds
  <2>5. QED
      BY <2>1, <2>3, <2>4, ComponentsKept
<1>3. CASE Updates!WatchJobGets \/ Updates!WatchCallbackEnds
    BY <1>3, WatchJobGetsKeeps, WatchCallbackEndsKeeps
<1>4. CASE Updates!UpdateBegins \/ Updates!ChildRenders
    BY <1>4, UpdateBeginsKeeps, ChildRendersKeeps
<1>5. CASE Updates!RootRendersSame \/ Updates!RootRendersNewChild \/ Updates!RootRemovesChild
    BY <1>5, RootRendersSameKeeps, RootRendersNewChildKeeps, RootRemovesChildKeeps
<1>6. CASE Updates!OutsideWrites \/ Updates!CallbackWrites
    BY <1>6, OutsideWritesKeeps, CallbackWritesKeeps
<1>7. QED
    BY <1>1, <1>2, <1>3, <1>4, <1>5, <1>6 DEF Updates!Next, Updates!Proceeds

\* When no update is under way or to come, what was to come has come.
LEMMA InvImplies ==
    ASSUME SchedulerInv, ComponentInv
    PROVE  Updates!PageIsCurrent /\ Updates!WatchersAreTold /\ Updates!GoneIsUntracked
<1>1. SchedulerTypes /\ Flags /\ Looping /\ Taking /\ Page /\ Telling /\ Tracking
    BY DEF SchedulerInv, ComponentInv
<1>2. Updates!Mounted \subseteq Updates!Instance /\ Updates!CurrentChild \subseteq Updates!Mounted /\ Updates!Root \in Updates!Mounted
    BY <1>1 DEF Updates!Mounted, Updates!CurrentChild, Page
<1>3. ASSUME Updates!Idle
      PROVE  /\ \A c \in Updates!Instance : ~Coming(c) /\ next[c] = <<>>
             /\ \A c \in Updates!Instance : WatchComing(c) => Updates!S!Includes(pendingPre, Updates!Watch(c), 0)
  <2>1. stack = <<>> /\ ~isFlushPending /\ ~isFlushing
      BY <1>3 DEF Updates!Idle
  <2>2. queue = <<>> /\ pendingPost = <<>>
      BY <1>1, <2>1 DEF Flags, LeftOver
  <2>3. \A i \in 1..Len(stack) : FALSE
      BY <2>1
  <2>4. activePre = <<>> /\ activePost = <<>>
      BY <1>1, <2>3 DEF Looping, Loops
  <2>5. \A n, t : ~Ahead(<<>>, n, t)
      BY DEF Ahead
  <2>6. \A c : ~Coming(c)
      BY <2>2, <2>3, <2>5 DEF Coming, UpdateWaits, Scheduled, UpdateAt
  <2>7. \A c \in Updates!Instance : next[c] = <<>>
      BY <1>1, <2>1 DEF Taking, Takes
  <2>8. \A c : WatchComing(c) => Ahead(pendingPre, 0, Updates!Watch(c))
      BY <2>2, <2>3, <2>4, <2>5 DEF WatchComing, WatchWaits, Scheduled, RunsWatch
  <2>9. \A c : Ahead(pendingPre, 0, Updates!Watch(c)) => Updates!S!Includes(pendingPre, Updates!Watch(c), 0)
      BY DEF Ahead, Updates!S!Includes
  <2>10. QED
      BY <2>6, <2>7, <2>8, <2>9
<1>4. Updates!PageIsCurrent
  <2>1. ASSUME Updates!Idle PROVE state.show = (Updates!CurrentChild # {}) /\ \A c \in Updates!Mounted : shown[c] = Updates!Sees(c)
      BY <1>1, <1>2, <1>3, <2>1 DEF Page
  <2>2. ASSUME Updates!Idle, NEW c \in Updates!CurrentChild PROVE props[c] = state.x
    <3>1. ~Coming(Updates!Root) /\ \A d \in Updates!Instance : next[d] = <<>>
        BY <1>2, <1>3, <2>2
    <3>2. next[c] = <<>>
        BY <1>2, <2>2, <3>1
    <3>3. next[c] # <<state.x>>
        BY <3>2
    <3>4. QED
        BY <1>1, <2>2, <3>1, <3>3 DEF Page
  <2>3. QED
      BY <2>1, <2>2 DEF Updates!PageIsCurrent
<1>5. Updates!WatchersAreTold
  <2> SUFFICES ASSUME Updates!Idle, NEW c \in Updates!Mounted
               PROVE  \/ told[c] = Updates!Watched(c) \/ Updates!S!Includes(pendingPre, Updates!Watch(c), 0)
                      \/ mode = "sync" /\ c \in nested
      BY DEF Updates!WatchersAreTold
  <2>1. told[c] = Updates!Watched(c) \/ WatchComing(c) \/ c \in nested
      BY <1>1 DEF Telling
  <2>2. c \in nested => mode = "sync"
      BY <1>1 DEF Telling
  <2>3. WatchComing(c) => Updates!S!Includes(pendingPre, Updates!Watch(c), 0)
      BY <1>2, <1>3
  <2>4. QED
      BY <2>1, <2>2, <2>3
<1>6. Updates!GoneIsUntracked
  <2> SUFFICES ASSUME NEW c \in Updates!Instance, instance[c] = "unmounted", NEW p \in tracked
               PROVE  p[2] \notin {Updates!Update(c), Updates!Watch(c)}
      BY DEF Updates!GoneIsUntracked
  <2>1. PICK d \in Updates!Mounted : p[2] \in {Updates!Update(d), Updates!Watch(d)}
      BY <1>1 DEF Tracking
  <2>2. d # c
      BY DEF Updates!Mounted
  <2>3. QED
      BY <2>1, <2>2, TasksDiffer
<1>7. QED
    BY <1>4, <1>5, <1>6

\* What a step may never do to a component that is gone.
Untouched == \A c \in Updates!Instance : instance[c] = "unmounted" => shown'[c] = shown[c] /\ told'[c] = told[c]

\* What renders is there.
LEMMA RendersMounted ==
    ASSUME SchedulerInv, ComponentInv, stack # <<>>, Head(stack).fn \in {"task", "update"},
           Head(stack).at = "render", NEW c \in Updates!Instance, Head(stack).task = Updates!Update(c)
    PROVE  instance[c] = "mounted"
<1>1. UpdateAt(stack, c, {"render"})
    BY UpdateOnTop
<1>2. QED
    BY <1>1 DEF ComponentInv, Tracking, Updates!Mounted

LEMMA NextUntouched ==
    ASSUME SchedulerInv, ComponentInv, Updates!Next
    PROVE  Untouched
<1>1. DOMAIN shown = Updates!Instance /\ DOMAIN told = Updates!Instance /\ Updates!Root \in Updates!Instance /\ instance[Updates!Root] = "mounted"
    BY DEF ComponentInv, ComponentTypes, Page, Updates!Mounted
<1>2. CASE Updates!WatchJobGets
  <2>1. shown' = shown
      BY <1>2 DEF Updates!WatchJobGets
  <2>2. \/ told' = told
        \/ /\ instance[Updates!TopTask[2]] = "mounted"
           /\ told' = [told EXCEPT ![Updates!TopTask[2]] = Updates!Watched(Updates!TopTask[2])]
      BY <1>2 DEF Updates!WatchJobGets, Updates!RunnerActive
  <2>3. QED
      BY <1>1, <2>1, <2>2 DEF Untouched
<1>3. CASE Updates!ChildRenders
  <2>1. /\ stack # <<>> /\ Head(stack).fn \in {"task", "update"} /\ Head(stack).at = "render"
        /\ Head(stack).task \in Updates!Updates /\ Updates!Renders(Head(stack).task[2]) /\ told' = told
      BY <1>3 DEF Updates!ChildRenders, Updates!Works, Updates!TopTask, Updates!Updating
  <2>2. PICK c \in Updates!Instance : Head(stack).task = Updates!Update(c) /\ Head(stack).task[2] = c
      BY <2>1, TasksDiffer
  <2>3. instance[c] = "mounted"
      BY <2>1, <2>2, RendersMounted
  <2>4. shown' = [shown EXCEPT ![c] = Updates!Sees(c)]
      BY <2>1, <2>2 DEF Updates!Renders
  <2>5. QED
      BY <1>1, <2>1, <2>3, <2>4 DEF Untouched
<1>4. CASE Updates!RootRendersSame \/ Updates!RootRemovesChild
  <2>1. shown' = [shown EXCEPT ![Updates!Root] = Updates!Sees(Updates!Root)] /\ told' = told
      BY <1>4 DEF Updates!RootRendersSame, Updates!RootRemovesChild, Updates!Renders
  <2>2. QED
      BY <1>1, <2>1 DEF Untouched
<1>5. CASE Updates!RootRendersNewChild
  <2>1. PICK c \in Updates!Instance :
          /\ instance[c] = "new"
          /\ shown' = [shown EXCEPT ![Updates!Root] = Updates!Sees(Updates!Root), ![c] = <<state.x, state.y>>]
          /\ told' = [told EXCEPT ![c] = state.x]
      BY <1>5 DEF Updates!RootRendersNewChild
  <2>2. QED
      BY <1>1, <2>1 DEF Untouched
<1>6. CASE UNCHANGED <<shown, told>>
    BY <1>6 DEF Untouched
<1>7. CASE Updates!SchedulerProceeds \/ Updates!UpdateIsScheduled \/ Updates!WatchIsScheduled \/ Updates!UpdateQueuesHook
           \/ Updates!UpdateEnds \/ Updates!HookEnds
    BY <1>6, <1>7 DEF Updates!SchedulerProceeds, Updates!UpdateIsScheduled, Updates!WatchIsScheduled, Updates!UpdateQueuesHook,
       Updates!UpdateEnds, Updates!HookEnds, Updates!componentVars
<1>8. CASE Updates!UpdateBegins \/ Updates!WatchCallbackEnds
    BY <1>6, <1>8 DEF Updates!UpdateBegins, Updates!WatchCallbackEnds
<1>9. CASE Updates!OutsideWrites \/ Updates!CallbackWrites
    BY <1>6, <1>9 DEF Updates!OutsideWrites, Updates!CallbackWrites, Updates!Writes
<1>10. QED
    BY <1>2, <1>3, <1>4, <1>5, <1>7, <1>8, <1>9 DEF Updates!Next, Updates!Proceeds

-----------------------------------------------------------------------------
(* Side by side: where another part runs, the components stay as they are.  *)

\* No update is cut off by RECURSION_LIMIT.
NoneIsCutOff == part = "updates" => ~thrown

PageInv == part = "updates" => SchedulerInv /\ ComponentInv
StillInv ==
    part # "updates" =>
        /\ state = [show |-> FALSE, x |-> Updates!First, y |-> Updates!First, writes |-> 0]
        /\ instance = [c \in Updates!Instance |-> IF c = Updates!Root THEN "mounted" ELSE "new"]
        /\ shown = [c \in Updates!Instance |-> IF c = Updates!Root THEN <<FALSE, Updates!First>> ELSE <<Updates!First, Updates!First>>]

LEMMA BothInit ==
    ASSUME MCInit
    PROVE  PageInv /\ StillInv
<1>1. Updates!Init
    BY DEF MCInit
<1>2. SchedulerInv /\ ComponentInv
    BY <1>1, InitHolds
<1>3. QED
    BY <1>1, <1>2 DEF PageInv, StillInv, Updates!Init

\* A step of the composition is one of the components, or leaves them alone.
LEMMA NextOfPart ==
    ASSUME [MCNext]_mcVars
    PROVE  /\ part' = part
           /\ part = "updates" => [Updates!Next]_Updates!vars
           /\ part # "updates" => UNCHANGED Updates!componentVars
<1>1. CASE Scheduler(Next) \/ React(Reactivity!Next) \/ Load(Async!Next) \/ Keep(KeepAlive!Next)
    BY <1>1 DEF Scheduler, React, Load, Keep, componentVars, Updates!componentVars, schedulerVars, Updates!vars,
       Updates!schedulerVars, Updates!queueVars, Updates!preVars, Updates!postVars, queueVars, preVars, postVars
<1>2. CASE Update(Updates!Next)
    BY <1>2 DEF Update
<1>3. CASE UNCHANGED mcVars
    BY <1>3 DEF mcVars, componentVars, Updates!componentVars, schedulerVars, Updates!vars,
       Updates!schedulerVars, Updates!queueVars, Updates!preVars, Updates!postVars, queueVars, preVars, postVars
<1>4. QED
    BY <1>1, <1>2, <1>3 DEF MCNext

LEMMA BothNext ==
    ASSUME PageInv, StillInv, [MCNext]_mcVars, NoneIsCutOff, NoneIsCutOff'
    PROVE  PageInv' /\ StillInv'
<1>1. /\ part' = part
      /\ part = "updates" => [Updates!Next]_Updates!vars
      /\ part # "updates" => UNCHANGED Updates!componentVars
    BY NextOfPart
<1>2. CASE part = "updates"
  <2>1. SchedulerInv /\ ComponentInv /\ ~thrown /\ ~thrown'
      BY <1>1, <1>2 DEF PageInv, NoneIsCutOff
  <2>2. SchedulerInv' /\ ComponentInv'
      BY <1>1, <1>2, <2>1, NextKeeps, StutterKeeps
  <2>3. QED
      BY <1>1, <1>2, <2>2 DEF PageInv, StillInv
<1>3. CASE part # "updates"
  <2>1. UNCHANGED <<state, instance, shown>>
      BY <1>1, <1>3 DEF Updates!componentVars
  <2>2. QED
      BY <1>1, <1>3, <2>1 DEF PageInv, StillInv
<1>4. QED
    BY <1>2, <1>3

LEMMA BothImply ==
    ASSUME PageInv, StillInv
    PROVE  PageIsCurrent /\ (part = "updates" => Updates!WatchersAreTold)
<1>1. CASE part = "updates"
    BY <1>1, InvImplies DEF PageInv, PageIsCurrent
<1>2. CASE part # "updates"
  <2>1. /\ state.show = FALSE /\ state.x = Updates!First
        /\ \A c \in Updates!Instance : instance[c] = IF c = Updates!Root THEN "mounted" ELSE "new"
        /\ \A c \in Updates!Instance : shown[c] = IF c = Updates!Root THEN <<FALSE, Updates!First>> ELSE <<Updates!First, Updates!First>>
    <3>1. /\ state = [show |-> FALSE, x |-> Updates!First, y |-> Updates!First, writes |-> 0]
          /\ instance = [c \in Updates!Instance |-> IF c = Updates!Root THEN "mounted" ELSE "new"]
          /\ shown = [c \in Updates!Instance |-> IF c = Updates!Root THEN <<FALSE, Updates!First>> ELSE <<Updates!First, Updates!First>>]
        BY <1>2 DEF StillInv
    <3>2. state.show = FALSE /\ state.x = Updates!First
        BY <3>1
    <3>3. /\ \A c \in Updates!Instance : instance[c] = IF c = Updates!Root THEN "mounted" ELSE "new"
          /\ \A c \in Updates!Instance : shown[c] = IF c = Updates!Root THEN <<FALSE, Updates!First>> ELSE <<Updates!First, Updates!First>>
        BY <3>1
    <3>4. QED
        BY <3>2, <3>3
  <2>2. \A c \in Updates!Mounted : c = Updates!Root /\ shown[c] = <<FALSE, Updates!First>>
      BY <2>1 DEF Updates!Mounted
  <2>3. Updates!CurrentChild = {}
      BY <2>2 DEF Updates!CurrentChild
  <2>4. Updates!PageIsCurrent
      BY <2>1, <2>2, <2>3 DEF Updates!PageIsCurrent, Updates!Sees
  <2>5. Updates!GoneIsUntracked
      BY <2>1 DEF Updates!GoneIsUntracked
  <2>6. QED
      BY <1>2, <2>4, <2>5 DEF PageIsCurrent
<1>3. QED
    BY <1>1, <1>2

LEMMA BothUntouched ==
    ASSUME PageInv, [MCNext]_mcVars
    PROVE  [Untouched]_Updates!vars
<1>1. /\ part = "updates" => [Updates!Next]_Updates!vars
      /\ part # "updates" => UNCHANGED Updates!componentVars
    BY NextOfPart
<1>2. CASE part = "updates"
    BY <1>1, <1>2, NextUntouched DEF PageInv
<1>3. CASE part # "updates"
    BY <1>1, <1>3 DEF Updates!componentVars, Untouched
<1>4. QED
    BY <1>2, <1>3

\* setupRenderEffect and unmountComponent: as long as no update is cut off, the page is what
\* the state says when no update is under way or to come, and no effect of a component that
\* is gone is tracked.
THEOREM PageStaysCurrent == MCSpec /\ []NoneIsCutOff => []PageIsCurrent
<1>1. MCInit => PageInv /\ StillInv
    BY BothInit
<1>2. PageInv /\ StillInv /\ [MCNext]_mcVars /\ NoneIsCutOff /\ NoneIsCutOff' => PageInv' /\ StillInv'
    BY BothNext
<1>3. PageInv /\ StillInv => PageIsCurrent
    BY BothImply
<1>4. QED
    BY <1>1, <1>2, <1>3, PTL DEF MCSpec

\* doWatch: as long as no update is cut off, every watcher's callback has had the current
\* value then, or waits for a flush; and nothing runs for a component that is gone.
THEOREM WatchersStayTold == MCSpec /\ []NoneIsCutOff => WatchersAreTold
<1>1. MCInit => PageInv /\ StillInv
    BY BothInit
<1>2. PageInv /\ StillInv /\ [MCNext]_mcVars /\ NoneIsCutOff /\ NoneIsCutOff' => PageInv' /\ StillInv'
    BY BothNext
<1>3. PageInv /\ StillInv => (part = "updates" => Updates!WatchersAreTold)
    BY BothImply
<1>4. PageInv /\ [MCNext]_mcVars => [Untouched]_Updates!vars
    BY BothUntouched
<1>5. [][Untouched]_Updates!vars => Updates!GoneStaysGone
    BY PTL DEF Updates!GoneStaysGone, Untouched
<1>6. QED
    BY <1>1, <1>2, <1>3, <1>4, <1>5, PTL DEF MCSpec, WatchersAreTold
=============================================================================
