------------------------- MODULE VueSchedulerProofs -------------------------
(***************************************************************************)
(* Proofs about VueScheduler, for any tasks that queue, remove, flush and  *)
(* throw as they like: when the scheduler is at rest, it has left no       *)
(* update and no post callback behind; meanwhile the queue is in order and *)
(* loses no job, and only an exception of a callback stops the scheduler.  *)
(***************************************************************************)
EXTENDS VueScheduler, SequenceTheorems, FunctionTheorems, FiniteSetTheorems, TLAPS

\* The calls, for any set T that holds their tasks: what queue's sort makes of the
\* tasks does not matter here.
Places == {"pre", "sort", "jobs", "finally", "failed", "ends", "throws", "begin", "loop", "runs"}
Frames(T) ==
    [fn : {"flushJobs", "flushPre", "flushPost", "task"}, at : Places,
     seen : [Task -> Nat], task : T, left : Nat]

\* A flushJobs that is between its first and its last line, and one that waits for
\* the flush that it has restarted.
Busy(f) == f.fn = "flushJobs" /\ f.at \in {"sort", "jobs", "finally", "failed"}
Outer(f) == f.fn = "flushJobs" => f.at \in {"ends", "throws"}

NoneBusy(s) == \A i \in 1..Len(s) : ~Busy(s[i])
AllOuter(s) == \A i \in 1..Len(s) : Outer(s[i])

\* Only the innermost flushJobs works; those around it wait.
OneFlush(s) ==
    \A k \in 1..Len(s) : \A i \in 1..k - 1 : s[i].fn = "flushJobs" => Outer(s[k])

\* What was queued is not forgotten: a flush is to come or under way, or begins again.
Left == queue # <<>> \/ pendingPost # <<>>
Restarts == stack # <<>> /\ ~thrown /\ stack[1].fn = "flushJobs" /\ stack[1].at = "pre"

IInv ==
    /\ isFlushing \in BOOLEAN /\ isFlushPending \in BOOLEAN /\ thrown \in BOOLEAN
    /\ \E T : stack \in Seq(Frames(T))
    /\ OneFlush(stack)
    /\ ~isFlushing => NoneBusy(stack)
    /\ Left /\ ~isFlushing /\ ~isFlushPending => Restarts

-----------------------------------------------------------------------------
(* The stacks that a step makes.                                           *)

\* What is in a stack is in one over a larger set of tasks.
LEMMA MoreTasks ==
    ASSUME NEW T, NEW U, T \subseteq U, NEW s \in Seq(Frames(T))
    PROVE  s \in Seq(Frames(U))
<1>1. Frames(T) \subseteq Frames(U)
  BY DEF Frames
<1> QED
  BY <1>1

\* The innermost call ends.
LEMMA Popped ==
    ASSUME NEW T, NEW s \in Seq(Frames(T)), s # <<>>
    PROVE  /\ Tail(s) \in Seq(Frames(T)) /\ s[1] \in Frames(T) /\ Head(s) = s[1]
           /\ OneFlush(s) => OneFlush(Tail(s))
           /\ OneFlush(s) /\ s[1].fn = "flushJobs" => AllOuter(Tail(s))
           /\ NoneBusy(s) => NoneBusy(Tail(s))
<1>1. Tail(s) \in Seq(Frames(T)) /\ s[1] \in Frames(T) /\ Head(s) = s[1]
  OBVIOUS
<1>2. Len(Tail(s)) = Len(s) - 1 /\ \A i \in 1..Len(Tail(s)) : Tail(s)[i] = s[i + 1] /\ i + 1 \in 1..Len(s)
  OBVIOUS
<1>3. Len(s) \in Nat \ {0}
  OBVIOUS
<1>4. OneFlush(s) => OneFlush(Tail(s))
  <2> SUFFICES ASSUME OneFlush(s), NEW k \in 1..Len(Tail(s)), NEW i \in 1..k - 1,
                      Tail(s)[i].fn = "flushJobs"
               PROVE  Outer(Tail(s)[k])
    BY DEF OneFlush
  <2>1. Tail(s)[i] = s[i + 1] /\ Tail(s)[k] = s[k + 1] /\ k + 1 \in 1..Len(s) /\ i + 1 \in 1..(k + 1) - 1
    BY <1>2, <1>3
  <2> QED
    BY <2>1 DEF OneFlush
<1>5. OneFlush(s) /\ s[1].fn = "flushJobs" => AllOuter(Tail(s))
  <2> SUFFICES ASSUME OneFlush(s), s[1].fn = "flushJobs", NEW k \in 1..Len(Tail(s))
               PROVE  Outer(Tail(s)[k])
    BY DEF AllOuter
  <2>1. Tail(s)[k] = s[k + 1] /\ k + 1 \in 1..Len(s) /\ 1 \in 1..(k + 1) - 1
    BY <1>2, <1>3
  <2> QED
    BY <2>1 DEF OneFlush
<1>6. NoneBusy(s) => NoneBusy(Tail(s))
  BY <1>2 DEF NoneBusy
<1> QED
  BY <1>1, <1>4, <1>5, <1>6

\* A call is made: the innermost flushJobs is the only one that works.
LEMMA Pushed1 ==
    ASSUME NEW T, NEW s \in Seq(Frames(T)), NEW f \in Frames(T)
    PROVE  /\ <<f>> \o s \in Seq(Frames(T)) /\ <<f>> \o s # <<>> /\ (<<f>> \o s)[1] = f
           /\ AllOuter(s) => OneFlush(<<f>> \o s)
           /\ AllOuter(s) /\ Outer(f) => AllOuter(<<f>> \o s)
           /\ f.fn # "flushJobs" /\ OneFlush(s) => OneFlush(<<f>> \o s)
           /\ ~Busy(f) /\ NoneBusy(s) => NoneBusy(<<f>> \o s)
<1> DEFINE r == <<f>> \o s
<1>1. r \in Seq(Frames(T)) /\ r # <<>> /\ r[1] = f /\ Len(r) = Len(s) + 1 /\ Len(s) \in Nat
  OBVIOUS
<1>2. \A i \in 1..Len(r) : i = 1 \/ (i - 1 \in 1..Len(s) /\ r[i] = s[i - 1])
  OBVIOUS
<1> HIDE DEF r
<1>3. AllOuter(s) => OneFlush(r)
  <2> SUFFICES ASSUME AllOuter(s), NEW k \in 1..Len(r), NEW i \in 1..k - 1
               PROVE  Outer(r[k])
    BY DEF OneFlush
  <2>1. k - 1 \in 1..Len(s) /\ r[k] = s[k - 1]
    BY <1>1, <1>2
  <2> QED
    BY <2>1 DEF AllOuter
<1>4. f.fn # "flushJobs" /\ OneFlush(s) => OneFlush(r)
  <2> SUFFICES ASSUME f.fn # "flushJobs", OneFlush(s), NEW k \in 1..Len(r), NEW i \in 1..k - 1,
                      r[i].fn = "flushJobs"
               PROVE  Outer(r[k])
    BY DEF OneFlush
  <2>1. i \in 1..Len(r) /\ i # 1
    BY <1>1
  <2>2. /\ k - 1 \in 1..Len(s) /\ r[k] = s[k - 1]
        /\ i - 1 \in 1..(k - 1) - 1 /\ r[i] = s[i - 1]
    BY <1>1, <1>2, <2>1
  <2> QED
    BY <2>2 DEF OneFlush
<1>5. ~Busy(f) /\ NoneBusy(s) => NoneBusy(r)
  BY <1>1, <1>2 DEF NoneBusy
<1>6. AllOuter(s) /\ Outer(f) => AllOuter(r)
  BY <1>1, <1>2 DEF AllOuter
<1> QED
  BY <1>1, <1>3, <1>4, <1>5, <1>6 DEF r

\* Two calls at once are one after the other.
LEMMA PushedTwo ==
    ASSUME NEW T, NEW s \in Seq(Frames(T)), NEW f \in Frames(T), NEW g \in Frames(T)
    PROVE  <<f, g>> \o s = <<f>> \o (<<g>> \o s)
<1> DEFINE a == <<f, g>> \o s
           b == <<f>> \o (<<g>> \o s)
<1>1. a \in Seq(Frames(T)) /\ b \in Seq(Frames(T)) /\ Len(s) \in Nat
      /\ Len(a) = Len(s) + 2 /\ Len(b) = Len(s) + 2
  OBVIOUS
<1>2. \A i \in 1..Len(s) + 2 : a[i] = IF i = 1 THEN f ELSE IF i = 2 THEN g ELSE s[i - 2]
  OBVIOUS
<1>3. \A i \in 1..Len(s) + 2 : b[i] = IF i = 1 THEN f ELSE (<<g>> \o s)[i - 1]
  OBVIOUS
<1>4. \A i \in 1..Len(s) + 1 : (<<g>> \o s)[i] = IF i = 1 THEN g ELSE s[i - 1]
  OBVIOUS
<1>5. \A i \in 1..Len(s) + 2 : a[i] = b[i]
  BY <1>1, <1>2, <1>3, <1>4
<1> HIDE DEF a, b
<1>6. a = b
  BY <1>1, <1>5, SeqEqual
<1> QED
  BY <1>6 DEF a, b

\* The innermost call goes on.
LEMMA Changed ==
    ASSUME NEW T, NEW s \in Seq(Frames(T)), s # <<>>, OneFlush(s),
           NEW f \in Frames(T), f.fn = s[1].fn
    PROVE  /\ <<f>> \o Tail(s) \in Seq(Frames(T))
           /\ <<f>> \o Tail(s) # <<>> /\ (<<f>> \o Tail(s))[1] = f
           /\ OneFlush(<<f>> \o Tail(s))
           /\ (Busy(f) => Busy(s[1])) /\ NoneBusy(s) => NoneBusy(<<f>> \o Tail(s))
<1>1. Tail(s) \in Seq(Frames(T)) /\ OneFlush(Tail(s)) /\ (s[1].fn = "flushJobs" => AllOuter(Tail(s)))
  BY Popped
<1>2. NoneBusy(s) => NoneBusy(Tail(s)) /\ ~Busy(s[1])
  <2>1. Len(s) \in Nat \ {0}
    OBVIOUS
  <2> QED
    BY <2>1, Popped DEF NoneBusy
<1> QED
  BY <1>1, <1>2, Pushed1

\* The innermost call goes on and makes another one.
LEMMA Called ==
    ASSUME NEW T, NEW s \in Seq(Frames(T)), s # <<>>, OneFlush(s),
           NEW f \in Frames(T), f.fn = s[1].fn,
           NEW g \in Frames(T), g.fn = "flushJobs" => f.fn = "flushJobs" /\ Outer(f)
    PROVE  /\ <<g, f>> \o Tail(s) \in Seq(Frames(T))
           /\ <<g, f>> \o Tail(s) # <<>> /\ (<<g, f>> \o Tail(s))[1] = g
           /\ OneFlush(<<g, f>> \o Tail(s))
           /\ (Busy(f) => Busy(s[1])) /\ ~Busy(g) /\ NoneBusy(s) => NoneBusy(<<g, f>> \o Tail(s))
           /\ s[1].fn = "flushJobs" /\ ~Busy(f) /\ ~Busy(g) => NoneBusy(<<g, f>> \o Tail(s))
<1> DEFINE r == <<f>> \o Tail(s)
<1>1. Tail(s) \in Seq(Frames(T)) /\ (s[1].fn = "flushJobs" => AllOuter(Tail(s)))
  BY Popped
<1>2. <<g, f>> \o Tail(s) = <<g>> \o r
  BY <1>1, PushedTwo
<1>3. r \in Seq(Frames(T)) /\ OneFlush(r) /\ ((Busy(f) => Busy(s[1])) /\ NoneBusy(s) => NoneBusy(r))
  BY Changed
<1>4. s[1].fn = "flushJobs" /\ Outer(f) => AllOuter(r)
  BY <1>1, Pushed1
<1>5. AllOuter(Tail(s)) => NoneBusy(Tail(s))
  BY <1>1 DEF AllOuter, NoneBusy, Outer, Busy
<1>6. s[1].fn = "flushJobs" /\ ~Busy(f) => NoneBusy(r)
  BY <1>1, <1>5, Pushed1
<1> HIDE DEF r
<1>7. <<g>> \o r \in Seq(Frames(T)) /\ <<g>> \o r # <<>> /\ (<<g>> \o r)[1] = g
  BY <1>3, Pushed1
<1>8. OneFlush(<<g>> \o r)
  BY <1>3, <1>4, Pushed1
<1>9. ~Busy(g) /\ NoneBusy(r) => NoneBusy(<<g>> \o r)
  BY <1>3, Pushed1
<1> QED
  BY <1>2, <1>3, <1>6, <1>7, <1>8, <1>9

-----------------------------------------------------------------------------
(* The inductive invariant.                                                *)

\* It holds before anything was queued.
LEMMA InitIInv == Init => IInv
<1> SUFFICES ASSUME Init
             PROVE  IInv
    OBVIOUS
<1>1. stack \in Seq(Frames({}))
  BY DEF Init
<1>2. OneFlush(stack) /\ NoneBusy(stack)
  BY DEF Init, OneFlush, NoneBusy
<1>3. ~Left
  BY DEF Init, Left
<1>4. isFlushing \in BOOLEAN /\ isFlushPending \in BOOLEAN /\ thrown \in BOOLEAN
  BY DEF Init
<1> QED
  BY <1>1, <1>2, <1>3, <1>4 DEF IInv

\* The innermost call returns to the one below it.
LEMMA Returned ==
    ASSUME NEW T, stack \in Seq(Frames(T)), stack # <<>>, OneFlush(stack), Return
    PROVE  /\ stack' \in Seq(Frames(T))
           /\ OneFlush(stack')
           /\ NoneBusy(stack) => NoneBusy(stack')
           /\ stack[1].fn = "flushJobs" => NoneBusy(stack')
<1> DEFINE t == Tail(stack)
<1>1. /\ t \in Seq(Frames(T)) /\ stack[1] \in Frames(T) /\ Head(stack) = stack[1]
      /\ OneFlush(t) /\ (stack[1].fn = "flushJobs" => AllOuter(t))
      /\ NoneBusy(stack) => NoneBusy(t)
  BY Popped
<1>2. AllOuter(t) => NoneBusy(t)
  BY <1>1 DEF AllOuter, NoneBusy, Outer, Busy
<1>3. CASE ~(t # <<>> /\ t[1].fn = "flushJobs" /\ stack[1].fn # "flushJobs")
  BY <1>1, <1>2, <1>3 DEF Return, Below
<1>4. CASE t # <<>> /\ t[1].fn = "flushJobs" /\ stack[1].fn # "flushJobs"
  <2> DEFINE f == [t[1] EXCEPT !.seen = stack[1].seen]
  <2>1. stack' = <<f>> \o Tail(t)
    BY <1>1, <1>4 DEF Return, Below
  <2>2. t[1] \in Frames(T)
    BY <1>1, <1>4
  <2>3. f \in Frames(T) /\ f.fn = t[1].fn /\ f.at = t[1].at
    BY <1>1, <2>2 DEF Frames
  <2>4. Busy(f) => Busy(t[1])
    BY <2>3 DEF Busy
  <2> HIDE DEF f, t
  <2> QED
    BY <1>1, <1>4, <2>1, <2>3, <2>4, Changed
<1> QED
  BY <1>3, <1>4

\* Nothing is forgotten by a step that queues nothing and leaves the flags alone, unless
\* it was the one that was to begin the flush again.
LEMMA NothingForgotten ==
    ASSUME IInv, ~Restarts, Left' => Left,
           isFlushing' = isFlushing, isFlushPending' = isFlushPending
    PROVE  ~(Left' /\ ~isFlushing' /\ ~isFlushPending')
BY DEF IInv

\* Whatever is queued, a flush is under way or to come.
LEMMA QueueingFlushes ==
    ASSUME IInv, Queues
    PROVE  /\ isFlushing' = isFlushing /\ isFlushPending' \in BOOLEAN
           /\ \/ isFlushing' \/ isFlushPending'
              \/ Left' = Left /\ isFlushPending' = isFlushPending
<1>1. isFlushing \in BOOLEAN /\ isFlushPending \in BOOLEAN
  BY DEF IInv
<1>2. FlushPending => isFlushPending' \in BOOLEAN /\ (isFlushing \/ isFlushPending')
  BY <1>1 DEF FlushPending
<1>3. ASSUME NEW t \in Job, QueueJob(t)
      PROVE  /\ isFlushing' = isFlushing
             /\ FlushPending \/ (Left' = Left /\ isFlushPending' = isFlushPending)
  BY <1>3 DEF QueueJob, queueVars, preVars, postVars, Left
<1>4. ASSUME NEW t \in PreCb, QueuePreFlushCb(t)
      PROVE  isFlushing' = isFlushing /\ FlushPending
  BY <1>4 DEF QueuePreFlushCb, queueVars
<1>5. ASSUME NEW t \in PostCb, QueuePostFlushCb(t)
      PROVE  isFlushing' = isFlushing /\ FlushPending
  BY <1>5 DEF QueuePostFlushCb, queueVars
<1> QED
  BY <1>1, <1>2, <1>3, <1>4, <1>5 DEF Queues

\* A call that goes on at another place, has seen one more task, or has one call less
\* to make, is a call.
LEMMA At ==
    ASSUME NEW T, NEW r \in Frames(T), NEW at \in Places
    PROVE  /\ [r EXCEPT !.at = at] \in Frames(T)
           /\ [r EXCEPT !.at = at].fn = r.fn /\ [r EXCEPT !.at = at].at = at
BY DEF Frames

LEMMA Seen ==
    ASSUME NEW T, NEW r \in Frames(T), NEW t
    PROVE  /\ [r EXCEPT !.seen[t] = @ + 1] \in Frames(T)
           /\ [r EXCEPT !.seen[t] = @ + 1].fn = r.fn
           /\ [r EXCEPT !.seen[t] = @ + 1].at = r.at
           /\ [r EXCEPT !.seen[t] = @ + 1].task = r.task
<1> DEFINE q == [r.seen EXCEPT ![t] = @ + 1]
<1>1. r.seen \in [Task -> Nat]
  BY DEF Frames
<1>2. \A u \in Task : r.seen[u] \in Nat /\ q[u] \in Nat
  BY <1>1
<1>3. q \in [Task -> Nat]
  BY <1>1, <1>2
<1> HIDE DEF q
<1>4. /\ [r EXCEPT !.seen = q] \in Frames(T)
      /\ [r EXCEPT !.seen = q].fn = r.fn /\ [r EXCEPT !.seen = q].at = r.at
      /\ [r EXCEPT !.seen = q].task = r.task
  BY <1>3 DEF Frames
<1> QED
  BY <1>4 DEF q

LEMMA OneLess ==
    ASSUME NEW T, NEW r \in Frames(T), r.left > 0
    PROVE  /\ [r EXCEPT !.left = @ - 1] \in Frames(T)
           /\ [r EXCEPT !.left = @ - 1].fn = r.fn /\ [r EXCEPT !.left = @ - 1].at = r.at
           /\ [r EXCEPT !.left = @ - 1].task = r.task
BY DEF Frames

\* A step that sets no flag, and queues nothing unless a flush is under way, keeps the
\* invariant if what it makes of the stack is in order.
LEMMA InvIsKept ==
    ASSUME IInv, ~Restarts, isFlushing \/ (Left' => Left),
           isFlushing' = isFlushing, isFlushPending' = isFlushPending, thrown' \in BOOLEAN,
           NEW T, stack' \in Seq(Frames(T)), OneFlush(stack'),
           NoneBusy(stack) => NoneBusy(stack')
    PROVE  IInv'
<1>1. isFlushing' \in BOOLEAN /\ isFlushPending' \in BOOLEAN
  BY DEF IInv
<1>2. ~isFlushing' => NoneBusy(stack')
  BY DEF IInv
<1>3. ~(Left' /\ ~isFlushing' /\ ~isFlushPending')
  BY NothingForgotten
<1> QED
  BY <1>1, <1>2, <1>3 DEF IInv

\* The innermost call goes on at another place.
LEMMA WentOn ==
    ASSUME NEW T, stack \in Seq(Frames(T)), stack # <<>>, OneFlush(stack),
           NEW at \in {"sort", "jobs", "finally", "begin", "loop"}, Goes(at),
           Busy(stack[1]) \/ stack[1].fn # "flushJobs"
    PROVE  /\ stack' \in Seq(Frames(T)) /\ OneFlush(stack')
           /\ NoneBusy(stack) => NoneBusy(stack')
<1> DEFINE f == [stack[1] EXCEPT !.at = at]
<1>1. stack[1] \in Frames(T) /\ Head(stack) = stack[1]
  BY Popped
<1>5. at \in Places
  BY DEF Places
<1>2. f \in Frames(T) /\ f.fn = stack[1].fn
  BY <1>1, <1>5, At, ZenonT(60)
<1>3. Busy(f) => Busy(stack[1])
  BY <1>2 DEF Busy
<1>4. stack' = <<f>> \o Tail(stack)
  BY <1>1 DEF Goes, Below
<1> HIDE DEF f
<1> QED
  BY <1>2, <1>3, <1>4, Changed

\* A loop runs a task, or finds that it has run too often.
LEMMA RanTask ==
    ASSUME NEW T, stack \in Seq(Frames(T)), stack # <<>>, OneFlush(stack),
           thrown \in BOOLEAN, NEW t, RunsTask(t)
    PROVE  /\ thrown' \in BOOLEAN
           /\ stack' \in Seq(Frames(T \cup {t})) /\ OneFlush(stack')
           /\ NoneBusy(stack) => NoneBusy(stack')
<1> DEFINE U == T \cup {t}
           f == [stack[1] EXCEPT !.seen[t] = @ + 1]
           g == TaskCall(t)
<1>1. stack \in Seq(Frames(U))
  BY MoreTasks
<1>2. stack[1] \in Frames(U) /\ Head(stack) = stack[1]
  BY <1>1, Popped
<1>3. f.fn = stack[1].fn /\ f.at = stack[1].at
  BY <1>2, Seen
<1>4. f \in Frames(U)
  BY <1>2, Seen
<1>5. g \in Frames(U) /\ g.fn = "task"
  BY TaskAssumption DEF Frames, Places, TaskCall, Call, NotSeen
<1>6. ~Busy(g) /\ (Busy(f) => Busy(stack[1]))
  BY <1>3, <1>5 DEF Busy
<1>7. CASE TooOften(Head(stack).seen, t)
  BY <1>1, <1>7 DEF RunsTask
<1>8. CASE ~TooOften(Head(stack).seen, t)
  <2>1. stack' = <<g, f>> \o Tail(stack) /\ thrown' = thrown
    BY <1>2, <1>8 DEF RunsTask, Below
  <2> HIDE DEF f, g, U
  <2>2. /\ <<g, f>> \o Tail(stack) \in Seq(Frames(U))
        /\ OneFlush(<<g, f>> \o Tail(stack))
        /\ NoneBusy(stack) => NoneBusy(<<g, f>> \o Tail(stack))
    BY <1>1, <1>3, <1>4, <1>5, <1>6, Called
  <2> QED
    BY <2>1, <2>2 DEF U
<1> QED
  BY <1>7, <1>8

\* The finally of a flush calls the callbacks that were waiting for it.
LEMMA Finalized ==
    ASSUME NEW T, stack \in Seq(Frames(T)), stack # <<>>, OneFlush(stack),
           stack[1].fn = "flushJobs", stack[1].at = "jobs",
           NEW at \in {"finally", "failed"}, Finally(at)
    PROVE  /\ stack' \in Seq(Frames(T \cup {NoTask})) /\ OneFlush(stack')
           /\ NoneBusy(stack) => NoneBusy(stack')
<1> DEFINE U == T \cup {NoTask}
           f == [stack[1] EXCEPT !.at = at]
           g == PostCall(stack[1].seen)
<1>1. stack \in Seq(Frames(U))
  BY MoreTasks
<1>2. stack[1] \in Frames(U) /\ Head(stack) = stack[1]
  BY <1>1, Popped
<1>8. at \in Places
  BY DEF Places
<1>3. f \in Frames(U) /\ f.fn = stack[1].fn
  BY <1>2, <1>8, At, ZenonT(60)
<1>4. g \in Frames(U) /\ g.fn = "flushPost"
  BY <1>2 DEF Frames, Places, PostCall, Call
<1>5. ~Busy(g) /\ Busy(stack[1])
  BY <1>4 DEF Busy
<1>6. stack' = <<g, f>> \o Tail(stack)
  BY <1>2 DEF Finally, GoesAndCalls, Below
<1> HIDE DEF f, g, U
<1>7. /\ <<g, f>> \o Tail(stack) \in Seq(Frames(U))
      /\ OneFlush(<<g, f>> \o Tail(stack))
      /\ NoneBusy(stack) => NoneBusy(<<g, f>> \o Tail(stack))
  BY <1>1, <1>3, <1>4, <1>5, Called
<1> QED
  BY <1>6, <1>7 DEF U

\* A task spends one of its calls.
LEMMA Spent ==
    ASSUME NEW T, stack \in Seq(Frames(T)), stack # <<>>, OneFlush(stack), HasCallLeft
    PROVE  /\ SpendsCall \in Seq(Frames(T)) /\ OneFlush(SpendsCall)
           /\ NoneBusy(stack) => NoneBusy(SpendsCall)
<1> DEFINE f == [stack[1] EXCEPT !.left = @ - 1]
<1>1. stack[1] \in Frames(T) /\ Head(stack) = stack[1]
  BY Popped
<1>2. stack[1].fn = "task" /\ stack[1].left > 0
  BY <1>1 DEF HasCallLeft, Runs
<1>3. f \in Frames(T) /\ f.fn = stack[1].fn
  BY <1>1, <1>2, OneLess
<1>4. ~Busy(f)
  BY <1>2, <1>3 DEF Busy
<1>5. SpendsCall = <<f>> \o Tail(stack)
  BY <1>1 DEF SpendsCall, Below
<1> HIDE DEF f
<1> QED
  BY <1>3, <1>4, <1>5, Changed

-----------------------------------------------------------------------------
(* Every step keeps the invariant.                                         *)

\* The steps of flushJobs.
LEMMA JobStep ==
    ASSUME IInv,
           \/ FlushBegins \/ FlushRestarts \/ QueueIsSorted \/ NextJobRuns \/ QueueIsDone
           \/ FlushEnds \/ OuterFlushEnds
    PROVE  IInv'
<1> PICK T : stack \in Seq(Frames(T))
  BY DEF IInv
<1>1. isFlushing \in BOOLEAN /\ isFlushPending \in BOOLEAN /\ thrown \in BOOLEAN /\ OneFlush(stack)
  BY DEF IInv
<1>2. stack # <<>> => stack[1] \in Frames(T) /\ Head(stack) = stack[1]
  BY Popped
<1>3. Len(stack) \in Nat /\ (stack # <<>> => 1 \in 1..Len(stack))
  OBVIOUS
<1>4. stack # <<>> /\ Busy(stack[1]) => isFlushing
  BY <1>1, <1>3 DEF IInv, NoneBusy
<1>5. ASSUME FlushBegins
      PROVE  IInv'
  <2> DEFINE f == PreCall(NotSeen, NoTask)
             g == [JobsCall(NotSeen) EXCEPT !.at = "sort"]
  <2>1. f \in Frames({NoTask}) /\ f.fn = "flushPre"
    BY DEF Frames, Places, PreCall, Call, NotSeen
  <2>2. g \in Frames({NoTask})
    BY DEF Frames, Places, JobsCall, Call, NotSeen
  <2>3. stack' = <<f, g>> /\ isFlushing' = TRUE /\ isFlushPending' = FALSE /\ thrown' = thrown
    BY <1>5 DEF FlushBegins
  <2> HIDE DEF f, g
  <2>4. stack' \in Seq(Frames({NoTask}))
    BY <2>1, <2>2, <2>3
  <2>5. OneFlush(stack')
    BY <2>1, <2>3 DEF OneFlush
  <2> QED
    BY <1>1, <2>3, <2>4, <2>5 DEF IInv
<1>6. ASSUME FlushRestarts
      PROVE  IInv'
  <2> DEFINE U == T \cup {NoTask}
             f == [stack[1] EXCEPT !.at = "sort"]
             g == PreCall(stack[1].seen, NoTask)
  <2>1. stack \in Seq(Frames(U)) /\ stack # <<>> /\ stack[1].fn = "flushJobs"
    BY <1>2, <1>6, MoreTasks DEF FlushRestarts, Runs
  <2>2. stack[1] \in Frames(U) /\ Head(stack) = stack[1]
    BY <2>1, Popped
  <2>3. f \in Frames(U) /\ f.fn = stack[1].fn
    BY <2>2, At, ZenonT(60) DEF Places
  <2>4. g \in Frames(U) /\ g.fn = "flushPre"
    BY <2>2 DEF Frames, Places, PreCall, Call
  <2>5. /\ stack' = <<g, f>> \o Tail(stack)
        /\ isFlushing' = TRUE /\ isFlushPending' = FALSE /\ thrown' = thrown
    BY <1>6, <2>2 DEF FlushRestarts, GoesAndCalls, Below
  <2> HIDE DEF f, g, U
  <2>6. <<g, f>> \o Tail(stack) \in Seq(Frames(U)) /\ OneFlush(<<g, f>> \o Tail(stack))
    BY <1>1, <2>1, <2>3, <2>4, Called
  <2> QED
    BY <1>1, <2>5, <2>6 DEF IInv
<1>7. ASSUME QueueIsSorted
      PROVE  IInv'
  <2>1. stack # <<>> /\ Busy(stack[1]) /\ ~Restarts
    BY <1>2, <1>7 DEF QueueIsSorted, Runs, Busy, Restarts
  <2>2. /\ Goes("jobs") /\ isFlushing' = isFlushing /\ isFlushPending' = isFlushPending
        /\ thrown' = thrown
    BY <1>7 DEF QueueIsSorted
  <2>3. stack' \in Seq(Frames(T)) /\ OneFlush(stack') /\ (NoneBusy(stack) => NoneBusy(stack'))
    BY <1>1, <2>1, <2>2, WentOn
  <2> QED
    BY <1>1, <1>4, <2>1, <2>2, <2>3, InvIsKept
<1>8. ASSUME NextJobRuns
      PROVE  IInv'
  <2> DEFINE t == queue[flushIndex + 1]
  <2>1. stack # <<>> /\ Busy(stack[1]) /\ ~Restarts
    BY <1>2, <1>8 DEF NextJobRuns, Runs, Busy, Restarts
  <2>2. RunsTask(t) /\ isFlushing' = isFlushing /\ isFlushPending' = isFlushPending
    BY <1>8 DEF NextJobRuns, queueVars
  <2> HIDE DEF t
  <2>3. /\ thrown' \in BOOLEAN /\ stack' \in Seq(Frames(T \cup {t})) /\ OneFlush(stack')
        /\ NoneBusy(stack) => NoneBusy(stack')
    BY <1>1, <2>1, <2>2, RanTask
  <2> QED
    BY <1>4, <2>1, <2>2, <2>3, InvIsKept
<1>9. ASSUME QueueIsDone
      PROVE  IInv'
  <2>1. stack # <<>> /\ stack[1].fn = "flushJobs" /\ stack[1].at = "jobs" /\ Busy(stack[1]) /\ ~Restarts
    BY <1>2, <1>9 DEF QueueIsDone, Runs, Busy, Restarts
  <2>2. /\ Finally("finally") /\ isFlushing' = isFlushing /\ isFlushPending' = isFlushPending
        /\ thrown' = thrown
    BY <1>9 DEF QueueIsDone, Finally
  <2>3. /\ stack' \in Seq(Frames(T \cup {NoTask})) /\ OneFlush(stack')
        /\ NoneBusy(stack) => NoneBusy(stack')
    BY <1>1, <2>1, <2>2, Finalized
  <2> QED
    BY <1>1, <1>4, <2>1, <2>2, <2>3, InvIsKept
<1>10. ASSUME FlushEnds
       PROVE  IInv'
  <2>1. stack # <<>> /\ stack[1].fn = "flushJobs" /\ ~thrown
    BY <1>2, <1>10 DEF FlushEnds, Runs
  <2>2. isFlushing' = FALSE /\ isFlushPending' = isFlushPending /\ Left' = Left
    BY <1>10 DEF FlushEnds, postVars, Left
  <2>3. CASE FlushAgain
    <3>1. PICK at \in Places : at \in {"throws", "ends"}
                               /\ GoesAndCalls(at, JobsCall(Head(stack).seen)) /\ thrown' = thrown
      BY <1>10, <2>3 DEF FlushEnds, Places
    <3> DEFINE U == T \cup {NoTask}
               f == [stack[1] EXCEPT !.at = at]
               g == JobsCall(stack[1].seen)
    <3>2. stack \in Seq(Frames(U))
      BY MoreTasks
    <3>3. stack[1] \in Frames(U) /\ Head(stack) = stack[1]
      BY <2>1, <3>2, Popped
    <3>4. g \in Frames(U) /\ g.fn = "flushJobs" /\ g.at = "pre"
      BY <3>3 DEF Frames, Places, JobsCall, Call
    <3>5. stack' = <<g, f>> \o Tail(stack)
      BY <3>1, <3>3 DEF GoesAndCalls, Below
    <3> HIDE DEF g, U
    <3>6. f \in Frames(U) /\ f.fn = stack[1].fn /\ f.at = at
      BY <3>3, At, ZenonT(60)
    <3> HIDE DEF f
    <3>7. ~Busy(f) /\ ~Busy(g) /\ Outer(f)
      BY <2>1, <3>1, <3>4, <3>6 DEF Busy, Outer
    <3>8. /\ stack' \in Seq(Frames(U)) /\ OneFlush(stack') /\ NoneBusy(stack')
          /\ stack' # <<>> /\ stack'[1] = g
      BY <1>1, <2>1, <3>2, <3>4, <3>5, <3>6, <3>7, Called
    <3>9. Restarts'
      BY <2>1, <3>1, <3>4, <3>8 DEF Restarts
    <3> QED
      BY <1>1, <2>2, <3>1, <3>8, <3>9 DEF IInv
  <2>4. CASE ~FlushAgain
    <3>1. Return /\ thrown' \in BOOLEAN
      BY <1>10, <2>4 DEF FlushEnds
    <3>2. stack' \in Seq(Frames(T)) /\ OneFlush(stack') /\ NoneBusy(stack')
      BY <1>1, <2>1, <3>1, Returned
    <3>3. ~Left'
      BY <2>2, <2>4 DEF Left, FlushAgain
    <3> QED
      BY <1>1, <2>2, <3>1, <3>2, <3>3 DEF IInv
  <2> QED
    BY <2>3, <2>4
<1>11. ASSUME OuterFlushEnds
       PROVE  IInv'
  <2>1. stack # <<>> /\ ~Restarts
    BY <1>2, <1>11 DEF OuterFlushEnds, Runs, Restarts
  <2>2. /\ Return /\ thrown' \in BOOLEAN /\ Left' = Left
        /\ isFlushing' = isFlushing /\ isFlushPending' = isFlushPending
    BY <1>11 DEF OuterFlushEnds, queueVars, postVars, Left
  <2>3. stack' \in Seq(Frames(T)) /\ OneFlush(stack') /\ (NoneBusy(stack) => NoneBusy(stack'))
    BY <1>1, <2>1, <2>2, Returned
  <2> QED
    BY <2>1, <2>2, <2>3, InvIsKept
<1> QED
  BY <1>5, <1>6, <1>7, <1>8, <1>9, <1>10, <1>11

\* The steps of the callbacks before and after the queue.
LEMMA CallbackStep ==
    ASSUME IInv,
           \/ PreCbsBegin \/ NextPreCbRuns \/ PreCbsEnd
           \/ PostCbsBegin \/ NextPostCbRuns \/ PostCbsEnd
    PROVE  IInv'
<1> PICK T : stack \in Seq(Frames(T))
  BY DEF IInv
<1>1. isFlushing \in BOOLEAN /\ isFlushPending \in BOOLEAN /\ thrown \in BOOLEAN /\ OneFlush(stack)
  BY DEF IInv
<1>2. stack # <<>> => Head(stack) = stack[1]
  BY Popped
<1>3. stack # <<>> /\ stack[1].fn # "flushJobs" /\ ~Restarts
  BY <1>2 DEF PreCbsBegin, NextPreCbRuns, PreCbsEnd, PostCbsBegin, NextPostCbRuns, PostCbsEnd,
              Runs, Restarts
<1>4. isFlushing' = isFlushing /\ isFlushPending' = isFlushPending
  BY DEF PreCbsBegin, NextPreCbRuns, PreCbsEnd, PostCbsBegin, NextPostCbRuns, PostCbsEnd, queueVars
<1>5. Left' => Left
  BY DEF PreCbsBegin, NextPreCbRuns, PreCbsEnd, PostCbsBegin, NextPostCbRuns, PostCbsEnd,
         queueVars, postVars, Left
<1>6. CASE \E at \in {"begin", "loop"} : Goes(at) /\ thrown' = thrown
  <2>1. stack' \in Seq(Frames(T)) /\ OneFlush(stack') /\ (NoneBusy(stack) => NoneBusy(stack'))
    BY <1>1, <1>3, <1>6, WentOn
  <2> QED
    BY <1>1, <1>3, <1>4, <1>5, <1>6, <2>1, InvIsKept
<1>7. CASE Return /\ thrown' = thrown
  <2>1. stack' \in Seq(Frames(T)) /\ OneFlush(stack') /\ (NoneBusy(stack) => NoneBusy(stack'))
    BY <1>1, <1>3, <1>7, Returned
  <2> QED
    BY <1>1, <1>3, <1>4, <1>5, <1>7, <2>1, InvIsKept
<1>8. CASE \E t : RunsTask(t)
  <2> PICK t : RunsTask(t)
    BY <1>8
  <2>1. /\ thrown' \in BOOLEAN /\ stack' \in Seq(Frames(T \cup {t})) /\ OneFlush(stack')
        /\ NoneBusy(stack) => NoneBusy(stack')
    BY <1>1, <1>3, RanTask
  <2> QED
    BY <1>3, <1>4, <1>5, <2>1, InvIsKept
<1>9. PreCbsBegin \/ PreCbsEnd \/ PostCbsBegin \/ PostCbsEnd
      => (\E at \in {"begin", "loop"} : Goes(at) /\ thrown' = thrown) \/ (Return /\ thrown' = thrown)
  BY DEF PreCbsBegin, PreCbsEnd, PostCbsBegin, PostCbsEnd, Drains
<1>10. NextPreCbRuns \/ NextPostCbRuns => \E t : RunsTask(t)
  BY DEF NextPreCbRuns, NextPostCbRuns
<1> QED
  BY <1>6, <1>7, <1>8, <1>9, <1>10

\* A call ends: a task returns, or an exception passes by.
LEMMA UnwindingStep ==
    ASSUME IInv, TaskReturns \/ TaskThrows \/ Unwinds
    PROVE  IInv'
<1> PICK T : stack \in Seq(Frames(T))
  BY DEF IInv
<1>1. isFlushing \in BOOLEAN /\ isFlushPending \in BOOLEAN /\ thrown \in BOOLEAN /\ OneFlush(stack)
  BY DEF IInv
<1>2. stack # <<>> => Head(stack) = stack[1]
  BY Popped
<1>3. ~Restarts
  BY <1>2 DEF TaskReturns, TaskThrows, Unwinds, Runs, Restarts
<1>4. isFlushing' = isFlushing /\ isFlushPending' = isFlushPending /\ thrown' \in BOOLEAN
  BY <1>1 DEF TaskReturns, ReturnsToLoop, TaskThrows, Unwinds, Finally, queueVars
<1>5. Left' => Left
  BY DEF TaskReturns, ReturnsToLoop, TaskThrows, Unwinds, Finally, queueVars, postVars, Left
<1>6. CASE stack' = stack
  BY <1>1, <1>3, <1>4, <1>5, <1>6, InvIsKept
<1>7. CASE stack # <<>> /\ stack' = Tail(stack)
  <2>1. stack' \in Seq(Frames(T)) /\ OneFlush(stack') /\ (NoneBusy(stack) => NoneBusy(stack'))
    BY <1>1, <1>7, Popped
  <2> QED
    BY <1>3, <1>4, <1>5, <2>1, InvIsKept
<1>8. CASE /\ stack # <<>> /\ stack[1].fn = "flushJobs" /\ stack[1].at = "jobs"
           /\ Finally("failed")
  <2>1. /\ stack' \in Seq(Frames(T \cup {NoTask})) /\ OneFlush(stack')
        /\ NoneBusy(stack) => NoneBusy(stack')
    BY <1>1, <1>8, Finalized
  <2> QED
    BY <1>3, <1>4, <1>5, <2>1, InvIsKept
<1> QED
  BY <1>2, <1>6, <1>7, <1>8 DEF TaskReturns, ReturnsToLoop, TaskThrows, Unwinds, Runs, Below

\* What the callers queue and call.
LEMMA CallerStep ==
    ASSUME IInv, OutsideQueues \/ TaskQueues \/ JobFlushesPre \/ TaskFlushesPost
    PROVE  IInv'
<1> PICK T : stack \in Seq(Frames(T))
  BY DEF IInv
<1>1. isFlushing \in BOOLEAN /\ isFlushPending \in BOOLEAN /\ thrown \in BOOLEAN /\ OneFlush(stack)
  BY DEF IInv
<1>2. stack # <<>> => stack[1] \in Frames(T) /\ Head(stack) = stack[1]
  BY Popped
<1>3. ~Restarts
  BY <1>2 DEF OutsideQueues, TaskQueues, JobFlushesPre, TaskFlushesPost, HasCallLeft, Runs, Restarts
<1>4. ASSUME Queues, thrown' \in BOOLEAN, stack' \in Seq(Frames(T)), OneFlush(stack'),
             NoneBusy(stack) => NoneBusy(stack')
      PROVE  IInv'
  <2>1. /\ isFlushing' = isFlushing /\ isFlushPending' \in BOOLEAN
        /\ \/ isFlushing' \/ isFlushPending'
           \/ Left' = Left /\ isFlushPending' = isFlushPending
    BY <1>4, QueueingFlushes
  <2>2. ~(Left' /\ ~isFlushing' /\ ~isFlushPending')
    BY <1>1, <1>3, <2>1, NothingForgotten
  <2>3. ~isFlushing' => NoneBusy(stack')
    BY <1>4, <2>1 DEF IInv
  <2> QED
    BY <1>1, <1>4, <2>1, <2>2, <2>3 DEF IInv
<1>5. HasCallLeft => /\ stack # <<>>
                     /\ SpendsCall \in Seq(Frames(T)) /\ OneFlush(SpendsCall)
                     /\ NoneBusy(stack) => NoneBusy(SpendsCall)
  BY <1>1, Spent DEF HasCallLeft, Runs
<1>6. ASSUME OutsideQueues
      PROVE  IInv'
  BY <1>1, <1>4, <1>6 DEF OutsideQueues
<1>7. ASSUME TaskQueues
      PROVE  IInv'
  <2>1. HasCallLeft /\ stack' = SpendsCall /\ thrown' = thrown
    BY <1>7 DEF TaskQueues
  <2>2. CASE Queues
    BY <1>1, <1>4, <1>5, <2>1, <2>2
  <2>3. CASE \E t \in Job : InvalidateJob(t)
    <3>1. Left' => Left
      BY <2>3 DEF InvalidateJob, postVars, Left
    <3>2. isFlushing' = isFlushing /\ isFlushPending' = isFlushPending
      BY <2>3 DEF InvalidateJob
    <3> QED
      BY <1>1, <1>3, <1>5, <2>1, <3>1, <3>2, InvIsKept
  <2> QED
    BY <1>7, <2>2, <2>3 DEF TaskQueues
<1>8. ASSUME JobFlushesPre \/ TaskFlushesPost
      PROVE  IInv'
  <2> DEFINE U == T \cup {stack[1].task, NoTask}
  <2>1. /\ HasCallLeft /\ thrown' = thrown /\ Left' = Left
        /\ isFlushing' = isFlushing /\ isFlushPending' = isFlushPending
    BY <1>8 DEF JobFlushesPre, TaskFlushesPost, queueVars, postVars, Left
  <2>2. PICK g \in Frames(U) : stack' = <<g>> \o SpendsCall /\ g.fn \in {"flushPre", "flushPost"}
    <3>1. PreCall(NotSeen, stack[1].task) \in Frames(U) /\ PostCall(NotSeen) \in Frames(U)
      BY DEF Frames, Places, PreCall, PostCall, Call, NotSeen
    <3>2. /\ PreCall(NotSeen, stack[1].task).fn \in {"flushPre", "flushPost"}
          /\ PostCall(NotSeen).fn \in {"flushPre", "flushPost"}
      BY DEF PreCall, PostCall, Call
    <3>3. Head(stack) = stack[1]
      BY <1>2, <1>5, <2>1
    <3>4. stack' = <<PreCall(NotSeen, stack[1].task)>> \o SpendsCall
          \/ stack' = <<PostCall(NotSeen)>> \o SpendsCall
      BY <1>8, <3>3 DEF JobFlushesPre, TaskFlushesPost
    <3> HIDE DEF U
    <3> QED
      BY <3>1, <3>2, <3>4
  <2>3. SpendsCall \in Seq(Frames(U)) /\ OneFlush(SpendsCall)
    BY <1>5, <2>1, MoreTasks
  <2>4. g.fn # "flushJobs" /\ ~Busy(g)
    BY <2>2 DEF Busy
  <2> HIDE DEF U
  <2>5. /\ stack' \in Seq(Frames(U)) /\ OneFlush(stack')
        /\ NoneBusy(stack) => NoneBusy(stack')
    BY <1>5, <2>1, <2>2, <2>3, <2>4, Pushed1
  <2> QED
    BY <1>1, <1>3, <2>1, <2>5, InvIsKept
<1> QED
  BY <1>6, <1>7, <1>8

\* Hence every step does.
LEMMA NextIInv == IInv /\ [Next]_schedulerVars => IInv'
<1> SUFFICES ASSUME IInv, [Next]_schedulerVars
             PROVE  IInv'
    OBVIOUS
<1>1. CASE Next
  BY <1>1, JobStep, CallbackStep, UnwindingStep, CallerStep DEF Next, Proceeds
<1>2. CASE UNCHANGED schedulerVars
  <2>1. /\ isFlushing' = isFlushing /\ isFlushPending' = isFlushPending
        /\ thrown' = thrown /\ stack' = stack /\ queue' = queue /\ pendingPost' = pendingPost
    BY <1>2 DEF schedulerVars, queueVars, preVars, postVars
  <2> QED
    BY <2>1 DEF IInv, Left, Restarts
<1> QED
  BY <1>1, <1>2

-----------------------------------------------------------------------------
\* When the scheduler is at rest, no update and no post callback is left, whatever the
\* tasks queued, removed and threw, and however flushes nested: flushJobs looks again at
\* what its callbacks queued, and whoever queues outside it asks for a flush.
THEOREM NothingIsLeft == Spec => []DrainsWhenIdle
<1>1. IInv => DrainsWhenIdle
  <2> SUFFICES ASSUME IInv
               PROVE  DrainsWhenIdle
    OBVIOUS
  <2>1. stack = <<>> => ~Restarts
    BY DEF Restarts
  <2> QED
    BY <2>1 DEF IInv, DrainsWhenIdle, Left
<1> QED
  BY <1>1, InitIInv, NextIInv, PTL DEF Spec

\* A flush that has begun keeps the flag set until its end, and a second one cannot work
\* beside it: only one flushJobs on the stack is between its first and its last line.
OneFlushWorks ==
    \A i, k \in 1..Len(stack) : i < k /\ stack[i].fn = "flushJobs" => ~Busy(stack[k])

THEOREM FlushesAreNotNested == Spec => []OneFlushWorks
<1>1. IInv => OneFlushWorks
  <2> SUFFICES ASSUME IInv, NEW i \in 1..Len(stack), NEW k \in 1..Len(stack),
                      i < k, stack[i].fn = "flushJobs"
               PROVE  ~Busy(stack[k])
    BY DEF OneFlushWorks
  <2>1. Len(stack) \in Nat
    BY DEF IInv
  <2>2. i \in 1..k - 1
    BY <2>1
  <2> QED
    BY <2>2 DEF IInv, OneFlush, Outer, Busy
<1> QED
  BY <1>1, InitIInv, NextIInv, PTL DEF Spec

-----------------------------------------------------------------------------
(* The calls under way, and the queue that they work on.                   *)

Calls == Frames(Task \cup {NoTask})

JobTasks == {f \in Calls : f.fn = "task" /\ f.task \in Job}
JobLoops == {f \in Calls : f.fn = "flushJobs" /\ f.at = "jobs"}
BusyCalls == {f \in Calls : Busy(f)}
Waits == {f \in Calls : f.fn = "flushJobs" /\ f.at \in {"ends", "throws"}}
Inner == {f \in Calls : f.fn # "flushJobs"}
PreCalls == {f \in Calls : f.fn = "flushPre"}
PreLoops == {f \in PreCalls : f.at = "loop"}
PostLoops == {f \in Calls : f.fn = "flushPost" /\ f.at = "loop"}

Some(s, F) == \E i \in 1..Len(s) : s[i] \in F

\* Who calls whom.
CalledFrom(f, g) ==
    \/ f.fn = "flushJobs" /\ g \in Waits
    \/ f.fn = "flushPre" /\ g.fn = "flushJobs" /\ g.at = "sort"
    \/ f.fn = "flushPost" /\ g.fn = "flushJobs" /\ g.at \in {"finally", "failed"}
    \/ f.fn = "flushPre" /\ g \in JobTasks
    \/ f.fn = "flushPost" /\ g.fn = "task"
    \/ f \in JobTasks /\ g \in JobLoops
    \/ f.fn = "task" /\ f.task \notin Job /\ g.fn \in {"flushPre", "flushPost"} /\ g.at = "loop"

Shape(s) ==
    /\ s \in Seq(Calls)
    /\ \A i \in 1..Len(s) - 1 : CalledFrom(s[i], s[i + 1])
    /\ \A k \in 1..Len(s) : \A i \in 1..k - 1 : s[i].fn = "flushJobs" => s[k] \in Waits
    /\ Some(s, Inner) => Some(s, BusyCalls)
    /\ Some(s, JobTasks) => Some(s, JobLoops)
    /\ \A k \in 1..Len(s) : \A i \in 1..k - 1 :
          /\ ~(s[i] \in PreCalls /\ s[k] \in PreCalls)
          /\ ~(s[i] \in PostLoops /\ s[k] \in PostLoops)

TypeOK ==
    /\ queue \in Seq(Job) /\ flushIndex \in 0..Len(queue)
    /\ pendingPre \in Seq(PreCb) /\ activePre \in Seq(PreCb) /\ preIndex \in Nat
    /\ pendingPost \in Seq(PostCb) /\ activePost \in Seq(PostCb) /\ postIndex \in Nat
    /\ isFlushing \in BOOLEAN /\ isFlushPending \in BOOLEAN /\ thrown \in BOOLEAN

\* From n on: in the order of ids, nothing twice, one thing twice at most.
InOrder(q, n) == \A k \in n..Len(q) : \A i \in n..k : Id[q[i]] <= Id[q[k]]
Apart(q, n) == \A k \in n..Len(q) : \A i \in n..k - 1 : q[i] # q[k]
Twice(q, n) ==
    \A k, l \in n..Len(q) : \A i \in n..k - 1, j \in n..l - 1 :
        q[i] = q[k] /\ q[j] = q[l] => i = j /\ k = l

\* Outside the loop the queue is whole, and only its first may be there again.
QueueInv ==
    /\ Some(stack, JobTasks) => flushIndex < Len(queue)
    /\ ~Some(stack, JobLoops) => flushIndex = 0 /\ Apart(queue, 2)
    /\ InOrder(queue, FirstInOrder) /\ Twice(queue, flushIndex + 2)

\* What an exception from a callback leaves.
Abandoned == activePre # <<>> \/ activePost # <<>>
ActiveInv ==
    /\ Some(stack, PreLoops) => activePre # <<>>
    /\ Some(stack, PostLoops) => activePost # <<>>
    /\ isFlushing => Some(stack, BusyCalls) \/ Abandoned
    /\ isFlushing /\ thrown => Some(stack, JobLoops) \/ Abandoned
    /\ stack # <<>> /\ ~thrown /\ stack[1] \in Waits => ~isFlushing

SInv == TypeOK /\ Shape(stack) /\ QueueInv /\ ActiveInv

-----------------------------------------------------------------------------
(* The stacks that a step makes, with all of their calls.                  *)

\* A call on top of others.
LEMMA OnTop ==
    ASSUME NEW s \in Seq(Calls), NEW f \in Calls
    PROVE  /\ <<f>> \o s \in Seq(Calls) /\ Len(<<f>> \o s) = Len(s) + 1 /\ Len(s) \in Nat
           /\ (<<f>> \o s)[1] = f /\ Head(<<f>> \o s) = f /\ Tail(<<f>> \o s) = s
           /\ <<f>> \o s # <<>>
           /\ \A i \in 1..Len(s) + 1 :
                 i = 1 \/ (i - 1 \in 1..Len(s) /\ (<<f>> \o s)[i] = s[i - 1])
<1>1. /\ <<f>> \o s \in Seq(Calls) /\ Len(<<f>> \o s) = Len(s) + 1 /\ Len(s) \in Nat
      /\ (<<f>> \o s)[1] = f /\ Head(<<f>> \o s) = f /\ <<f>> \o s # <<>>
    OBVIOUS
<1>2. \A i \in 1..Len(s) + 1 : i = 1 \/ (i - 1 \in 1..Len(s) /\ (<<f>> \o s)[i] = s[i - 1])
    OBVIOUS
<1>3. Tail(<<f>> \o s) = s
    <2> DEFINE t == Tail(<<f>> \o s)
    <2>1. t \in Seq(Calls) /\ Len(t) = Len(s) /\ \A i \in 1..Len(s) : t[i] = s[i]
        OBVIOUS
    <2> HIDE DEF t
    <2>2. t = s
        BY <2>1, SeqEqual
    <2>3. QED
        BY <2>2 DEF t
<1>4. QED
    BY <1>1, <1>2, <1>3

\* A stack is its top on the rest.
LEMMA TopAndRest ==
    ASSUME NEW s \in Seq(Calls), s # <<>>
    PROVE  s[1] \in Calls /\ Head(s) = s[1] /\ Tail(s) \in Seq(Calls) /\ s = <<s[1]>> \o Tail(s)
<1>1. s[1] \in Calls /\ Head(s) = s[1] /\ Tail(s) \in Seq(Calls)
    OBVIOUS
<1> DEFINE r == <<s[1]>> \o Tail(s)
<1>2. r \in Seq(Calls) /\ Len(r) = Len(s) /\ \A i \in 1..Len(s) : r[i] = s[i]
    OBVIOUS
<1> HIDE DEF r
<1>3. r = s
    BY <1>2, SeqEqual
<1>4. QED
    BY <1>1, <1>3 DEF r

\* Which calls a longer stack has, and which its rest has.
LEMMA SomeOnTop ==
    ASSUME NEW s \in Seq(Calls), NEW f \in Calls, NEW F
    PROVE  Some(<<f>> \o s, F) <=> f \in F \/ Some(s, F)
<1> DEFINE r == <<f>> \o s
<1>1. /\ Len(r) = Len(s) + 1 /\ Len(s) \in Nat /\ r[1] = f
      /\ \A i \in 1..Len(s) + 1 : i = 1 \/ (i - 1 \in 1..Len(s) /\ r[i] = s[i - 1])
    BY OnTop
<1> HIDE DEF r
<1>2. ASSUME Some(s, F) PROVE Some(r, F)
    <2>1. PICK i \in 1..Len(s) : s[i] \in F
        BY <1>2 DEF Some
    <2>2. i + 1 \in 1..Len(r) /\ i + 1 # 1 /\ (i + 1) - 1 = i
        BY <1>1
    <2>3. r[i + 1] = s[i]
        BY <1>1, <2>2
    <2>4. QED
        BY <2>1, <2>2, <2>3 DEF Some
<1>3. ASSUME f \in F PROVE Some(r, F)
    BY <1>1, <1>3 DEF Some
<1>4. ASSUME Some(r, F) PROVE f \in F \/ Some(s, F)
    BY <1>1, <1>4 DEF Some
<1>5. QED
    BY <1>2, <1>3, <1>4 DEF r

\* The kinds of call.
LEMMA CallKinds ==
    ASSUME NEW f \in Calls
    PROVE  /\ f \in JobTasks <=> f.fn = "task" /\ f.task \in Job
           /\ f \in JobLoops <=> f.fn = "flushJobs" /\ f.at = "jobs"
           /\ f \in BusyCalls <=> Busy(f)
           /\ f \in Waits <=> f.fn = "flushJobs" /\ f.at \in {"ends", "throws"}
           /\ f \in Inner <=> f.fn # "flushJobs"
           /\ f \in PreCalls <=> f.fn = "flushPre"
           /\ f \in PreLoops <=> f.fn = "flushPre" /\ f.at = "loop"
           /\ f \in PostLoops <=> f.fn = "flushPost" /\ f.at = "loop"
BY DEF JobTasks, JobLoops, BusyCalls, Waits, Inner, PreCalls, PreLoops, PostLoops

\* Below a flushJobs are only those that wait for it.
LEMMA BelowFlush ==
    ASSUME NEW f \in Calls, NEW s \in Seq(Calls), Shape(<<f>> \o s), f.fn = "flushJobs"
    PROVE  /\ \A k \in 1..Len(s) : s[k] \in Waits
           /\ ~Some(s, Inner) /\ ~Some(s, JobTasks) /\ ~Some(s, JobLoops)
           /\ ~Some(s, BusyCalls) /\ ~Some(s, PreCalls) /\ ~Some(s, PreLoops)
           /\ ~Some(s, PostLoops)
<1>1. ASSUME NEW k \in 1..Len(s) PROVE s[k] \in Waits
    <2>1. /\ k + 1 \in 1..Len(<<f>> \o s) /\ 1 \in 1..(k + 1) - 1
          /\ (<<f>> \o s)[1] = f /\ (<<f>> \o s)[k + 1] = s[k]
        BY OnTop
    <2>2. QED
        BY <2>1 DEF Shape
<1>2. ASSUME NEW g \in Waits
      PROVE  /\ g \notin Inner /\ g \notin JobTasks /\ g \notin JobLoops /\ g \notin BusyCalls
             /\ g \notin PreCalls /\ g \notin PreLoops /\ g \notin PostLoops
    BY DEF Waits, Inner, JobTasks, JobLoops, BusyCalls, Busy, PreCalls, PreLoops, PostLoops
<1>3. QED
    BY <1>1, <1>2 DEF Some

\* The innermost call ends.
LEMMA ShapePop ==
    ASSUME NEW f \in Calls, NEW s \in Seq(Calls), Shape(<<f>> \o s)
    PROVE  Shape(s) /\ (s # <<>> => CalledFrom(f, s[1]))
<1> DEFINE r == <<f>> \o s
<1>1. /\ Len(r) = Len(s) + 1 /\ Len(s) \in Nat /\ r[1] = f
      /\ \A i \in 1..Len(s) : i + 1 \in 1..Len(r) /\ r[i + 1] = s[i]
    <2>1. \A i \in 1..Len(s) : i + 1 \in 1..Len(s) + 1 /\ i + 1 # 1 /\ (i + 1) - 1 = i
        OBVIOUS
    <2>2. QED
        BY <2>1, OnTop
<1>2. \A F : Some(r, F) <=> f \in F \/ Some(s, F)
    BY SomeOnTop
<1> HIDE DEF r
<1>3. Shape(r)
    BY DEF r
<1>4. ASSUME NEW i \in 1..Len(s) - 1 PROVE CalledFrom(s[i], s[i + 1])
    <2>1. i + 1 \in 1..Len(r) - 1 /\ r[i + 1] = s[i] /\ r[(i + 1) + 1] = s[i + 1]
        BY <1>1
    <2>2. QED
        BY <1>3, <2>1 DEF Shape
<1>5. ASSUME NEW k \in 1..Len(s), NEW i \in 1..k - 1
      PROVE  /\ s[i].fn = "flushJobs" => s[k] \in Waits
             /\ ~(s[i] \in PreCalls /\ s[k] \in PreCalls)
             /\ ~(s[i] \in PostLoops /\ s[k] \in PostLoops)
    <2>1. /\ k + 1 \in 1..Len(r) /\ i + 1 \in 1..(k + 1) - 1
          /\ r[i + 1] = s[i] /\ r[k + 1] = s[k]
        BY <1>1
    <2>2. QED
        BY <1>3, <2>1 DEF Shape
<1>6. Some(s, Inner) => Some(s, BusyCalls)
    <2>1. CASE f.fn = "flushJobs"
        BY <2>1, BelowFlush
    <2>2. CASE f.fn # "flushJobs"
        BY <1>2, <1>3, <2>2, CallKinds DEF Shape, Busy
    <2>3. QED
        BY <2>1, <2>2
<1>7. Some(s, JobTasks) => Some(s, JobLoops)
    <2>1. CASE f.fn = "flushJobs"
        BY <2>1, BelowFlush
    <2>2. CASE f.fn # "flushJobs"
        BY <1>2, <1>3, <2>2, CallKinds DEF Shape
    <2>3. QED
        BY <2>1, <2>2
<1>8. s # <<>> => CalledFrom(f, s[1])
    <2>1. s # <<>> => 1 \in 1..Len(r) - 1 /\ r[1] = f /\ r[1 + 1] = s[1]
        BY <1>1
    <2>2. QED
        BY <1>3, <2>1 DEF Shape
<1>9. QED
    BY <1>4, <1>5, <1>6, <1>7, <1>8 DEF Shape

\* A call is made, or the innermost goes on.
LEMMA ShapePush ==
    ASSUME NEW f \in Calls, NEW s \in Seq(Calls), Shape(s),
           s = <<>> => f.fn = "flushJobs",
           s # <<>> => CalledFrom(f, s[1]),
           f \in PostLoops => ~Some(s, PostLoops)
    PROVE  Shape(<<f>> \o s)
<1> DEFINE r == <<f>> \o s
<1>1. /\ r \in Seq(Calls) /\ Len(r) = Len(s) + 1 /\ Len(s) \in Nat /\ r[1] = f
      /\ \A i \in 1..Len(s) + 1 : i = 1 \/ (i - 1 \in 1..Len(s) /\ r[i] = s[i - 1])
    BY OnTop
<1>2. \A F : Some(r, F) <=> f \in F \/ Some(s, F)
    BY SomeOnTop
<1> HIDE DEF r
<1>3. ASSUME s # <<>>
      PROVE  /\ s[1] \in Calls /\ Tail(s) \in Seq(Calls) /\ s = <<s[1]>> \o Tail(s)
             /\ \A F : Some(s, F) <=> s[1] \in F \/ Some(Tail(s), F)
             /\ Shape(<<s[1]>> \o Tail(s))
    <2>1. s[1] \in Calls /\ Tail(s) \in Seq(Calls) /\ s = <<s[1]>> \o Tail(s)
        BY <1>3, TopAndRest
    <2>2. \A F : Some(<<s[1]>> \o Tail(s), F) <=> s[1] \in F \/ Some(Tail(s), F)
        BY <2>1, SomeOnTop
    <2>3. QED
        BY <2>1, <2>2
<1>4. ASSUME f.fn = "flushJobs" PROVE \A k \in 1..Len(s) : s[k] \in Waits
    <2>1. SUFFICES ASSUME NEW k \in 1..Len(s) PROVE s[k] \in Waits
        OBVIOUS
    <2>2. s # <<>> /\ s[1] \in Waits
        BY <1>4, CallKinds DEF CalledFrom, JobTasks
    <2>3. s[1].fn = "flushJobs" /\ (k # 1 => 1 \in 1..k - 1)
        BY <2>2 DEF Waits
    <2>4. QED
        BY <2>2, <2>3 DEF Shape
<1>5. ASSUME f.fn = "flushPre" PROVE ~Some(s, PreCalls)
    <2>1. s # <<>>
        BY <1>5
    <2>2. CASE s[1].fn = "flushJobs"
        BY <1>3, <2>1, <2>2, BelowFlush, CallKinds
    <2>3. CASE s[1] \in JobTasks
        <3> DEFINE t == Tail(s)
        <3>1. t \in Seq(Calls) /\ s[1].fn = "task" /\ s[1].task \in Job
            BY <1>3, <2>1, <2>3 DEF JobTasks
        <3>2. Shape(t) /\ (t # <<>> => CalledFrom(s[1], t[1]))
            BY <1>3, <2>1, ShapePop
        <3>3. t # <<>>
            <4>1. Some(s, BusyCalls)
                <5>1. s[1] \in Inner
                    BY <3>1, <1>3, <2>1, CallKinds
                <5>2. Some(s, Inner)
                    BY <1>3, <2>1, <5>1
                <5>3. QED
                    BY <5>2 DEF Shape
            <4>2. s[1] \notin BusyCalls
                BY <3>1 DEF BusyCalls, Busy
            <4>3. Some(t, BusyCalls)
                BY <1>3, <2>1, <4>1, <4>2
            <4>4. QED
                BY <4>3, SMTT(30) DEF Some
        <3> HIDE DEF t
        <3>4. t[1] \in Calls /\ Tail(t) \in Seq(Calls) /\ t = <<t[1]>> \o Tail(t)
            BY <3>1, <3>3, TopAndRest
        <3>5. t[1].fn = "flushJobs"
            BY <3>1, <3>2, <3>3 DEF CalledFrom, JobLoops
        <3>6. ~Some(t, PreCalls)
            <4>1. ~Some(Tail(t), PreCalls)
                BY <3>2, <3>4, <3>5, BelowFlush
            <4>2. t[1] \notin PreCalls
                BY <3>5 DEF PreCalls
            <4>3. QED
                BY <3>4, <4>1, <4>2, SomeOnTop
        <3>7. s[1] \notin PreCalls
            BY <3>1 DEF PreCalls
        <3>8. QED
            BY <1>3, <2>1, <3>6, <3>7 DEF t
    <2>4. QED
        BY <1>5, <2>1, <2>2, <2>3 DEF CalledFrom, JobTasks
<1>6. ASSUME NEW i \in 1..Len(r) - 1 PROVE CalledFrom(r[i], r[i + 1])
    <2>1. CASE i = 1
        <3>1. s # <<>> /\ r[1] = f /\ r[2] = s[1]
            BY <1>1, <2>1
        <3>2. QED
            BY <2>1, <3>1
    <2>2. CASE i # 1
        <3>1. i - 1 \in 1..Len(s) - 1 /\ r[i] = s[i - 1] /\ r[i + 1] = s[(i - 1) + 1]
            BY <1>1, <2>2
        <3>2. QED
            BY <3>1 DEF Shape
    <2>3. QED
        BY <2>1, <2>2
<1>7. ASSUME NEW k \in 1..Len(r), NEW i \in 1..k - 1
      PROVE  /\ r[i].fn = "flushJobs" => r[k] \in Waits
             /\ ~(r[i] \in PreCalls /\ r[k] \in PreCalls)
             /\ ~(r[i] \in PostLoops /\ r[k] \in PostLoops)
    <2>1. k - 1 \in 1..Len(s) /\ r[k] = s[k - 1]
        BY <1>1
    <2>2. CASE i = 1
        <3>1. r[i] = f
            BY <1>1, <2>2
        <3>2. f \in PreCalls => s[k - 1] \notin PreCalls
            BY <1>5, <2>1 DEF Some, PreCalls
        <3>3. f \in PostLoops => s[k - 1] \notin PostLoops
            BY <2>1 DEF Some
        <3>4. QED
            BY <1>4, <2>1, <3>1, <3>2, <3>3
    <2>3. CASE i # 1
        <3>1. i - 1 \in 1..(k - 1) - 1 /\ r[i] = s[i - 1]
            BY <1>1, <2>3
        <3>2. QED
            BY <2>1, <3>1 DEF Shape
    <2>4. QED
        BY <2>2, <2>3
<1>8. Some(r, Inner) => Some(r, BusyCalls)
    <2>1. CASE f.fn = "flushJobs"
        BY <1>2, <2>1 DEF Inner, Shape
    <2>2. CASE f.fn # "flushJobs"
        <3>1. s # <<>>
            BY <2>2
        <3>2. s[1] \in BusyCalls \/ s[1] \in Inner
            BY <1>3, <2>2, <3>1, CallKinds DEF CalledFrom, Busy, JobLoops
        <3>3. Some(s, BusyCalls)
            BY <1>3, <3>1, <3>2 DEF Shape
        <3>4. QED
            BY <1>2, <3>3
    <2>3. QED
        BY <2>1, <2>2
<1>9. Some(r, JobTasks) => Some(r, JobLoops)
    <2>1. CASE f \in JobTasks
        <3>1. s # <<>> /\ s[1] \in JobLoops
            BY <2>1 DEF CalledFrom, JobTasks
        <3>2. QED
            BY <1>2, <1>3, <3>1
    <2>2. CASE f \notin JobTasks
        BY <1>2, <2>2 DEF Shape
    <2>3. QED
        BY <2>1, <2>2
<1>10. QED
    BY <1>1, <1>6, <1>7, <1>8, <1>9 DEF Shape, r


\* A call goes on.
LEMMA ShapeChange ==
    ASSUME NEW f \in Calls, NEW g \in Calls, NEW s \in Seq(Calls), Shape(<<f>> \o s),
           g.fn = f.fn, g.task = f.task,
           g \in PostLoops => ~Some(s, PostLoops)
    PROVE  Shape(<<g>> \o s)
<1>1. Shape(s) /\ (s # <<>> => CalledFrom(f, s[1]))
    BY ShapePop
<1>2. s # <<>> => CalledFrom(g, s[1])
    BY <1>1, CallKinds DEF CalledFrom
<1>3. ASSUME s = <<>> PROVE f.fn = "flushJobs"
    <2>1. ASSUME f.fn # "flushJobs" PROVE FALSE
        <3>1. f \in Inner /\ f \notin BusyCalls
            BY <2>1, CallKinds DEF Busy
        <3>2. Some(<<f>> \o s, BusyCalls)
            BY <3>1, SomeOnTop DEF Shape
        <3>3. Some(s, BusyCalls)
            BY <3>1, <3>2, SomeOnTop
        <3>4. QED
            BY <1>3, <3>3 DEF Some
    <2>2. QED
        BY <2>1
<1>4. QED
    BY <1>1, <1>2, <1>3, ShapePush

\* The kinds that are counted do not change with the Map.
Counted == {JobTasks, JobLoops, BusyCalls, PreLoops, PostLoops}
Alike(r, s) ==
    /\ \A F \in Counted : Some(r, F) <=> Some(s, F)
    /\ r = <<>> <=> s = <<>>
    /\ s # <<>> => r[1].fn = s[1].fn /\ r[1].at = s[1].at

\* A call ends, and gives its Map back.
LEMMA ShapeReturn ==
    ASSUME NEW f \in Calls, NEW s \in Seq(Calls), Shape(<<f>> \o s), NEW r,
           r = IF s # <<>> /\ s[1].fn = "flushJobs" /\ f.fn # "flushJobs"
               THEN <<[s[1] EXCEPT !.seen = f.seen]>> \o Tail(s) ELSE s
    PROVE  Shape(r) /\ Alike(r, s)
<1>1. Shape(s)
    BY ShapePop
<1>2. CASE s # <<>> /\ s[1].fn = "flushJobs" /\ f.fn # "flushJobs"
    <2> DEFINE h == s[1]
               g == [s[1] EXCEPT !.seen = f.seen]
               t == Tail(s)
    <2>1. h \in Calls /\ t \in Seq(Calls) /\ s = <<h>> \o t
        BY <1>2, TopAndRest
    <2>2. g \in Calls /\ g.fn = h.fn /\ g.task = h.task /\ g.at = h.at
        BY <2>1 DEF Calls, Frames
    <2>3. r = <<g>> \o t /\ h.fn = "flushJobs"
        BY <1>2
    <2> HIDE DEF h, g, t
    <2>4. g \notin PostLoops
        BY <2>2, <2>3 DEF PostLoops
    <2>5. Shape(r)
        BY <1>1, <2>1, <2>2, <2>3, <2>4, ShapeChange
    <2>6. \A F \in Counted : g \in F <=> h \in F
        BY <2>1, <2>2, CallKinds DEF Counted, Busy
    <2>a. \A F : Some(r, F) <=> g \in F \/ Some(t, F)
        <3>1. \A F : Some(<<g>> \o t, F) <=> g \in F \/ Some(t, F)
            BY <2>1, <2>2, SomeOnTop
        <3>2. QED
            BY <2>3, <3>1, Zenon
    <2>7. \A F : (Some(r, F) <=> g \in F \/ Some(t, F)) /\ (Some(s, F) <=> h \in F \/ Some(t, F))
        BY <2>1, <2>a, SomeOnTop
    <2>8. r # <<>> /\ s # <<>> /\ r[1] = g /\ s[1] = h
        BY <2>1, <2>2, <2>3, OnTop
    <2>9. QED
        BY <2>2, <2>5, <2>6, <2>7, <2>8 DEF Alike
<1>3. CASE ~(s # <<>> /\ s[1].fn = "flushJobs" /\ f.fn # "flushJobs")
    BY <1>1, <1>3 DEF Alike
<1>4. QED
    BY <1>2, <1>3


\* The innermost call and those around it.
LEMMA TopIs ==
    ASSUME Shape(stack), stack # <<>>
    PROVE  /\ Head(stack) \in Calls /\ stack[1] = Head(stack) /\ Below \in Seq(Calls)
           /\ stack = <<Head(stack)>> \o Below /\ Shape(<<Head(stack)>> \o Below)
           /\ \A F : Some(stack, F) <=> Head(stack) \in F \/ Some(Below, F)
           /\ Shape(Below) /\ (Below # <<>> => CalledFrom(Head(stack), Below[1]))
           /\ Below # <<>> => Below[1] \in Calls
<1>1. /\ Head(stack) \in Calls /\ stack[1] = Head(stack) /\ Below \in Seq(Calls)
      /\ stack = <<Head(stack)>> \o Below
    BY TopAndRest DEF Shape, Below
<1>2. Shape(<<Head(stack)>> \o Below)
    BY <1>1
<1>3. \A F : Some(<<Head(stack)>> \o Below, F) <=> Head(stack) \in F \/ Some(Below, F)
    BY <1>1, SomeOnTop
<1>4. \A F : Some(stack, F) <=> Head(stack) \in F \/ Some(Below, F)
    BY <1>1, <1>3, Zenon
<1>5. Shape(Below) /\ (Below # <<>> => CalledFrom(Head(stack), Below[1]))
    BY <1>1, <1>2, ShapePop
<1>6. Below # <<>> => Below[1] \in Calls
    BY <1>1
<1>7. QED
    BY <1>1, <1>2, <1>4, <1>5, <1>6

\* Around a flushJobs are only those that wait for it.
LEMMA AroundFlush ==
    ASSUME Shape(stack), stack # <<>>, Head(stack).fn = "flushJobs"
    PROVE  /\ \A k \in 1..Len(Below) : Below[k] \in Waits
           /\ ~Some(Below, Inner) /\ ~Some(Below, JobTasks) /\ ~Some(Below, JobLoops)
           /\ ~Some(Below, BusyCalls) /\ ~Some(Below, PreLoops) /\ ~Some(Below, PostLoops)
           /\ Below # <<>> => Below[1] \in Waits
<1>1. Head(stack) \in Calls /\ Below \in Seq(Calls) /\ Shape(<<Head(stack)>> \o Below)
    BY TopIs
<1>2. /\ \A k \in 1..Len(Below) : Below[k] \in Waits
      /\ ~Some(Below, Inner) /\ ~Some(Below, JobTasks) /\ ~Some(Below, JobLoops)
      /\ ~Some(Below, BusyCalls) /\ ~Some(Below, PreLoops) /\ ~Some(Below, PostLoops)
    BY <1>1, BelowFlush
<1>3. Below # <<>> => 1 \in 1..Len(Below)
    BY <1>1
<1>4. QED
    BY <1>2, <1>3

\* Around a callback is a flush, and its caller.
LEMMA AroundCallback ==
    ASSUME Shape(stack), stack # <<>>, Head(stack).fn # "flushJobs"
    PROVE  /\ Below # <<>> /\ Below[1] \in Calls /\ CalledFrom(Head(stack), Below[1])
           /\ Some(Below, BusyCalls) /\ Some(stack, BusyCalls)
           /\ Head(stack) \in PreCalls => ~Some(Below, PreLoops)
           /\ Head(stack) \in PostLoops => ~Some(Below, PostLoops)
<1> DEFINE h == Head(stack)
           s == Below
<1>1. /\ h \in Calls /\ stack[1] = h /\ s \in Seq(Calls)
      /\ stack = <<h>> \o s /\ Shape(<<h>> \o s)
      /\ \A F : Some(stack, F) <=> h \in F \/ Some(s, F)
      /\ s # <<>> => CalledFrom(h, s[1])
      /\ s # <<>> => s[1] \in Calls
    BY TopIs
<1> HIDE DEF h, s
<1>2. h \in Inner /\ h \notin BusyCalls
    BY <1>1, CallKinds DEF Busy, h
<1>3. Some(stack, BusyCalls)
    BY <1>1, <1>2 DEF Shape
<1>4. Some(s, BusyCalls)
    BY <1>1, <1>2, <1>3
<1>5. s # <<>>
    BY <1>4 DEF Some
<1>6. ASSUME NEW k \in 1..Len(s)
      PROVE  ~(h \in PreCalls /\ s[k] \in PreCalls) /\ ~(h \in PostLoops /\ s[k] \in PostLoops)
    <2>1. /\ k + 1 \in 1..Len(<<h>> \o s) /\ 1 \in 1..(k + 1) - 1
          /\ (<<h>> \o s)[1] = h /\ (<<h>> \o s)[k + 1] = s[k]
        BY <1>1, OnTop
    <2>2. QED
        BY <1>1, <2>1 DEF Shape
<1>7. h \in PreCalls => ~Some(s, PreLoops)
    BY <1>6 DEF Some, PreLoops
<1>8. h \in PostLoops => ~Some(s, PostLoops)
    BY <1>6 DEF Some
<1>9. QED
    BY <1>1, <1>3, <1>4, <1>5, <1>7, <1>8 DEF h, s

\* In a call only the Map changes, or what is left to queue.
LEMMA Retouched ==
    ASSUME Shape(stack), stack # <<>>, NEW g \in Calls,
           g.fn = Head(stack).fn, g.task = Head(stack).task, g.at = Head(stack).at
    PROVE  /\ Shape(<<g>> \o Below) /\ <<g>> \o Below \in Seq(Calls)
           /\ <<g>> \o Below # <<>> /\ (<<g>> \o Below)[1] = g /\ Head(<<g>> \o Below) = g
           /\ \A F \in Counted : Some(<<g>> \o Below, F) <=> Some(stack, F)
<1> DEFINE h == Head(stack)
           s == Below
<1>1. /\ h \in Calls /\ s \in Seq(Calls) /\ Shape(<<h>> \o s)
      /\ \A F : Some(stack, F) <=> h \in F \/ Some(s, F)
    BY TopIs
<1>2. \A F \in Counted : g \in F <=> h \in F
    BY <1>1, CallKinds DEF Counted, Busy
<1>3. h.fn # "flushJobs" /\ h \in PostLoops => ~Some(s, PostLoops)
    BY AroundCallback
<1>4. PostLoops \in Counted
    BY DEF Counted
<1>5. h \in PostLoops => h.fn # "flushJobs"
    BY <1>1, CallKinds
<1> HIDE DEF s
<1>6. g \in PostLoops => ~Some(s, PostLoops)
    BY <1>2, <1>3, <1>4, <1>5
<1>7. Shape(<<g>> \o s)
    BY <1>1, <1>6, ShapeChange
<1>8. \A F : Some(<<g>> \o s, F) <=> g \in F \/ Some(s, F)
    BY <1>1, SomeOnTop
<1>9. /\ <<g>> \o s \in Seq(Calls) /\ <<g>> \o s # <<>> /\ (<<g>> \o s)[1] = g
      /\ Head(<<g>> \o s) = g
    BY <1>1, OnTop
<1>10. QED
    BY <1>1, <1>2, <1>7, <1>8, <1>9 DEF s

\* A call goes on, and calls another.
LEMMA WentAndCalled ==
    ASSUME Shape(stack), stack # <<>>, NEW c \in Calls, NEW g \in Calls,
           g.fn = Head(stack).fn, g.task = Head(stack).task, c \notin PostLoops, CalledFrom(c, g),
           g \in PostLoops => ~Some(Below, PostLoops),
           stack' = <<c, g>> \o Below
    PROVE  /\ Shape(stack') /\ stack' # <<>> /\ stack'[1] = c /\ Head(stack') = c
           /\ \A F : Some(stack', F) <=> c \in F \/ g \in F \/ Some(Below, F)
<1> DEFINE h == Head(stack)
           s == Below
           r == <<g>> \o s
<1>1. h \in Calls /\ s \in Seq(Calls) /\ Shape(<<h>> \o s)
    BY TopIs
<1>2. stack' = <<c>> \o r
    BY <1>1, PushedTwo DEF Calls
<1> HIDE DEF h, s
<1>3. Shape(r)
    BY <1>1, ShapeChange DEF h, s
<1>4. r \in Seq(Calls) /\ r # <<>> /\ r[1] = g
    BY <1>1, OnTop
<1>5. \A F : Some(r, F) <=> g \in F \/ Some(s, F)
    BY <1>1, SomeOnTop
<1> HIDE DEF r
<1>6. Shape(<<c>> \o r)
    BY <1>3, <1>4, ShapePush
<1>7. \A F : Some(<<c>> \o r, F) <=> c \in F \/ Some(r, F)
    BY <1>4, SomeOnTop
<1>8. <<c>> \o r # <<>> /\ (<<c>> \o r)[1] = c /\ Head(<<c>> \o r) = c
    BY <1>4, OnTop
<1> DEFINE x == <<c>> \o r
<1> HIDE DEF x
<1>9. /\ Shape(x) /\ x # <<>> /\ x[1] = c /\ Head(x) = c
      /\ \A F : Some(x, F) <=> c \in F \/ g \in F \/ Some(s, F)
    BY <1>5, <1>6, <1>7, <1>8 DEF x
<1>10. stack' = x
    BY <1>2 DEF x
<1>11. QED
    BY <1>9, <1>10 DEF s

\* A call only goes on.
LEMMA WentOnTo ==
    ASSUME Shape(stack), stack # <<>>, NEW g \in Calls,
           g.fn = Head(stack).fn, g.task = Head(stack).task,
           g \in PostLoops => ~Some(Below, PostLoops),
           stack' = <<g>> \o Below
    PROVE  /\ Shape(stack') /\ stack' # <<>> /\ stack'[1] = g /\ Head(stack') = g
           /\ \A F : Some(stack', F) <=> g \in F \/ Some(Below, F)
<1> DEFINE x == <<g>> \o Below
<1>1. Head(stack) \in Calls /\ Below \in Seq(Calls) /\ Shape(<<Head(stack)>> \o Below)
    BY TopIs
<1>2. Shape(x)
    BY <1>1, ShapeChange
<1>3. x # <<>> /\ x[1] = g /\ Head(x) = g
    BY <1>1, OnTop
<1>4. \A F : Some(x, F) <=> g \in F \/ Some(Below, F)
    BY <1>1, SomeOnTop
<1> HIDE DEF x
<1>5. stack' = x
    BY DEF x
<1>6. QED
    BY <1>2, <1>3, <1>4, <1>5

\* A loop runs a task.
LEMMA RanCall ==
    ASSUME Shape(stack), stack # <<>>, NEW t \in Task, RunsTask(t),
           ~TooOften(Head(stack).seen, t), CalledFrom(TaskCall(t), Head(stack))
    PROVE  /\ Shape(stack') /\ stack' # <<>> /\ stack'[1] = TaskCall(t)
           /\ Head(stack') = TaskCall(t) /\ TaskCall(t) \in Calls
           /\ \A F \in Counted : Some(stack', F) <=> TaskCall(t) \in F \/ Some(stack, F)
           /\ thrown' = thrown
<1> DEFINE h == Head(stack)
           g == [h EXCEPT !.seen[t] = @ + 1]
           s == Below
           c == TaskCall(t)
<1>1. /\ h \in Calls /\ s \in Seq(Calls)
      /\ \A F : Some(stack, F) <=> h \in F \/ Some(s, F)
    BY TopIs
<1>2. c \in Calls
    BY TaskAssumption DEF TaskCall, Call, NotSeen, Calls, Frames, Places
<1>3. g \in Calls /\ g.fn = h.fn /\ g.task = h.task /\ g.at = h.at
    BY <1>1, Seen DEF Calls
<1>4. stack' = <<c, g>> \o s /\ thrown' = thrown
    BY DEF RunsTask
<1> HIDE DEF g
<1>5. CalledFrom(c, g)
    BY <1>1, <1>3, CallKinds DEF CalledFrom
<1>6. \A F \in Counted : g \in F <=> h \in F
    BY <1>1, <1>3, CallKinds DEF Counted, Busy
<1>7. c \notin PostLoops
    BY <1>2, CallKinds DEF TaskCall, Call
<1>8. g \in PostLoops => ~Some(s, PostLoops)
    BY <1>1, <1>3, CallKinds, AroundCallback
<1> HIDE DEF c, h
<1>9. /\ Shape(stack') /\ stack' # <<>> /\ stack'[1] = c /\ Head(stack') = c
      /\ \A F : Some(stack', F) <=> c \in F \/ g \in F \/ Some(s, F)
    BY <1>2, <1>3, <1>4, <1>5, <1>7, <1>8, WentAndCalled DEF h
<1>10. QED
    BY <1>1, <1>2, <1>4, <1>6, <1>9 DEF c, h

\* A call returns.
LEMMA Returns ==
    ASSUME Shape(stack), stack # <<>>, Return
    PROVE  Shape(stack') /\ Alike(stack', Below) /\ (Head(stack).fn = "flushJobs" => stack' = Below)
<1> DEFINE h == Head(stack)
           s == Below
<1>1. h \in Calls /\ s \in Seq(Calls) /\ Shape(<<h>> \o s)
    BY TopIs
<1>2. stack' = IF s # <<>> /\ s[1].fn = "flushJobs" /\ h.fn # "flushJobs"
               THEN <<[s[1] EXCEPT !.seen = h.seen]>> \o Tail(s) ELSE s
    BY DEF Return
<1> HIDE DEF h, s
<1>3. Shape(stack') /\ Alike(stack', s)
    BY <1>1, <1>2, ShapeReturn
<1>4. QED
    BY <1>2, <1>3 DEF h, s

-----------------------------------------------------------------------------
(* The sort, and what a Set keeps.                                         *)

\* A total order of some indexes.
Orders(before, indexes) ==
    /\ \A i \in indexes : <<i, i>> \notin before
    /\ \A i, j \in indexes : i # j => <<i, j>> \in before \/ <<j, i>> \in before
    /\ \A i, j, k \in indexes :
          <<i, j>> \in before /\ <<j, k>> \in before => <<i, k>> \in before

\* How many are before i.
Rank(i, indexes, before) == Cardinality({k \in indexes : <<k, i>> \in before})

\* The ranks are different, in the order itself, and they are the numbers from 0.
LEMMA Ranks ==
    ASSUME NEW indexes, IsFiniteSet(indexes), NEW before, Orders(before, indexes)
    PROVE  /\ \A i \in indexes : Rank(i, indexes, before) \in 0..Cardinality(indexes) - 1
           /\ \A i, j \in indexes :
                 <<i, j>> \in before => Rank(i, indexes, before) < Rank(j, indexes, before)
           /\ \A i, j \in indexes :
                 Rank(i, indexes, before) = Rank(j, indexes, before) => i = j
           /\ \A n \in 1..Cardinality(indexes) :
                 \E i \in indexes : Rank(i, indexes, before) = n - 1
<1> DEFINE c == Cardinality(indexes)
           B(i) == {k \in indexes : <<k, i>> \in before}
           r == [i \in indexes |-> Rank(i, indexes, before)]
<1>1. c \in Nat
    BY FS_CardinalityType
<1>2. ASSUME NEW i \in indexes
      PROVE  /\ IsFiniteSet(B(i)) /\ Cardinality(B(i)) \in Nat
             /\ Rank(i, indexes, before) = Cardinality(B(i))
             /\ i \notin B(i) /\ B(i) \subseteq indexes
    <2>1. B(i) \in SUBSET indexes
        OBVIOUS
    <2>2. IsFiniteSet(B(i))
        BY <2>1, FS_Subset
    <2>3. Cardinality(B(i)) \in Nat
        BY <2>2, FS_CardinalityType
    <2>4. i \notin B(i)
        BY DEF Orders
    <2>5. QED
        BY <2>1, <2>2, <2>3, <2>4 DEF Rank
<1>3. ASSUME NEW i \in indexes
      PROVE  Cardinality(B(i) \cup {i}) = Cardinality(B(i)) + 1
    BY <1>2, FS_AddElement
<1>4. ASSUME NEW i \in indexes PROVE Rank(i, indexes, before) \in 0..c - 1
    <2>1. B(i) \cup {i} \in SUBSET indexes
        BY <1>2
    <2>2. Cardinality(B(i) \cup {i}) <= c
        BY <2>1, FS_Subset
    <2> HIDE DEF B, c
    <2>3. QED
        BY <1>1, <1>2, <1>3, <2>2
<1>5. ASSUME NEW i \in indexes, NEW j \in indexes, <<i, j>> \in before
      PROVE  Rank(i, indexes, before) < Rank(j, indexes, before)
    <2>1. B(i) \cup {i} \in SUBSET B(j)
        BY <1>5 DEF Orders
    <2>2. Cardinality(B(i) \cup {i}) <= Cardinality(B(j))
        BY <1>2, <2>1, FS_Subset
    <2> HIDE DEF B
    <2>3. QED
        BY <1>2, <1>3, <2>2
<1>a. ASSUME NEW i \in indexes, NEW j \in indexes, i # j
      PROVE  Rank(i, indexes, before) # Rank(j, indexes, before)
    <2>1. <<i, j>> \in before \/ <<j, i>> \in before
        BY <1>a DEF Orders
    <2>2. Rank(i, indexes, before) \in Int /\ Rank(j, indexes, before) \in Int
        BY <1>1, <1>4
    <2>3. CASE <<i, j>> \in before
        <3>1. Rank(i, indexes, before) < Rank(j, indexes, before)
            BY <1>5, <2>3
        <3>2. QED
            BY <2>2, <3>1
    <2>4. CASE <<j, i>> \in before
        <3>1. Rank(j, indexes, before) < Rank(i, indexes, before)
            BY <1>5, <2>4
        <3>2. QED
            BY <2>2, <3>1
    <2>5. QED
        BY <2>1, <2>3, <2>4
<1>6. r \in Injection(indexes, 0..c - 1)
    <2>1. r \in [indexes -> 0..c - 1]
        BY <1>4
    <2>2. ASSUME NEW i \in indexes, NEW j \in indexes, r[i] = r[j] PROVE i = j
        BY <1>a, <2>2
    <2> HIDE DEF r, c
    <2>3. QED
        BY <2>1, <2>2, Fun_IsInj
<1>7. IsFiniteSet(0..c - 1) /\ Cardinality(0..c - 1) = c
    BY <1>1, FS_Interval, SMTT(30)
<1>8. r \in Surjection(indexes, 0..c - 1)
    <2> HIDE DEF r
    <2>1. QED
        BY <1>6, <1>7, FS_Injection
<1>9. ASSUME NEW n \in 1..c PROVE \E i \in indexes : Rank(i, indexes, before) = n - 1
    <2>1. n - 1 \in 0..c - 1
        BY <1>1
    <2>2. \E i \in indexes : r[i] = n - 1
        BY <1>8, <2>1 DEF Surjection
    <2>3. QED
        BY <2>2
<1>10. QED
    BY <1>4, <1>5, <1>a, <1>9

\* All that stands at the indexes, in that order.
ArrangedBy(a, s, indexes, before) ==
    \E at \in [1..Len(a) -> indexes] :
        /\ \A n \in 1..Len(a) : a[n] = s[at[n]]
        /\ \A n, m \in 1..Len(a) : n < m => <<at[n], at[m]>> \in before
        /\ \A i \in indexes : \E n \in 1..Len(a) : at[n] = i

\* What is arranged.
LEMMA Arranges ==
    ASSUME NEW T, NEW s \in Seq(T), NEW indexes \in SUBSET DOMAIN s,
           NEW before, Orders(before, indexes),
           NEW a, a = Arranged(s, indexes, before)
    PROVE  /\ a \in Seq(T) /\ Len(a) = Cardinality(indexes) /\ IsFiniteSet(indexes)
           /\ ArrangedBy(a, s, indexes, before)
<1> DEFINE c == Cardinality(indexes)
           place(n) == CHOOSE i \in indexes : Rank(i, indexes, before) = n - 1
           at == [n \in 1..c |-> place(n)]
<1>1. IsFiniteSet(indexes) /\ c \in Nat
    <2>1. IsFiniteSet(DOMAIN s)
        BY FS_Interval
    <2>2. IsFiniteSet(indexes)
        BY <2>1, FS_Subset
    <2>3. QED
        BY <2>2, FS_CardinalityType
<1>2. /\ \A i \in indexes : Rank(i, indexes, before) \in 0..c - 1
      /\ \A i, j \in indexes :
            <<i, j>> \in before => Rank(i, indexes, before) < Rank(j, indexes, before)
      /\ \A i, j \in indexes :
            Rank(i, indexes, before) = Rank(j, indexes, before) => i = j
      /\ \A n \in 1..c : \E i \in indexes : Rank(i, indexes, before) = n - 1
    BY <1>1, Ranks
<1>3. ASSUME NEW n \in 1..c PROVE at[n] \in indexes /\ Rank(at[n], indexes, before) = n - 1
    <2>1. place(n) \in indexes /\ Rank(place(n), indexes, before) = n - 1
        BY <1>2
    <2> HIDE DEF place
    <2>2. QED
        BY <2>1
<1>4. a = [n \in 1..c |-> s[at[n]]]
    <2>1. a = [n \in 1..c |-> s[place(n)]]
        BY Zenon DEF Arranged, Rank
    <2> HIDE DEF place
    <2>2. \A n \in 1..c : at[n] = place(n)
        OBVIOUS
    <2>3. QED
        BY <2>1, <2>2
<1> HIDE DEF at, c
<1>5. a \in Seq(T) /\ Len(a) = c /\ \A n \in 1..c : a[n] = s[at[n]]
    <2>1. \A n \in 1..c : s[at[n]] \in T
        BY <1>3
    <2>2. QED
        BY <1>1, <1>4, <2>1
<1>6. ASSUME NEW n \in 1..c, NEW m \in 1..c, n < m PROVE <<at[n], at[m]>> \in before
    <2>1. at[n] # at[m] /\ ~(<<at[m], at[n]>> \in before)
        BY <1>1, <1>2, <1>3, <1>6
    <2>2. QED
        BY <1>3, <2>1 DEF Orders
<1>7. ASSUME NEW i \in indexes PROVE \E n \in 1..c : at[n] = i
    <2>1. Rank(i, indexes, before) \in 0..c - 1
        BY <1>2
    <2>2. PICK n \in 1..c : Rank(i, indexes, before) = n - 1
        <3>1. Rank(i, indexes, before) + 1 \in 1..c
            BY <1>1, <2>1
        <3>2. QED
            BY <2>1, <3>1
    <2>3. Rank(at[n], indexes, before) = Rank(i, indexes, before) /\ at[n] \in indexes
        BY <1>3, <2>2
    <2>4. at[n] = i
        BY <1>2, <2>3
    <2>5. QED
        BY <2>4
<1>8. at \in [1..c -> indexes]
    BY <1>3 DEF at
<1>9. QED
    BY <1>1, <1>5, <1>6, <1>7, <1>8 DEF c, ArrangedBy

\* new Set: something is left of what is not empty.
LEMMA DistinctIs ==
    ASSUME NEW T, NEW s \in Seq(T)
    PROVE  Distinct(s) \in Seq(T) /\ (s # <<>> => Distinct(s) # <<>>)
<1> DEFINE first == {i \in DOMAIN s : \A k \in 1..i - 1 : s[k] # s[i]}
           before == {p \in (DOMAIN s) \X (DOMAIN s) : p[1] < p[2]}
<1>1. Orders(before, first)
    BY DEF Orders
<1>2. s # <<>> => 1 \in first
    OBVIOUS
<1> HIDE DEF before
<1>3. /\ Arranged(s, first, before) \in Seq(T)
      /\ Len(Arranged(s, first, before)) = Cardinality(first) /\ IsFiniteSet(first)
    <2>1. first \in SUBSET DOMAIN s
        OBVIOUS
    <2> HIDE DEF first
    <2>2. QED
        BY <1>1, <2>1, Arranges
<1>4. s # <<>> => Cardinality(first) # 0
    BY <1>2, <1>3, FS_EmptySet
<1> HIDE DEF first
<1>5. QED
    BY <1>3, <1>4 DEF Distinct, first, before

\* What is in s, as often as it is there, in another order.
Permutes(a, s) ==
    \E at \in [DOMAIN s -> DOMAIN s] :
        /\ \A n \in DOMAIN s : a[n] = s[at[n]]
        /\ \A n, m \in DOMAIN s : at[n] = at[m] => n = m
        /\ \A i \in DOMAIN s : \E n \in DOMAIN s : at[n] = i

\* The sort leaves what is there, as often as it is there, and in order of the ids.
LEMMA SortIs ==
    ASSUME NEW T \in SUBSET Task, NEW s \in Seq(T), NEW a, a = SortById(s)
    PROVE  /\ a \in Seq(T) /\ Len(a) = Len(s) /\ Permutes(a, s)
           /\ \A n, m \in DOMAIN s : n < m => Id[a[n]] <= Id[a[m]]
<1> DEFINE before == {p \in (DOMAIN s) \X (DOMAIN s) :
                        \/ Id[s[p[1]]] < Id[s[p[2]]]
                        \/ Id[s[p[1]]] = Id[s[p[2]]] /\ p[1] < p[2]}
<1>1. \A i \in DOMAIN s : Id[s[i]] \in Nat /\ i \in Nat
    BY TaskAssumption
<1>2. \A i, j \in DOMAIN s : <<i, j>> \in before <=> \/ Id[s[i]] < Id[s[j]]
                                                     \/ Id[s[i]] = Id[s[j]] /\ i < j
    OBVIOUS
<1> HIDE DEF before
<1>3. Orders(before, DOMAIN s)
    <2>1. \A i \in DOMAIN s : <<i, i>> \notin before
        BY <1>1, <1>2
    <2>2. \A i, j \in DOMAIN s : i # j => <<i, j>> \in before \/ <<j, i>> \in before
        BY <1>1, <1>2
    <2>3. ASSUME NEW i \in DOMAIN s, NEW j \in DOMAIN s, NEW k \in DOMAIN s,
                 <<i, j>> \in before, <<j, k>> \in before
          PROVE  <<i, k>> \in before
        BY <1>1, <1>2, <2>3
    <2>4. QED
        BY <2>1, <2>2, <2>3 DEF Orders
<1>4. a \in Seq(T) /\ Len(a) = Cardinality(DOMAIN s) /\ ArrangedBy(a, s, DOMAIN s, before)
    <2> DEFINE indexes == DOMAIN s
    <2>1. indexes \in SUBSET DOMAIN s
        OBVIOUS
    <2>2. a = Arranged(s, indexes, before)
        BY DEF SortById, before
    <2>3. Orders(before, indexes)
        BY <1>3
    <2> HIDE DEF indexes
    <2>4. a \in Seq(T) /\ Len(a) = Cardinality(indexes) /\ ArrangedBy(a, s, indexes, before)
        BY <2>1, <2>2, <2>3, Arranges
    <2>5. QED
        BY <2>4 DEF indexes
<1>5. Cardinality(DOMAIN s) = Len(s) /\ DOMAIN s = 1..Len(s) /\ Len(s) \in Nat
    <2>1. DOMAIN s = 1..Len(s) /\ Len(s) \in Nat /\ 1 \in Int /\ Len(s) \in Int
        OBVIOUS
    <2>2. Cardinality(1..Len(s)) = IF 1 > Len(s) THEN 0 ELSE Len(s) - 1 + 1
        BY <2>1, FS_Interval
    <2>3. QED
        BY <2>1, <2>2
<1>6. PICK at \in [DOMAIN s -> DOMAIN s] :
            /\ \A n \in DOMAIN s : a[n] = s[at[n]]
            /\ \A n, m \in DOMAIN s : n < m => <<at[n], at[m]>> \in before
            /\ \A i \in DOMAIN s : \E n \in DOMAIN s : at[n] = i
    <2>1. 1..Len(a) = DOMAIN s
        BY <1>4, <1>5
    <2>2. PICK at \in [1..Len(a) -> DOMAIN s] :
            /\ \A n \in 1..Len(a) : a[n] = s[at[n]]
            /\ \A n, m \in 1..Len(a) : n < m => <<at[n], at[m]>> \in before
            /\ \A i \in DOMAIN s : \E n \in 1..Len(a) : at[n] = i
        BY <1>4 DEF ArrangedBy
    <2>3. /\ at \in [DOMAIN s -> DOMAIN s]
          /\ \A n \in DOMAIN s : a[n] = s[at[n]]
          /\ \A n, m \in DOMAIN s : n < m => <<at[n], at[m]>> \in before
          /\ \A i \in DOMAIN s : \E n \in DOMAIN s : at[n] = i
        BY <2>1, <2>2
    <2>4. QED
        BY <2>3, Zenon
<1>7. \A n, m \in DOMAIN s : at[n] = at[m] => n = m
    <2>1. \A n, m \in DOMAIN s : n < m => at[n] # at[m]
        BY <1>3, <1>6 DEF Orders
    <2>2. QED
        BY <1>1, <2>1
<1>8. \A n, m \in DOMAIN s : n < m => Id[a[n]] <= Id[a[m]]
    <2>1. ASSUME NEW n \in DOMAIN s, NEW m \in DOMAIN s, n < m PROVE Id[a[n]] <= Id[a[m]]
        <3>1. at[n] \in DOMAIN s /\ at[m] \in DOMAIN s /\ <<at[n], at[m]>> \in before
              /\ a[n] = s[at[n]] /\ a[m] = s[at[m]]
            BY <1>6, <2>1
        <3>2. Id[s[at[n]]] < Id[s[at[m]]] \/ Id[s[at[n]]] = Id[s[at[m]]]
            BY <1>2, <3>1
        <3>3. Id[s[at[n]]] \in Nat /\ Id[s[at[m]]] \in Nat
            BY <1>1, <3>1
        <3>4. QED
            BY <3>1, <3>2, <3>3
    <2>2. QED
        BY <2>1
<1>9. Permutes(a, s)
    BY <1>6, <1>7, Zenon DEF Permutes
<1>10. QED
    BY <1>4, <1>5, <1>9, <1>8

-----------------------------------------------------------------------------
(* The queue.                                                              *)

\* [...s, ...t], index by index.
LEMMA ConcatIs ==
    ASSUME NEW T, NEW a \in Seq(T), NEW b \in Seq(T), NEW m \in Nat, Len(a) = m,
           NEW n, n = m + Len(b)
    PROVE  /\ a \o b \in Seq(T) /\ Len(a \o b) = n
           /\ \A k \in 1..n : k <= m => (a \o b)[k] = a[k]
           /\ \A k \in 1..n : k > m => (a \o b)[k] = b[k - m]
OBVIOUS

\* queue.splice(n, 0, t): what is before n stays where it is, the rest moves up.
LEMMA InsertAtIs ==
    ASSUME NEW T, NEW q \in Seq(T), NEW p \in 1..Len(q) + 1, NEW t \in T
    PROVE  /\ InsertAt(q, p, t) \in Seq(T) /\ Len(InsertAt(q, p, t)) = Len(q) + 1
           /\ Len(q) \in Nat
           /\ \A k \in 1..Len(q) + 1 :
                 /\ k < p => InsertAt(q, p, t)[k] = q[k]
                 /\ k = p => InsertAt(q, p, t)[k] = t
                 /\ k > p => InsertAt(q, p, t)[k] = q[k - 1]
<1> DEFINE a == SubSeq(q, 1, p - 1)
           b == SubSeq(q, p, Len(q))
<1>1. Len(q) \in Nat /\ p \in Nat
    OBVIOUS
<1>2. a \in Seq(T) /\ Len(a) = p - 1 /\ \A k \in 1..p - 1 : a[k] = q[k]
    OBVIOUS
<1>3. b \in Seq(T) /\ Len(b) = Len(q) - p + 1 /\ \A k \in 1..Len(q) - p + 1 : b[k] = q[p + k - 1]
    OBVIOUS
<1>4. InsertAt(q, p, t) = (a \o <<t>>) \o b
    BY DEF InsertAt
<1> HIDE DEF a, b
<1>5. a \o <<t>> \in Seq(T) /\ Len(a \o <<t>>) = p
      /\ \A k \in 1..p : (a \o <<t>>)[k] = IF k < p THEN q[k] ELSE t
    BY <1>1, <1>2
<1> DEFINE c == a \o <<t>>
<1> HIDE DEF c
<1>6. c \in Seq(T) /\ Len(c) = p /\ \A k \in 1..p : c[k] = IF k < p THEN q[k] ELSE t
    BY <1>5 DEF c
<1>7. /\ c \o b \in Seq(T) /\ Len(c \o b) = Len(q) + 1
      /\ \A k \in 1..Len(q) + 1 : k <= p => (c \o b)[k] = c[k]
      /\ \A k \in 1..Len(q) + 1 : k > p => (c \o b)[k] = b[k - p]
    <2> DEFINE n == Len(q) + 1
    <2>1. p \in Nat /\ n = p + Len(b) /\ Len(c) = p /\ c \in Seq(T) /\ b \in Seq(T)
        BY <1>1, <1>3, <1>6
    <2> HIDE DEF n
    <2>2. /\ c \o b \in Seq(T) /\ Len(c \o b) = n
          /\ \A k \in 1..n : k <= p => (c \o b)[k] = c[k]
          /\ \A k \in 1..n : k > p => (c \o b)[k] = b[k - p]
        BY <2>1, ConcatIs
    <2>3. QED
        BY <2>2 DEF n
<1>8. ASSUME NEW k \in 1..Len(q) + 1, k > p PROVE (c \o b)[k] = q[k - 1]
    <2>1. k - p \in 1..Len(q) - p + 1 /\ p + (k - p) - 1 = k - 1
        BY <1>1, <1>8
    <2>2. QED
        BY <1>3, <1>7, <2>1
<1>9. InsertAt(q, p, t) = c \o b
    BY <1>4 DEF c
<1>10. QED
    BY <1>1, <1>6, <1>7, <1>8, <1>9

\* queue.splice(n, 1): what is after n moves down.
LEMMA RemoveAtIs ==
    ASSUME NEW T, NEW q \in Seq(T), NEW p \in 1..Len(q)
    PROVE  /\ RemoveAt(q, p) \in Seq(T) /\ Len(RemoveAt(q, p)) = Len(q) - 1
           /\ Len(q) \in Nat
           /\ \A k \in 1..Len(q) - 1 :
                 /\ k < p => RemoveAt(q, p)[k] = q[k]
                 /\ k >= p => RemoveAt(q, p)[k] = q[k + 1]
<1> DEFINE a == SubSeq(q, 1, p - 1)
           b == SubSeq(q, p + 1, Len(q))
<1>1. Len(q) \in Nat /\ p \in Nat
    OBVIOUS
<1>2. a \in Seq(T) /\ Len(a) = p - 1 /\ \A k \in 1..p - 1 : a[k] = q[k]
    OBVIOUS
<1>3. b \in Seq(T) /\ Len(b) = Len(q) - p /\ \A k \in 1..Len(q) - p : b[k] = q[p + k]
    OBVIOUS
<1>4. RemoveAt(q, p) = a \o b
    BY DEF RemoveAt
<1> HIDE DEF a, b
<1>5. /\ a \o b \in Seq(T) /\ Len(a \o b) = Len(q) - 1
      /\ \A k \in 1..Len(q) - 1 : k <= p - 1 => (a \o b)[k] = a[k]
      /\ \A k \in 1..Len(q) - 1 : k > p - 1 => (a \o b)[k] = b[k - (p - 1)]
    <2> DEFINE m == p - 1
               n == Len(q) - 1
    <2>1. m \in Nat /\ n = m + Len(b) /\ Len(a) = m /\ a \in Seq(T) /\ b \in Seq(T)
        BY <1>1, <1>2, <1>3
    <2> HIDE DEF m, n
    <2>2. /\ a \o b \in Seq(T) /\ Len(a \o b) = n
          /\ \A k \in 1..n : k <= m => (a \o b)[k] = a[k]
          /\ \A k \in 1..n : k > m => (a \o b)[k] = b[k - m]
        BY <2>1, ConcatIs
    <2>3. QED
        BY <2>2 DEF m, n
<1>6. ASSUME NEW k \in 1..Len(q) - 1, k >= p PROVE (a \o b)[k] = q[k + 1]
    <2>1. k - (p - 1) \in 1..Len(q) - p /\ p + (k - (p - 1)) = k + 1 /\ k > p - 1
        BY <1>1, <1>6
    <2>2. QED
        BY <1>3, <1>5, <2>1
<1>7. ASSUME NEW k \in 1..Len(q) - 1, k < p PROVE (a \o b)[k] = q[k]
    <2>1. k \in 1..p - 1 /\ k <= p - 1
        BY <1>1, <1>7
    <2>2. QED
        BY <1>2, <1>5, <2>1
<1>8. QED
    BY <1>1, <1>4, <1>5, <1>6, <1>7

\* A job that is inserted in its place, and is not there yet.
LEMMA InsertKeeps ==
    ASSUME NEW q \in Seq(Job), NEW n \in Nat \ {0}, NEW p \in 1..Len(q) + 1, NEW t \in Job,
           NEW r, r = InsertAt(q, p, t),
           p >= n \/ p = Len(q) + 1,
           \A j \in n..p - 1 : Id[q[j]] <= Id[t],
           \A j \in p..Len(q) : j >= n => Id[t] <= Id[q[j]],
           \A j \in n..Len(q) : q[j] # t
    PROVE  /\ InOrder(q, n) => InOrder(r, n)
           /\ Apart(q, n) => Apart(r, n)
           /\ Twice(q, n) => Twice(r, n)
<1>1. /\ r \in Seq(Job) /\ Len(r) = Len(q) + 1 /\ Len(q) \in Nat
      /\ \A k \in 1..Len(q) + 1 :
            /\ k < p => r[k] = q[k]
            /\ k = p => r[k] = t
            /\ k > p => r[k] = q[k - 1]
    <2> DEFINE x == InsertAt(q, p, t)
    <2>1. /\ x \in Seq(Job) /\ Len(x) = Len(q) + 1 /\ Len(q) \in Nat
          /\ \A k \in 1..Len(q) + 1 :
                /\ k < p => x[k] = q[k]
                /\ k = p => x[k] = t
                /\ k > p => x[k] = q[k - 1]
        BY InsertAtIs, SMTT(60)
    <2> HIDE DEF x
    <2>2. r = x
        BY DEF x
    <2>3. QED
        BY <2>1, <2>2
<1>2. \A k \in 1..Len(q) : q[k] \in Job /\ Id[q[k]] \in Nat
    BY TaskAssumption DEF Task
<1>3. Id[t] \in Nat
    BY TaskAssumption DEF Task
<1> DEFINE old(k) == IF k < p THEN k ELSE k - 1
<1>4. ASSUME NEW k \in n..Len(r)
      PROVE  /\ k # p => old(k) \in n..Len(q) /\ r[k] = q[old(k)]
             /\ k = p => r[k] = t
    BY <1>1
<1>5. ASSUME NEW k \in n..Len(r), NEW i \in n..k - 1
      PROVE  /\ i \in n..Len(r)
             /\ i # p /\ k # p => old(i) \in n..old(k) - 1
             /\ i = p => old(k) \in p..Len(q)
             /\ k = p => old(i) \in n..p - 1
    BY <1>1
<1> HIDE DEF old
<1>6. ASSUME NEW k \in n..Len(r), NEW i \in n..k - 1, r[i] = r[k]
      PROVE  i # p /\ k # p /\ q[old(i)] = q[old(k)]
    <2>1. i \in n..Len(r)
        BY <1>5
    <2>2. ASSUME i = p PROVE FALSE
        <3>1. k # p
            BY <1>1, <2>2
        <3>2. r[i] = t /\ r[k] = q[old(k)] /\ old(k) \in n..Len(q)
            BY <1>4, <2>1, <2>2, <3>1
        <3>3. QED
            BY <1>6, <3>2
    <2>3. ASSUME k = p PROVE FALSE
        <3>1. i # p
            BY <1>1, <2>3
        <3>2. r[k] = t /\ r[i] = q[old(i)] /\ old(i) \in n..Len(q)
            BY <1>4, <2>1, <2>3, <3>1
        <3>3. QED
            BY <1>6, <3>2
    <2>4. QED
        BY <1>4, <1>6, <2>1, <2>2, <2>3
<1>7. ASSUME InOrder(q, n) PROVE InOrder(r, n)
    <2>1. SUFFICES ASSUME NEW k \in n..Len(r), NEW i \in n..k PROVE Id[r[i]] <= Id[r[k]]
        BY DEF InOrder
    <2>2. CASE i = k
        <3>1. r[k] \in Job
            BY <1>1
        <3>2. QED
            BY <2>2, <3>1, TaskAssumption DEF Task
    <2>3. CASE i # k /\ i = p
        <3>1. i \in n..k - 1 /\ k # p
            BY <1>1, <2>3
        <3>2. r[i] = t /\ r[k] = q[old(k)] /\ old(k) \in p..Len(q) /\ old(k) >= n
            BY <1>4, <1>5, <2>3, <3>1
        <3>3. QED
            BY <3>2
    <2>4. CASE i # k /\ k = p
        <3>1. i \in n..k - 1 /\ i # p
            BY <1>1, <2>4
        <3>2. r[k] = t /\ r[i] = q[old(i)] /\ old(i) \in n..p - 1
            BY <1>4, <1>5, <2>4, <3>1
        <3>3. QED
            BY <3>2
    <2>5. CASE i # k /\ i # p /\ k # p
        <3>1. i \in n..k - 1
            BY <1>1, <2>5
        <3>a. i \in n..Len(r) /\ old(i) \in n..old(k) - 1
            BY <1>5, <2>5, <3>1
        <3>b. r[i] = q[old(i)] /\ r[k] = q[old(k)] /\ old(k) \in n..Len(q)
            BY <1>4, <2>5, <3>a
        <3>c. old(i) \in n..old(k)
            BY <1>1, <3>a, <3>b
        <3>2. r[i] = q[old(i)] /\ r[k] = q[old(k)] /\ old(i) \in n..old(k) /\ old(k) \in n..Len(q)
            BY <3>b, <3>c
        <3>3. QED
            BY <1>7, <3>2 DEF InOrder
    <2>6. QED
        BY <2>2, <2>3, <2>4, <2>5
<1>8. ASSUME Apart(q, n) PROVE Apart(r, n)
    <2>1. SUFFICES ASSUME NEW k \in n..Len(r), NEW i \in n..k - 1, r[i] = r[k] PROVE FALSE
        BY DEF Apart
    <2>2. old(i) \in n..old(k) - 1 /\ old(k) \in n..Len(q) /\ q[old(i)] = q[old(k)]
        BY <1>4, <1>5, <1>6, <2>1
    <2>3. QED
        BY <1>8, <2>2 DEF Apart
<1>9. ASSUME Twice(q, n) PROVE Twice(r, n)
    <2>1. SUFFICES ASSUME NEW k \in n..Len(r), NEW l \in n..Len(r),
                          NEW i \in n..k - 1, NEW j \in n..l - 1, r[i] = r[k], r[j] = r[l]
                   PROVE  i = j /\ k = l
        BY DEF Twice
    <2>2. /\ old(i) \in n..old(k) - 1 /\ old(k) \in n..Len(q) /\ q[old(i)] = q[old(k)]
          /\ i # p /\ k # p /\ i \in n..Len(r)
        BY <1>4, <1>5, <1>6, <2>1
    <2>3. /\ old(j) \in n..old(l) - 1 /\ old(l) \in n..Len(q) /\ q[old(j)] = q[old(l)]
          /\ j # p /\ l # p /\ j \in n..Len(r)
        BY <1>4, <1>5, <1>6, <2>1
    <2>4. old(i) = old(j) /\ old(k) = old(l)
        BY <1>9, <2>2, <2>3 DEF Twice
    <2>5. \A x, y \in n..Len(r) : x # p /\ y # p /\ old(x) = old(y) => x = y
        BY <1>1, SMTT(30) DEF old
    <2>6. QED
        BY <2>2, <2>3, <2>4, <2>5
<1>10. QED
    BY <1>7, <1>8, <1>9

\* A job is removed.
LEMMA RemoveKeeps ==
    ASSUME NEW q \in Seq(Job), NEW n \in Nat \ {0}, NEW p \in 1..Len(q), p >= n,
           NEW r, r = RemoveAt(q, p)
    PROVE  /\ InOrder(q, n) => InOrder(r, n)
           /\ Apart(q, n) => Apart(r, n)
           /\ Twice(q, n) => Twice(r, n)
<1>1. /\ r \in Seq(Job) /\ Len(r) = Len(q) - 1 /\ Len(q) \in Nat
      /\ \A k \in 1..Len(q) - 1 : (k < p => r[k] = q[k]) /\ (k >= p => r[k] = q[k + 1])
    BY RemoveAtIs
<1> DEFINE old(k) == IF k < p THEN k ELSE k + 1
<1>2. ASSUME NEW k \in n..Len(r) PROVE old(k) \in n..Len(q) /\ r[k] = q[old(k)]
    BY <1>1
<1>3. ASSUME NEW k \in n..Len(r), NEW i \in n..k PROVE i \in n..Len(r) /\ old(i) \in n..old(k)
    BY <1>1
<1>4. ASSUME NEW k \in n..Len(r), NEW i \in n..k - 1 PROVE i \in n..Len(r) /\ old(i) \in n..old(k) - 1
    BY <1>1
<1>5. \A x, y \in n..Len(r) : old(x) = old(y) => x = y
    BY <1>1
<1> HIDE DEF old
<1>6. ASSUME InOrder(q, n) PROVE InOrder(r, n)
    BY <1>2, <1>3, <1>6 DEF InOrder
<1>7. ASSUME Apart(q, n) PROVE Apart(r, n)
    BY <1>2, <1>4, <1>7, SMTT(60) DEF Apart
<1>8. ASSUME Twice(q, n) PROVE Twice(r, n)
    <2>1. SUFFICES ASSUME NEW k \in n..Len(r), NEW l \in n..Len(r),
                          NEW i \in n..k - 1, NEW j \in n..l - 1, r[i] = r[k], r[j] = r[l]
                   PROVE  i = j /\ k = l
        BY DEF Twice
    <2>2. /\ old(i) \in n..old(k) - 1 /\ old(k) \in n..Len(q) /\ q[old(i)] = q[old(k)]
          /\ old(j) \in n..old(l) - 1 /\ old(l) \in n..Len(q) /\ q[old(j)] = q[old(l)]
          /\ i \in n..Len(r) /\ j \in n..Len(r)
        BY <1>2, <1>4, <2>1
    <2>3. old(i) = old(j) /\ old(k) = old(l)
        BY <1>8, <2>2 DEF Twice
    <2>4. QED
        BY <1>5, <2>2, <2>3
<1>9. QED
    BY <1>6, <1>7, <1>8

\* The sort, of a queue of which only the first may be there again.
LEMMA SortKeeps ==
    ASSUME NEW q \in Seq(Job), Apart(q, 2), NEW a, a = SortById(q)
    PROVE  /\ a \in Seq(Job) /\ Len(a) = Len(q) /\ InOrder(a, 1) /\ Twice(a, 1)
           /\ \A i \in 1..Len(q) : \E n \in 1..Len(q) : a[n] = q[i]
<1>1. Job \in SUBSET Task /\ DOMAIN q = 1..Len(q) /\ Len(q) \in Nat
    BY DEF Task
<1>2. /\ a \in Seq(Job) /\ Len(a) = Len(q) /\ Permutes(a, q)
      /\ \A n, m \in DOMAIN q : n < m => Id[a[n]] <= Id[a[m]]
    BY <1>1, SortIs
<1>3. PICK at \in [DOMAIN q -> DOMAIN q] :
            /\ \A n \in DOMAIN q : a[n] = q[at[n]]
            /\ \A n, m \in DOMAIN q : at[n] = at[m] => n = m
            /\ \A i \in DOMAIN q : \E n \in DOMAIN q : at[n] = i
    BY <1>2 DEF Permutes
<1>4. \A i \in 1..Len(q) : \E n \in 1..Len(q) : a[n] = q[i]
    BY <1>1, <1>3
<1>5. InOrder(a, 1)
    <2>1. SUFFICES ASSUME NEW k \in 1..Len(a), NEW i \in 1..k PROVE Id[a[i]] <= Id[a[k]]
        BY DEF InOrder
    <2>2. CASE i = k
        BY <1>1, <1>2, <2>2, TaskAssumption
    <2>3. CASE i # k
        <3>1. i \in DOMAIN q /\ k \in DOMAIN q /\ i < k
            BY <1>1, <1>2, <2>3
        <3>2. QED
            BY <1>2, <3>1
    <2>4. QED
        BY <2>2, <2>3
<1>6. \A x, y \in 1..Len(q) : x # 1 /\ y # 1 /\ q[x] = q[y] => x = y
    <2>1. SUFFICES ASSUME NEW x \in 1..Len(q), NEW y \in 1..Len(q), x # 1, y # 1, x # y
                   PROVE  q[x] # q[y]
        OBVIOUS
    <2>2. CASE x < y
        <3>1. y \in 2..Len(q) /\ x \in 2..y - 1
            BY <1>1, <2>1, <2>2
        <3>2. QED
            BY <3>1 DEF Apart
    <2>3. CASE y < x
        <3>1. x \in 2..Len(q) /\ y \in 2..x - 1
            BY <1>1, <2>1, <2>3
        <3>2. QED
            BY <3>1 DEF Apart
    <2>4. QED
        BY <1>1, <2>1, <2>2, <2>3
<1>7. Twice(a, 1)
    <2>1. SUFFICES ASSUME NEW k \in 1..Len(a), NEW l \in 1..Len(a),
                          NEW i \in 1..k - 1, NEW j \in 1..l - 1, a[i] = a[k], a[j] = a[l]
                   PROVE  i = j /\ k = l
        BY DEF Twice
    <2>2. /\ k \in DOMAIN q /\ l \in DOMAIN q /\ i \in DOMAIN q /\ j \in DOMAIN q
          /\ i < k /\ j < l
        BY <1>1, <1>2
    <2>3. /\ at[k] \in 1..Len(q) /\ at[l] \in 1..Len(q) /\ at[i] \in 1..Len(q) /\ at[j] \in 1..Len(q)
          /\ q[at[i]] = q[at[k]] /\ q[at[j]] = q[at[l]]
        BY <1>1, <1>3, <2>1, <2>2
    <2>4. at[i] # at[k] /\ at[j] # at[l]
        <3>1. i # k /\ j # l
            BY <1>1, <2>2
        <3>2. QED
            BY <1>3, <2>2, <3>1
    <2>5. (at[i] = 1 \/ at[k] = 1) /\ (at[j] = 1 \/ at[l] = 1)
        BY <1>6, <2>3, <2>4
    <2>6. (at[i] = at[j] /\ at[k] = at[l]) \/ (at[i] = at[l] /\ at[k] = at[j])
        BY <1>6, <2>3, <2>4, <2>5
    <2>7. (i = j /\ k = l) \/ (i = l /\ k = j)
        BY <1>3, <2>2, <2>6
    <2>8. QED
        BY <1>1, <2>2, <2>7
<1>8. QED
    BY <1>2, <1>4, <1>5, <1>7

-----------------------------------------------------------------------------
(* What a step makes of the queue.                                         *)

\* A job runs where a job's call is on the stack.
LEMMA JobRunsIs ==
    ASSUME stack \in Seq(Calls)
    PROVE  JobRuns <=> Some(stack, JobTasks)
BY CallKinds DEF JobRuns, Some

\* What holds of the queue from n on holds from a later index on.
LEMMA Later ==
    ASSUME NEW q \in Seq(Job), NEW n \in Nat, NEW m \in Nat, n <= m
    PROVE  /\ InOrder(q, n) => InOrder(q, m)
           /\ Apart(q, n) => Apart(q, m)
           /\ Twice(q, n) => Twice(q, m)
<1>1. /\ \A k \in m..Len(q) : k \in n..Len(q)
      /\ \A k \in m..Len(q) : \A i \in m..k : i \in n..k
      /\ \A k \in m..Len(q) : \A i \in m..k - 1 : i \in n..k - 1
    OBVIOUS
<1>2. InOrder(q, n) => InOrder(q, m)
    BY <1>1 DEF InOrder
<1>3. Apart(q, n) => Apart(q, m)
    BY <1>1 DEF Apart
<1>4. Twice(q, n) => Twice(q, m)
    BY <1>1 DEF Twice
<1>5. QED
    BY <1>2, <1>3, <1>4

\* The place that the search finds.
LEMMA PlaceIs ==
    ASSUME TypeOK, InOrder(queue, flushIndex + 2), NEW t \in Job, NEW i \in FindInsertionIndex(t),
           NEW p, p = IF i > Len(queue) THEN Len(queue) + 1 ELSE i + 1
    PROVE  /\ p \in 1..Len(queue) + 1
           /\ p >= flushIndex + 2 \/ (p = Len(queue) + 1 /\ flushIndex = Len(queue))
           /\ \A j \in flushIndex + 2..p - 1 : Id[queue[j]] <= Id[t]
           /\ \A j \in p..Len(queue) : j >= flushIndex + 2 => Id[t] <= Id[queue[j]]
<1>1. queue \in Seq(Job) /\ flushIndex \in 0..Len(queue) /\ Len(queue) \in Nat
    BY DEF TypeOK
<1>2. \A k \in 1..Len(queue) : queue[k] \in Job /\ Id[queue[k]] \in Nat
    BY <1>1, TaskAssumption DEF Task
<1>3. Id[t] \in Nat
    BY TaskAssumption DEF Task
<1>4. CASE flushIndex + 1 >= Len(queue)
    <2>1. i = flushIndex + 1
        BY <1>4 DEF FindInsertionIndex, SearchStart
    <2>2. QED
        BY <1>1, <1>4, <2>1
<1>5. CASE ~(flushIndex + 1 >= Len(queue))
    <2>1. /\ i \in flushIndex + 1..Len(queue)
          /\ i > flushIndex + 1 => Id[queue[i]] < Id[t]
          /\ i < Len(queue) => Id[queue[i + 1]] >= Id[t]
        BY <1>5 DEF FindInsertionIndex, SearchStart
    <2>2. p = i + 1
        BY <1>1, <2>1
    <2>3. ASSUME NEW j \in flushIndex + 2..p - 1 PROVE Id[queue[j]] <= Id[t]
        <3>1. i \in flushIndex + 2..Len(queue) /\ j \in flushIndex + 2..i /\ j \in 1..Len(queue)
            BY <1>1, <2>1, <2>2
        <3>2. Id[queue[j]] <= Id[queue[i]]
            BY <3>1 DEF InOrder
        <3>3. QED
            BY <1>1, <1>2, <1>3, <2>1, <3>1, <3>2
    <2>4. ASSUME NEW j \in p..Len(queue) PROVE Id[t] <= Id[queue[j]]
        <3>1. i < Len(queue) /\ i + 1 \in flushIndex + 2..j /\ j \in flushIndex + 2..Len(queue)
            BY <1>1, <2>1, <2>2
        <3>2. Id[queue[i + 1]] <= Id[queue[j]]
            BY <3>1 DEF InOrder
        <3>3. i + 1 \in 1..Len(queue) /\ j \in 1..Len(queue)
            BY <1>1, <3>1
        <3>4. QED
            BY <1>2, <1>3, <2>1, <3>1, <3>2, <3>3
    <2>5. QED
        BY <1>1, <2>1, <2>2, <2>3, <2>4
<1>6. QED
    BY <1>4, <1>5

\* A job that is queued.
LEMMA QueuedAt ==
    ASSUME TypeOK, InOrder(queue, flushIndex + 2), NEW t \in Job, QueueJob(t), Wanted(t)
    PROVE  /\ flushIndex' = flushIndex
           /\ \E p \in 1..Len(queue) + 1 :
                 /\ queue' = InsertAt(queue, p, t)
                 /\ p >= flushIndex + 2 \/ (p = Len(queue) + 1 /\ flushIndex = Len(queue))
                 /\ \A j \in flushIndex + 2..p - 1 : Id[queue[j]] <= Id[t]
                 /\ \A j \in p..Len(queue) : j >= flushIndex + 2 => Id[t] <= Id[queue[j]]
<1>1. flushIndex' = flushIndex
    BY DEF QueueJob
<1>2. PICK i \in FindInsertionIndex(t) :
            queue' = InsertAt(queue, IF i > Len(queue) THEN Len(queue) + 1 ELSE i + 1, t)
    BY DEF QueueJob
<1> DEFINE p == IF i > Len(queue) THEN Len(queue) + 1 ELSE i + 1
<1>3. queue' = InsertAt(queue, p, t)
    BY <1>2
<1>4. p = IF i > Len(queue) THEN Len(queue) + 1 ELSE i + 1
    OBVIOUS
<1> HIDE DEF p
<1>5. /\ p \in 1..Len(queue) + 1
      /\ p >= flushIndex + 2 \/ (p = Len(queue) + 1 /\ flushIndex = Len(queue))
      /\ \A j \in flushIndex + 2..p - 1 : Id[queue[j]] <= Id[t]
      /\ \A j \in p..Len(queue) : j >= flushIndex + 2 => Id[t] <= Id[queue[j]]
    BY <1>4, PlaceIs
<1>6. QED
    BY <1>1, <1>3, <1>5

\* A job that is queued waits, and so does each that waited.
LEMMA QueuedWaits ==
    ASSUME TypeOK, InOrder(queue, flushIndex + 2), NEW t \in Job, QueueJob(t), Wanted(t),
           stack \in Seq(Calls), stack' \in Seq(Calls),
           Some(stack, JobTasks) => flushIndex < Len(queue),
           Some(stack', JobTasks) <=> Some(stack, JobTasks)
    PROVE  /\ t \in Waiting' /\ \A u \in Waiting : u \in Waiting'
           /\ queue' \in Seq(Job) /\ Len(queue') = Len(queue) + 1
<1>1. queue \in Seq(Job) /\ flushIndex \in 0..Len(queue) /\ Len(queue) \in Nat
    BY DEF TypeOK
<1>2. PICK p \in 1..Len(queue) + 1 :
            /\ queue' = InsertAt(queue, p, t)
            /\ p >= flushIndex + 2 \/ (p = Len(queue) + 1 /\ flushIndex = Len(queue))
    BY QueuedAt
<1>3. /\ queue' \in Seq(Job) /\ Len(queue') = Len(queue) + 1
      /\ \A k \in 1..Len(queue) + 1 :
            /\ k < p => queue'[k] = queue[k]
            /\ k = p => queue'[k] = t
            /\ k > p => queue'[k] = queue[k - 1]
    <2> DEFINE x == InsertAt(queue, p, t)
    <2>1. /\ x \in Seq(Job) /\ Len(x) = Len(queue) + 1
          /\ \A k \in 1..Len(queue) + 1 :
                /\ k < p => x[k] = queue[k]
                /\ k = p => x[k] = t
                /\ k > p => x[k] = queue[k - 1]
        BY <1>1, InsertAtIs
    <2> HIDE DEF x
    <2>2. queue' = x
        BY <1>2 DEF x
    <2>3. QED
        BY <2>1, <2>2
<1>4. flushIndex' = flushIndex
    BY DEF QueueJob
<1>5. /\ FirstWaiting = flushIndex + (IF Some(stack, JobTasks) THEN 2 ELSE 1)
      /\ FirstWaiting' = FirstWaiting
    <2>1. JobRuns <=> Some(stack, JobTasks)
        BY JobRunsIs
    <2>2. JobRuns' <=> Some(stack', JobTasks)
        BY CallKinds DEF JobRuns, Some
    <2>3. QED
        BY <1>4, <2>1, <2>2 DEF FirstWaiting
<1>6. /\ FirstWaiting \in Nat \ {0} /\ p >= FirstWaiting
      /\ FirstWaiting = flushIndex + 1 \/ FirstWaiting = flushIndex + 2
    BY <1>1, <1>2, <1>5
<1>7. t \in Waiting'
    <2>1. p \in FirstWaiting..Len(queue') /\ queue'[p] = t
        BY <1>1, <1>2, <1>3, <1>6
    <2>2. QED
        BY <1>5, <2>1 DEF Waiting
<1>8. ASSUME NEW u \in Waiting PROVE u \in Waiting'
    <2>1. PICK k \in FirstWaiting..Len(queue) : queue[k] = u
        BY DEF Waiting
    <2>2. k < p => k \in FirstWaiting..Len(queue') /\ queue'[k] = u
        BY <1>1, <1>3, <1>6, <2>1
    <2>3. k >= p => k + 1 \in FirstWaiting..Len(queue') /\ queue'[k + 1] = u
        BY <1>1, <1>3, <1>6, <2>1
    <2>4. QED
        BY <1>1, <1>2, <1>5, <1>6, <2>1, <2>2, <2>3, SMTT(30) DEF Waiting
<1>9. QED
    BY <1>3, <1>7, <1>8

\* The queue is as it was.
LEMMA QueueSame ==
    ASSUME TypeOK, QueueInv, stack \in Seq(Calls), stack' \in Seq(Calls),
           queue' = queue, flushIndex' = flushIndex,
           Some(stack', JobTasks) <=> Some(stack, JobTasks),
           Some(stack', JobLoops) <=> Some(stack, JobLoops),
           Runs("flushJobs", "jobs")' => Runs("flushJobs", "jobs")
    PROVE  QueueInv' /\ WaitingJobIsKept
<1>1. queue \in Seq(Job) /\ flushIndex \in 0..Len(queue) /\ Len(queue) \in Nat
    BY DEF TypeOK
<1>2. FirstInOrder \in Nat /\ FirstInOrder' \in Nat /\ FirstInOrder <= FirstInOrder'
      /\ FirstInOrder <= flushIndex + 2 /\ flushIndex + 2 \in Nat
    BY <1>1 DEF FirstInOrder
<1>3. InOrder(queue, FirstInOrder')
    BY <1>1, <1>2, Later DEF QueueInv
<1>4. QueueInv'
    BY <1>3 DEF QueueInv
<1>5. InOrder(queue, flushIndex + 2)
    BY <1>1, <1>2, Later DEF QueueInv
<1>6. ASSUME NEW t \in Job, QueueJob(t), Wanted(t) PROVE t \in Waiting'
    BY <1>5, <1>6, QueuedWaits DEF QueueInv
<1>7. ASSUME NEW t \in Waiting PROVE t \in Waiting'
    <2>1. JobRuns <=> Some(stack, JobTasks)
        BY JobRunsIs
    <2>2. JobRuns' <=> Some(stack', JobTasks)
        BY CallKinds DEF JobRuns, Some
    <2>3. FirstWaiting' = FirstWaiting
        BY <2>1, <2>2 DEF FirstWaiting
    <2>4. QED
        BY <2>3 DEF Waiting
<1>8. QED
    BY <1>4, <1>6, <1>7 DEF WaitingJobIsKept

\* A job is queued, or is there already.
LEMMA JobIsQueued ==
    ASSUME TypeOK, QueueInv, stack \in Seq(Calls), stack' \in Seq(Calls),
           NEW t \in Job, QueueJob(t),
           Some(stack', JobTasks) <=> Some(stack, JobTasks),
           Some(stack', JobLoops) <=> Some(stack, JobLoops),
           ~Runs("flushJobs", "jobs"), ~Runs("flushJobs", "jobs")'
    PROVE  /\ QueueInv' /\ WaitingJobIsKept
           /\ queue' \in Seq(Job) /\ flushIndex' \in 0..Len(queue')
<1>1. queue \in Seq(Job) /\ flushIndex \in 0..Len(queue) /\ Len(queue) \in Nat
    BY DEF TypeOK
<1>2. FirstInOrder = flushIndex + 2 /\ FirstInOrder' = flushIndex' + 2
    BY DEF FirstInOrder
<1>3. InOrder(queue, flushIndex + 2)
    BY <1>2 DEF QueueInv
<1>4. CASE Wanted(t)
    <2>1. flushIndex' = flushIndex
        BY <1>4 DEF QueueJob
    <2>2. PICK p \in 1..Len(queue) + 1 :
             /\ queue' = InsertAt(queue, p, t)
             /\ p >= flushIndex + 2 \/ (p = Len(queue) + 1 /\ flushIndex = Len(queue))
             /\ \A j \in flushIndex + 2..p - 1 : Id[queue[j]] <= Id[t]
             /\ \A j \in p..Len(queue) : j >= flushIndex + 2 => Id[t] <= Id[queue[j]]
        BY <1>3, <1>4, QueuedAt
    <2>3. ASSUME NEW j \in flushIndex + 2..Len(queue) PROVE queue[j] # t
        <3>1. j \in flushIndex + 1..Len(queue) /\ j \in (flushIndex + 1) + 1..Len(queue)
            BY <1>1
        <3>2. QED
            BY <1>4, <3>1 DEF Wanted, Includes
    <2> DEFINE n == flushIndex + 2
    <2>4. n \in Nat \ {0} /\ (p >= n \/ p = Len(queue) + 1)
        BY <1>1, <2>2
    <2>5. /\ \A j \in n..p - 1 : Id[queue[j]] <= Id[t]
          /\ \A j \in p..Len(queue) : j >= n => Id[t] <= Id[queue[j]]
          /\ \A j \in n..Len(queue) : queue[j] # t
        BY <2>2, <2>3
    <2>6. InOrder(queue, n) /\ Twice(queue, n) /\ (~Some(stack, JobLoops) => n = 2 /\ Apart(queue, n))
        BY <1>3 DEF QueueInv
    <2>7. n = flushIndex + 2
        OBVIOUS
    <2> HIDE DEF n
    <2>8. /\ InOrder(queue, n) => InOrder(queue', n)
          /\ Apart(queue, n) => Apart(queue', n)
          /\ Twice(queue, n) => Twice(queue', n)
        <3> DEFINE x == InsertAt(queue, p, t)
        <3>1. queue' = x
            BY <2>2
        <3>2. /\ InOrder(queue, n) => InOrder(x, n)
              /\ Apart(queue, n) => Apart(x, n)
              /\ Twice(queue, n) => Twice(x, n)
            BY <1>1, <2>4, <2>5, InsertKeeps, ZenonT(60)
        <3> HIDE DEF x
        <3>3. QED
            BY <3>1, <3>2
    <2>9. queue' \in Seq(Job) /\ Len(queue') = Len(queue) + 1
          /\ t \in Waiting' /\ \A u \in Waiting : u \in Waiting'
        BY <1>3, <1>4, QueuedWaits DEF QueueInv
    <2>10. QueueInv'
        BY <1>1, <1>2, <2>1, <2>6, <2>7, <2>8, <2>9 DEF QueueInv
    <2>11. \A u \in Job : QueueJob(u) /\ Wanted(u) => u \in Waiting'
        BY <1>3, QueuedWaits DEF QueueInv
    <2>12. QED
        BY <1>1, <2>1, <2>9, <2>10, <2>11 DEF WaitingJobIsKept
<1>5. CASE ~Wanted(t)
    <2>1. queue' = queue /\ flushIndex' = flushIndex
        BY <1>5 DEF QueueJob, queueVars
    <2>2. QED
        BY <1>1, <2>1, QueueSame
<1>6. QED
    BY <1>4, <1>5

\* A job is removed, or it is the one that runs.
LEMMA JobIsRemoved ==
    ASSUME TypeOK, QueueInv, stack \in Seq(Calls), stack' \in Seq(Calls),
           NEW t \in Job, InvalidateJob(t),
           Some(stack', JobTasks) <=> Some(stack, JobTasks),
           Some(stack', JobLoops) <=> Some(stack, JobLoops),
           ~Runs("flushJobs", "jobs"), ~Runs("flushJobs", "jobs")'
    PROVE  /\ QueueInv' /\ WaitingJobIsKept
           /\ queue' \in Seq(Job) /\ flushIndex' \in 0..Len(queue')
<1>1. queue \in Seq(Job) /\ flushIndex \in 0..Len(queue) /\ Len(queue) \in Nat
    BY DEF TypeOK
<1>2. FirstInOrder = flushIndex + 2 /\ FirstInOrder' = flushIndex' + 2
    BY DEF FirstInOrder
<1>3. InOrder(queue, flushIndex + 2)
    BY <1>2 DEF QueueInv
<1>4. flushIndex' = flushIndex
    BY DEF InvalidateJob
<1>5. PICK p \in 1..Len(queue) :
         /\ queue[p] = t
         /\ queue' = IF p - 1 > flushIndex THEN RemoveAt(queue, p) ELSE queue
    BY <1>1 DEF InvalidateJob
<1>6. CASE p - 1 > flushIndex
    <2> DEFINE n == flushIndex + 2
    <2>1. n \in Nat \ {0} /\ p >= n
        BY <1>1, <1>6
    <2>2. InOrder(queue, n) /\ Twice(queue, n) /\ (~Some(stack, JobLoops) => n = 2 /\ Apart(queue, n))
        BY <1>3 DEF QueueInv
    <2>3. n = flushIndex + 2
        OBVIOUS
    <2> HIDE DEF n
    <2>4. queue' = RemoveAt(queue, p)
        BY <1>5, <1>6
    <2>5. /\ InOrder(queue, n) => InOrder(queue', n)
          /\ Apart(queue, n) => Apart(queue', n)
          /\ Twice(queue, n) => Twice(queue', n)
        BY <1>1, <2>1, <2>4, RemoveKeeps
    <2>6. /\ queue' \in Seq(Job) /\ Len(queue') = Len(queue) - 1
          /\ \A k \in 1..Len(queue) - 1 :
                /\ k < p => queue'[k] = queue[k]
                /\ k >= p => queue'[k] = queue[k + 1]
        <3> DEFINE x == RemoveAt(queue, p)
        <3>1. /\ x \in Seq(Job) /\ Len(x) = Len(queue) - 1
              /\ \A k \in 1..Len(queue) - 1 :
                    /\ k < p => x[k] = queue[k]
                    /\ k >= p => x[k] = queue[k + 1]
            BY <1>1, RemoveAtIs
        <3> HIDE DEF x
        <3>2. queue' = x
            BY <2>4 DEF x
        <3>3. QED
            BY <3>1, <3>2
    <2>7. QueueInv'
        BY <1>1, <1>2, <1>4, <1>6, <2>2, <2>3, <2>5, <2>6 DEF QueueInv
    <2>8. \A u \in Job : QueueJob(u) /\ Wanted(u) => u \in Waiting'
        BY <1>3, QueuedWaits DEF QueueInv
    <2>9. FirstWaiting' = FirstWaiting /\ FirstWaiting \in Nat \ {0} /\ FirstWaiting <= flushIndex + 2
        <3>1. JobRuns <=> Some(stack, JobTasks)
            BY JobRunsIs
        <3>2. JobRuns' <=> Some(stack', JobTasks)
            BY CallKinds DEF JobRuns, Some
        <3>3. QED
            BY <1>1, <1>4, <3>1, <3>2 DEF FirstWaiting
    <2>10. ASSUME NEW u \in Waiting PROVE u \in Waiting' \/ InvalidateJob(u)
        <3>1. PICK k \in FirstWaiting..Len(queue) : queue[k] = u
            BY DEF Waiting
        <3>2. CASE k < p
            <4>1. k \in FirstWaiting..Len(queue') /\ queue'[k] = u
                BY <1>1, <2>6, <2>9, <3>1, <3>2
            <4>2. QED
                BY <2>9, <4>1 DEF Waiting
        <3>3. CASE k > p
            <4>1. k - 1 \in 1..Len(queue) - 1 /\ k - 1 >= p /\ (k - 1) + 1 = k
                  /\ k - 1 \in FirstWaiting..Len(queue')
                BY <1>1, <1>6, <2>6, <2>9, <3>1, <3>3
            <4>2. queue'[k - 1] = u
                BY <2>6, <3>1, <4>1
            <4>3. QED
                BY <2>9, <4>1, <4>2 DEF Waiting
        <3>4. CASE k = p
            BY <1>5, <3>1, <3>4
        <3>5. QED
            BY <1>1, <2>9, <3>1, <3>2, <3>3, <3>4
    <2>11. QED
        BY <1>1, <1>4, <1>6, <2>6, <2>7, <2>8, <2>10 DEF WaitingJobIsKept
<1>7. CASE ~(p - 1 > flushIndex)
    BY <1>1, <1>4, <1>5, <1>7, QueueSame
<1>8. QED
    BY <1>6, <1>7

-----------------------------------------------------------------------------
(* The steps of flushJobs.                                                 *)

\* Where the innermost call runs a task.
LEMMA AtTask ==
    ASSUME NEW r \in Calls, NEW at \in Places
    PROVE  /\ [r EXCEPT !.at = at] \in Calls
           /\ [r EXCEPT !.at = at].fn = r.fn /\ [r EXCEPT !.at = at].at = at
           /\ [r EXCEPT !.at = at].task = r.task
BY DEF Calls, Frames

\* The calls that a step makes.
LEMMA NewCalls ==
    ASSUME NEW seen \in [Task -> Nat], NEW t \in Task \cup {NoTask}
    PROVE  JobsCall(seen) \in Calls /\ PreCall(seen, t) \in Calls /\ PostCall(seen) \in Calls
BY DEF JobsCall, PreCall, PostCall, Call, Calls, Frames, Places

\* What is counted when the innermost call is a flushJobs.
LEMMA FlushTop ==
    ASSUME Shape(stack), stack # <<>>, Head(stack).fn = "flushJobs"
    PROVE  /\ ~Some(stack, JobTasks) /\ ~Some(stack, PreLoops) /\ ~Some(stack, PostLoops)
           /\ Some(stack, JobLoops) <=> Head(stack).at = "jobs"
           /\ Some(stack, BusyCalls) <=> Head(stack).at \in {"sort", "jobs", "finally", "failed"}
           /\ Head(stack) \in Calls /\ Head(stack).seen \in [Task -> Nat]
<1>1. Head(stack) \in Calls /\ \A F : Some(stack, F) <=> Head(stack) \in F \/ Some(Below, F)
    BY TopIs
<1>2. Head(stack).seen \in [Task -> Nat]
    BY <1>1 DEF Calls, Frames
<1>3. QED
    BY <1>1, <1>2, AroundFlush, CallKinds DEF Busy

\* A step that leaves the queue alone.
LEMMA Assembled ==
    ASSUME SInv, Shape(stack'), queue' = queue, flushIndex' = flushIndex,
           Some(stack', JobTasks) <=> Some(stack, JobTasks),
           Some(stack', JobLoops) <=> Some(stack, JobLoops),
           Runs("flushJobs", "jobs")' => Runs("flushJobs", "jobs"),
           TypeOK', ActiveInv'
    PROVE  SInv' /\ WaitingJobIsKept
<1>1. stack \in Seq(Calls) /\ stack' \in Seq(Calls)
    BY DEF SInv, Shape
<1>2. QueueInv' /\ WaitingJobIsKept
    BY <1>1, QueueSame DEF SInv
<1>3. QED
    BY <1>2 DEF SInv

\* The microtask calls flushJobs.
LEMMA FlushBeginsStep == ASSUME SInv, FlushBegins PROVE SInv' /\ WaitingJobIsKept
<1> DEFINE f == PreCall(NotSeen, NoTask)
           g == [JobsCall(NotSeen) EXCEPT !.at = "sort"]
<1>1. f \in Calls /\ g \in Calls /\ g.fn = "flushJobs" /\ g.at = "sort"
      /\ f.fn = "flushPre" /\ f.at = "begin"
    <2>1. NotSeen \in [Task -> Nat]
        BY DEF NotSeen
    <2>2. JobsCall(NotSeen) \in Calls /\ f \in Calls
        BY <2>1, NewCalls
    <2>3. QED
        BY <2>2, AtTask DEF Places, JobsCall, PreCall, Call
<1>2. stack = <<>> /\ stack' = <<f, g>>
    BY DEF FlushBegins
<1> HIDE DEF f, g
<1>3. Shape(<<>>) /\ \A F : ~Some(<<>>, F)
    BY DEF Shape, Some
<1> DEFINE r == <<g>> \o <<>>
           x == <<f>> \o r
<1>4. <<>> \in Seq(Calls)
    OBVIOUS
<1>5. x = <<f, g>>
    <2>1. <<f, g>> \o <<>> = x
        BY <1>1, <1>4, PushedTwo DEF Calls
    <2>2. <<f, g>> \in Seq(Calls)
        BY <1>1
    <2>3. <<f, g>> \o <<>> = <<f, g>>
        BY <2>2, ConcatEmptySeq
    <2>4. QED
        BY <2>1, <2>3
<1>6. Shape(r) /\ r \in Seq(Calls) /\ r # <<>> /\ r[1] = g /\ \A F : Some(r, F) <=> g \in F
    <2>1. Shape(r)
        BY <1>1, <1>3, <1>4, ShapePush, CallKinds
    <2>2. r \in Seq(Calls) /\ r # <<>> /\ r[1] = g
        BY <1>1, <1>4, OnTop
    <2>3. \A F : Some(r, F) <=> g \in F
        BY <1>1, <1>3, <1>4, SomeOnTop
    <2>4. QED
        BY <2>1, <2>2, <2>3
<1> HIDE DEF r
<1>7. Shape(x) /\ x # <<>> /\ x[1] = f /\ Head(x) = f /\ \A F : Some(x, F) <=> f \in F \/ g \in F
    <2>1. CalledFrom(f, g) /\ f \notin PostLoops
        BY <1>1, CallKinds DEF CalledFrom
    <2>2. Shape(x)
        BY <1>1, <1>6, <2>1, ShapePush
    <2>3. x # <<>> /\ x[1] = f /\ Head(x) = f
        BY <1>1, <1>6, OnTop
    <2>4. \A F : Some(x, F) <=> f \in F \/ g \in F
        BY <1>1, <1>6, SomeOnTop
    <2>5. QED
        BY <2>2, <2>3, <2>4
<1> HIDE DEF x
<1>8. stack' = x
    BY <1>2, <1>5
<1>9. /\ ~Some(stack', JobTasks) /\ ~Some(stack', JobLoops) /\ Some(stack', BusyCalls)
      /\ ~Some(stack', PreLoops) /\ ~Some(stack', PostLoops)
      /\ stack'[1] \notin Waits /\ Shape(stack') /\ Head(stack').fn = "flushPre"
    BY <1>1, <1>7, <1>8, CallKinds DEF Busy
<1>10. ~Some(stack, JobTasks) /\ ~Some(stack, JobLoops)
    BY <1>2, <1>3
<1>11. TypeOK'
    BY DEF SInv, TypeOK, FlushBegins, preVars, postVars
<1>12. ActiveInv'
    BY <1>9 DEF ActiveInv, FlushBegins
<1>13. QED
    BY <1>9, <1>10, <1>11, <1>12, Assembled DEF FlushBegins, Runs

\* flushJobs, begun or begun again.
LEMMA FlushRestartsStep == ASSUME SInv, FlushRestarts PROVE SInv' /\ WaitingJobIsKept
<1> DEFINE h == Head(stack)
           c == PreCall(h.seen, NoTask)
           g == [h EXCEPT !.at = "sort"]
<1>1. Shape(stack) /\ stack # <<>> /\ h.fn = "flushJobs" /\ h.at = "pre"
    BY DEF FlushRestarts, Runs, SInv
<1>2. h \in Calls /\ h.seen \in [Task -> Nat] /\ ~Some(stack, JobTasks) /\ ~Some(stack, JobLoops)
    BY <1>1, FlushTop
<1>3. c \in Calls /\ c.fn = "flushPre" /\ c.at = "begin"
    BY <1>2, NewCalls DEF PreCall, Call
<1>4. g \in Calls /\ g.fn = h.fn /\ g.at = "sort" /\ g.task = h.task
    BY <1>2, AtTask DEF Places
<1>5. stack' = <<c, g>> \o Below
    BY DEF FlushRestarts, GoesAndCalls
<1> HIDE DEF c, g
<1>6. CalledFrom(c, g) /\ c \notin PostLoops /\ g \notin PostLoops
    BY <1>1, <1>3, <1>4, CallKinds DEF CalledFrom
<1>7. /\ Shape(stack') /\ stack' # <<>> /\ stack'[1] = c /\ Head(stack') = c
      /\ \A F : Some(stack', F) <=> c \in F \/ g \in F \/ Some(Below, F)
    BY <1>1, <1>3, <1>4, <1>5, <1>6, WentAndCalled
<1>8. /\ ~Some(stack', JobTasks) /\ ~Some(stack', JobLoops) /\ Some(stack', BusyCalls)
      /\ ~Some(stack', PreLoops) /\ ~Some(stack', PostLoops)
      /\ stack'[1] \notin Waits
    BY <1>1, <1>3, <1>4, <1>7, CallKinds, AroundFlush DEF Busy
<1>9. TypeOK'
    BY DEF SInv, TypeOK, FlushRestarts, preVars, postVars
<1>10. ActiveInv'
    BY <1>8 DEF ActiveInv, FlushRestarts, Runs
<1>11. QED
    BY <1>2, <1>3, <1>7, <1>8, <1>9, <1>10, Assembled DEF FlushRestarts, Runs

\* The queue is sorted, and the loop begins with all of it in order.
LEMMA QueueIsSortedStep == ASSUME SInv, QueueIsSorted PROVE SInv' /\ WaitingJobIsKept
<1> DEFINE h == Head(stack)
           g == [h EXCEPT !.at = "jobs"]
<1>1. Shape(stack) /\ stack # <<>> /\ h.fn = "flushJobs" /\ h.at = "sort"
    BY DEF QueueIsSorted, Runs, SInv
<1>2. h \in Calls /\ ~Some(stack, JobTasks) /\ ~Some(stack, JobLoops)
    BY <1>1, FlushTop
<1>3. g \in Calls /\ g.fn = h.fn /\ g.at = "jobs" /\ g.task = h.task
    BY <1>2, AtTask DEF Places
<1>4. stack' = <<g>> \o Below
    BY DEF QueueIsSorted, Goes
<1> HIDE DEF g
<1>5. /\ Shape(stack') /\ stack' # <<>> /\ stack'[1] = g /\ Head(stack') = g
      /\ \A F : Some(stack', F) <=> g \in F \/ Some(Below, F)
    BY <1>1, <1>3, <1>4, WentOnTo, CallKinds
<1>6. /\ ~Some(stack', JobTasks) /\ Some(stack', JobLoops) /\ Some(stack', BusyCalls)
      /\ ~Some(stack', PreLoops) /\ ~Some(stack', PostLoops)
      /\ stack'[1] \notin Waits
    BY <1>1, <1>3, <1>5, CallKinds, AroundFlush DEF Busy
<1>7. queue \in Seq(Job) /\ Apart(queue, 2) /\ flushIndex = 0 /\ queue' = SortById(queue)
      /\ flushIndex' = 0
    BY <1>2 DEF SInv, TypeOK, QueueInv, QueueIsSorted, Sorts
<1>8. /\ queue' \in Seq(Job) /\ Len(queue') = Len(queue) /\ InOrder(queue', 1) /\ Twice(queue', 1)
      /\ \A i \in 1..Len(queue) : \E n \in 1..Len(queue) : queue'[n] = queue[i]
    <2> DEFINE a == SortById(queue)
    <2>1. /\ a \in Seq(Job) /\ Len(a) = Len(queue) /\ InOrder(a, 1) /\ Twice(a, 1)
          /\ \A i \in 1..Len(queue) : \E n \in 1..Len(queue) : a[n] = queue[i]
        BY <1>7, SortKeeps
    <2> HIDE DEF a
    <2>2. queue' = a
        BY <1>7 DEF a
    <2>3. QED
        BY <2>1, <2>2
<1>9. FirstInOrder' = 1 /\ Twice(queue', 2)
    <2>1. Twice(queue', 2)
        BY <1>8, Later
    <2>2. Runs("flushJobs", "jobs")'
        BY <1>1, <1>3, <1>5 DEF QueueIsSorted, Runs
    <2>3. QED
        BY <1>7, <2>1, <2>2 DEF FirstInOrder
<1>10. QueueInv'
    BY <1>6, <1>7, <1>8, <1>9 DEF QueueInv
<1>11. TypeOK'
    BY <1>7, <1>8 DEF SInv, TypeOK, QueueIsSorted, preVars, postVars
<1>12. ActiveInv'
    BY <1>6 DEF ActiveInv, QueueIsSorted, Runs
<1>13. WaitingJobIsKept
    <2>1. stack \in Seq(Calls) /\ stack' \in Seq(Calls)
        BY <1>1, <1>5 DEF Shape
    <2>2. ~JobRuns /\ ~JobRuns'
        <3>1. ~JobRuns
            BY <1>2, <2>1, JobRunsIs
        <3>2. ~JobRuns'
            BY <1>6, <2>1, CallKinds DEF JobRuns, Some
        <3>3. QED
            BY <3>1, <3>2
    <2>3. FirstWaiting = 1 /\ FirstWaiting' = 1
        BY <1>7, <2>2 DEF FirstWaiting
    <2>4. \A t \in Waiting : t \in Waiting'
        BY <1>8, <2>3 DEF Waiting
    <2>5. ASSUME NEW t \in Job, QueueJob(t), Wanted(t) PROVE t \in Waiting'
        <3>1. InOrder(queue, flushIndex + 2)
            <4>1. FirstInOrder = flushIndex + 2
                BY <1>1 DEF FirstInOrder, Runs
            <4>2. QED
                BY <4>1 DEF SInv, QueueInv
        <3>2. QED
            BY <1>2, <1>6, <2>1, <2>5, <3>1, QueuedWaits DEF SInv
    <2>6. QED
        BY <2>4, <2>5 DEF WaitingJobIsKept
<1>14. QED
    BY <1>5, <1>10, <1>11, <1>12, <1>13 DEF SInv


\* Past what runs, the queue is always in order.
LEMMA OrderAfterFirst == ASSUME TypeOK, QueueInv PROVE InOrder(queue, flushIndex + 2)
<1>1. queue \in Seq(Job) /\ flushIndex \in Nat
    BY DEF TypeOK
<1>2. FirstInOrder \in Nat /\ FirstInOrder <= flushIndex + 2 /\ flushIndex + 2 \in Nat
    BY <1>1 DEF FirstInOrder
<1>3. QED
    BY <1>1, <1>2, Later DEF QueueInv

\* To queue a job makes the queue longer.
LEMMA NothingQueued ==
    ASSUME TypeOK, QueueInv, NEW t \in Job, QueueJob(t), Wanted(t), queue' = queue
    PROVE  FALSE
<1>1. PICK p \in 1..Len(queue) + 1 : queue' = InsertAt(queue, p, t)
    BY OrderAfterFirst, QueuedAt
<1>2. queue \in Seq(Job)
    BY DEF TypeOK
<1> DEFINE x == InsertAt(queue, p, t)
<1>3. Len(x) = Len(queue) + 1 /\ Len(queue) \in Nat
    BY <1>2, InsertAtIs
<1> HIDE DEF x
<1>4. queue = x
    BY <1>1 DEF x
<1>5. QED
    BY <1>3, <1>4

\* The loop goes on to the next job: what it passes was first in the part that waits.
LEMMA NextJobRunsStep == ASSUME SInv, NextJobRuns PROVE SInv' /\ WaitingJobIsKept
<1> DEFINE h == Head(stack)
           t == queue[flushIndex + 1]
<1>1. /\ Shape(stack) /\ stack # <<>> /\ h.fn = "flushJobs" /\ h.at = "jobs" /\ ~thrown
      /\ Runs("flushJobs", "jobs")
    BY DEF NextJobRuns, Runs, SInv
<1>2. /\ h \in Calls /\ ~Some(stack, JobTasks) /\ Some(stack, JobLoops) /\ Some(stack, BusyCalls)
      /\ ~Some(stack, PreLoops) /\ ~Some(stack, PostLoops)
    BY <1>1, FlushTop
<1>3. /\ queue \in Seq(Job) /\ Len(queue) \in Nat /\ flushIndex \in 0..Len(queue)
      /\ flushIndex < Len(queue)
    BY DEF SInv, TypeOK, NextJobRuns
<1>4. t \in Job /\ t \in Task
    BY <1>3 DEF Task
<1>5. queue' = queue /\ flushIndex' = flushIndex /\ RunsTask(t) /\ isFlushing' = isFlushing
      /\ activePre' = activePre /\ activePost' = activePost
    BY DEF NextJobRuns, queueVars, preVars, postVars
<1>6. CASE TooOften(h.seen, t)
    <2>1. thrown' = TRUE /\ stack' = stack
        BY <1>5, <1>6 DEF RunsTask
    <2>2. TypeOK'
        BY <2>1 DEF SInv, TypeOK, NextJobRuns, queueVars, preVars, postVars
    <2>3. ActiveInv'
        BY <1>2, <1>5, <2>1 DEF ActiveInv, Abandoned
    <2>4. QED
        BY <1>1, <1>5, <2>1, <2>2, <2>3, Assembled DEF Runs
<1>7. CASE ~TooOften(h.seen, t)
    <2>1. CalledFrom(TaskCall(t), h)
        <3>1. TaskCall(t) \in Calls
            BY <1>4, TaskAssumption DEF TaskCall, Call, NotSeen, Calls, Frames, Places
        <3>2. TaskCall(t) \in JobTasks /\ h \in JobLoops
            BY <1>1, <1>2, <1>4, <3>1, CallKinds DEF TaskCall, Call
        <3>3. QED
            BY <3>2 DEF CalledFrom
    <2>2. /\ Shape(stack') /\ stack' # <<>> /\ stack'[1] = TaskCall(t)
          /\ Head(stack') = TaskCall(t) /\ TaskCall(t) \in Calls
          /\ \A F \in Counted : Some(stack', F) <=> TaskCall(t) \in F \/ Some(stack, F)
          /\ thrown' = thrown
        BY <1>1, <1>4, <1>5, <1>7, <2>1, RanCall
    <2>3. TaskCall(t).fn = "task" /\ TaskCall(t).task = t
        BY DEF TaskCall, Call
    <2>4. /\ Some(stack', JobTasks) /\ Some(stack', JobLoops) /\ Some(stack', BusyCalls)
          /\ ~Some(stack', PreLoops) /\ ~Some(stack', PostLoops)
          /\ stack'[1] \notin Waits
        BY <1>2, <1>4, <2>2, <2>3, CallKinds DEF Counted, Busy
    <2>5. TypeOK'
        BY <2>2 DEF SInv, TypeOK, NextJobRuns, queueVars, preVars, postVars
    <2>6. ActiveInv'
        BY <1>2, <1>5, <2>2, <2>4 DEF SInv, ActiveInv, Abandoned
    <2>7. FirstInOrder' = flushIndex + 2
        BY <1>5, <2>2, <2>3 DEF FirstInOrder, Runs
    <2>8. QueueInv'
        BY <1>3, <1>5, <2>4, <2>7, OrderAfterFirst DEF SInv, QueueInv
    <2>9. WaitingJobIsKept
        <3>1. stack \in Seq(Calls) /\ stack' \in Seq(Calls)
            BY <1>1, <2>2 DEF Shape
        <3>2. ~JobRuns
            BY <1>2, <3>1, JobRunsIs
        <3>3. JobRuns'
            BY <2>4, <3>1, CallKinds DEF JobRuns, Some
        <3>4. FirstWaiting = flushIndex + 1 /\ FirstWaiting' = flushIndex + 2
            BY <1>5, <3>2, <3>3 DEF FirstWaiting
        <3>5. ASSUME NEW u \in Waiting PROVE u \in Waiting' \/ (JobRuns /\ Head(stack).task = u)'
            <4>1. PICK k \in flushIndex + 1..Len(queue) : queue[k] = u
                BY <3>4 DEF Waiting
            <4>2. CASE k = flushIndex + 1
                BY <2>2, <2>3, <3>3, <4>1, <4>2
            <4>3. CASE k # flushIndex + 1
                <5>1. k \in flushIndex + 2..Len(queue)
                    BY <1>3, <4>1, <4>3
                <5>2. QED
                    BY <1>5, <3>4, <4>1, <5>1 DEF Waiting
            <4>4. QED
                BY <4>2, <4>3
        <3>6. ASSUME NEW u \in Job, QueueJob(u), Wanted(u) PROVE FALSE
            BY <1>5, <3>6, NothingQueued DEF SInv
        <3>7. QED
            BY <3>5, <3>6 DEF WaitingJobIsKept
    <2>10. QED
        BY <2>2, <2>5, <2>6, <2>8, <2>9 DEF SInv
<1>8. QED
    BY <1>6, <1>7

\* The loop is over, or has failed.
LEMMA FinallyStep ==
    ASSUME SInv, stack # <<>>, Head(stack).fn = "flushJobs", Head(stack).at = "jobs",
           NEW at \in {"finally", "failed"}, Finally(at), thrown' = FALSE,
           thrown \/ flushIndex = Len(queue)
    PROVE  SInv' /\ WaitingJobIsKept
<1> DEFINE h == Head(stack)
           c == PostCall(h.seen)
           g == [h EXCEPT !.at = at]
<1>1. Shape(stack) /\ h.fn = "flushJobs" /\ h.at = "jobs"
    BY DEF SInv
<1>2. /\ h \in Calls /\ h.seen \in [Task -> Nat] /\ ~Some(stack, JobTasks)
      /\ Some(stack, JobLoops) /\ Some(stack, BusyCalls)
    BY <1>1, FlushTop
<1>3. c \in Calls /\ c.fn = "flushPost" /\ c.at = "begin"
    <2>1. NoTask \in Task \cup {NoTask}
        OBVIOUS
    <2>2. c \in Calls
        BY <1>2, <2>1, NewCalls
    <2>3. QED
        BY <2>2 DEF PostCall, Call
<1>4. g \in Calls /\ g.fn = h.fn /\ g.at = at /\ g.task = h.task
    <2>1. at \in Places
        BY DEF Places
    <2>2. QED
        BY <1>2, <2>1, AtTask
<1>5. stack' = <<c, g>> \o Below
    BY DEF Finally, GoesAndCalls
<1> HIDE DEF c, g
<1>6. CalledFrom(c, g) /\ c \notin PostLoops /\ g \notin PostLoops
    BY <1>1, <1>3, <1>4, CallKinds DEF CalledFrom
<1>7. /\ Shape(stack') /\ stack' # <<>> /\ stack'[1] = c /\ Head(stack') = c
      /\ \A F : Some(stack', F) <=> c \in F \/ g \in F \/ Some(Below, F)
    BY <1>1, <1>3, <1>4, <1>5, <1>6, WentAndCalled
<1>8. /\ ~Some(stack', JobTasks) /\ ~Some(stack', JobLoops) /\ Some(stack', BusyCalls)
      /\ ~Some(stack', PreLoops) /\ ~Some(stack', PostLoops)
      /\ stack'[1] \notin Waits
    BY <1>1, <1>3, <1>4, <1>7, CallKinds, AroundFlush DEF Busy
<1>9. queue' = <<>> /\ flushIndex' = 0 /\ queue' \in Seq(Job) /\ Len(queue') = 0
    BY DEF Finally
<1>10. TypeOK'
    <2>1. flushIndex' \in 0..Len(queue')
        BY <1>9
    <2>2. /\ isFlushing' = isFlushing /\ isFlushPending' = isFlushPending
          /\ UNCHANGED <<preVars, postVars>>
        BY DEF Finally
    <2>3. QED
        BY <1>9, <2>1, <2>2 DEF SInv, TypeOK, preVars, postVars
<1>11. ActiveInv'
    BY <1>8 DEF ActiveInv
<1>12. QueueInv'
    <2>1. FirstInOrder' \in Nat /\ FirstInOrder' >= 1
        BY <1>9 DEF FirstInOrder
    <2>2. InOrder(queue', FirstInOrder') /\ Twice(queue', 2) /\ Apart(queue', 2)
        BY <1>9, <2>1 DEF InOrder, Twice, Apart
    <2>3. QED
        BY <1>8, <1>9, <2>2 DEF QueueInv
<1>13. WaitingJobIsKept
    <2>1. stack \in Seq(Calls) /\ stack' \in Seq(Calls)
        BY <1>1, <1>7 DEF Shape
    <2>2. ASSUME NEW t \in Job, QueueJob(t), Wanted(t) PROVE t \in Waiting'
        BY <1>2, <1>8, <2>1, <2>2, QueuedWaits, OrderAfterFirst DEF SInv
    <2>3. thrown \/ Waiting = {}
        <3>1. flushIndex \in Nat /\ ~JobRuns
            BY <1>2, <2>1, JobRunsIs DEF SInv, TypeOK
        <3>2. QED
            BY <3>1 DEF FirstWaiting, Waiting
    <2>4. QED
        BY <2>2, <2>3 DEF WaitingJobIsKept
<1>14. QED
    BY <1>7, <1>10, <1>11, <1>12, <1>13 DEF SInv

\* The loop's end.
LEMMA QueueIsDoneStep == ASSUME SInv, QueueIsDone PROVE SInv' /\ WaitingJobIsKept
<1>1. thrown' = FALSE
    BY DEF QueueIsDone, Runs, SInv, TypeOK
<1>2. QED
    BY <1>1, FinallyStep DEF QueueIsDone, Runs

\* flushJobs has emptied the queue, and ends or calls itself.
LEMMA FlushEndsStep == ASSUME SInv, FlushEnds PROVE SInv' /\ WaitingJobIsKept
<1> DEFINE h == Head(stack)
<1>1. Shape(stack) /\ stack # <<>> /\ h.fn = "flushJobs" /\ h.at \in {"finally", "failed"} /\ ~thrown
    BY DEF FlushEnds, Runs, SInv
<1>2. h \in Calls /\ h.seen \in [Task -> Nat] /\ ~Some(stack, JobTasks) /\ ~Some(stack, JobLoops)
    BY <1>1, FlushTop
<1>3. isFlushing' = FALSE /\ queue' = queue /\ flushIndex' = flushIndex
    BY DEF FlushEnds
<1>4. CASE FlushAgain
    <2> DEFINE at == IF h.at = "failed" THEN "throws" ELSE "ends"
               c == JobsCall(h.seen)
               g == [h EXCEPT !.at = at]
    <2>1. c \in Calls /\ c.fn = "flushJobs" /\ c.at = "pre"
        <3>1. NoTask \in Task \cup {NoTask}
            OBVIOUS
        <3>2. c \in Calls
            BY <1>2, <3>1, NewCalls
        <3>3. QED
            BY <3>2 DEF JobsCall, Call
    <2>2. at \in Places /\ at \in {"ends", "throws"}
        BY DEF Places
    <2>3. stack' = <<c, g>> \o Below /\ thrown' = thrown
        BY <1>4 DEF FlushEnds, GoesAndCalls
    <2> HIDE DEF at
    <2>4. g \in Calls /\ g.fn = h.fn /\ g.at = at /\ g.task = h.task
        BY <1>2, <2>2, AtTask
    <2> HIDE DEF c, g
    <2>5. CalledFrom(c, g) /\ c \notin PostLoops /\ g \notin PostLoops
        BY <1>1, <2>1, <2>2, <2>4, CallKinds DEF CalledFrom
    <2>6. /\ Shape(stack') /\ stack' # <<>> /\ stack'[1] = c /\ Head(stack') = c
          /\ \A F : Some(stack', F) <=> c \in F \/ g \in F \/ Some(Below, F)
        BY <1>1, <2>1, <2>3, <2>4, <2>5, WentAndCalled
    <2>7. /\ ~Some(stack', JobTasks) /\ ~Some(stack', JobLoops)
          /\ ~Some(stack', PreLoops) /\ ~Some(stack', PostLoops)
        BY <1>1, <2>1, <2>2, <2>4, <2>6, CallKinds, AroundFlush
    <2>8. TypeOK'
        BY <2>3 DEF SInv, TypeOK, FlushEnds, preVars, postVars
    <2>9. ActiveInv'
        BY <1>3, <2>7 DEF ActiveInv
    <2>10. QED
        BY <1>2, <1>3, <2>1, <2>6, <2>7, <2>8, <2>9, Assembled DEF Runs
<1>5. CASE ~FlushAgain
    <2>1. Return /\ thrown' \in BOOLEAN
        BY <1>5 DEF FlushEnds
    <2>2. Shape(stack') /\ stack' = Below
        BY <1>1, <2>1, Returns
    <2>3. /\ ~Some(stack', JobTasks) /\ ~Some(stack', JobLoops)
          /\ ~Some(stack', PreLoops) /\ ~Some(stack', PostLoops)
          /\ stack' # <<>> => stack'[1] \in Waits
        BY <1>1, <2>2, AroundFlush
    <2>4. ~Runs("flushJobs", "jobs")'
        <3>1. stack' # <<>> => Head(stack') = stack'[1]
            BY <2>2
        <3>2. QED
            BY <2>3, <3>1 DEF Runs, Waits
    <2>5. TypeOK'
        BY <2>1 DEF SInv, TypeOK, FlushEnds, preVars, postVars
    <2>6. ActiveInv'
        BY <1>3, <2>3 DEF ActiveInv
    <2>7. QED
        BY <1>2, <1>3, <2>2, <2>3, <2>4, <2>5, <2>6, Assembled
<1>6. QED
    BY <1>4, <1>5

\* The flushJobs that called itself ends.
LEMMA OuterFlushEndsStep == ASSUME SInv, OuterFlushEnds PROVE SInv' /\ WaitingJobIsKept
<1> DEFINE h == Head(stack)
<1>1. Shape(stack) /\ stack # <<>> /\ h.fn = "flushJobs" /\ h.at \in {"ends", "throws"} /\ ~thrown
    BY DEF OuterFlushEnds, Runs, SInv
<1>2. h \in Calls /\ h \in Waits /\ stack[1] = h /\ ~Some(stack, JobTasks) /\ ~Some(stack, JobLoops)
    <2>1. h \in Calls /\ stack[1] = h
        BY <1>1, TopIs
    <2>2. QED
        BY <1>1, <2>1, FlushTop, CallKinds
<1>3. isFlushing = FALSE
    BY <1>1, <1>2 DEF SInv, ActiveInv, TypeOK
<1>4. Return /\ thrown' \in BOOLEAN /\ queue' = queue /\ flushIndex' = flushIndex
      /\ isFlushing' = FALSE
    BY <1>3 DEF OuterFlushEnds, queueVars
<1>5. Shape(stack') /\ stack' = Below
    BY <1>1, <1>4, Returns
<1>6. /\ ~Some(stack', JobTasks) /\ ~Some(stack', JobLoops)
      /\ ~Some(stack', PreLoops) /\ ~Some(stack', PostLoops)
      /\ stack' # <<>> => stack'[1] \in Waits
    BY <1>1, <1>5, AroundFlush
<1>7. ~Runs("flushJobs", "jobs")'
    <2>1. stack' # <<>> => Head(stack') = stack'[1]
        BY <1>5
    <2>2. QED
        BY <1>6, <2>1 DEF Runs, Waits
<1>8. TypeOK'
    BY <1>4 DEF SInv, TypeOK, OuterFlushEnds, queueVars, preVars, postVars
<1>9. ActiveInv'
    BY <1>4, <1>6 DEF ActiveInv
<1>10. QED
    BY <1>2, <1>4, <1>5, <1>6, <1>7, <1>8, <1>9, Assembled

-----------------------------------------------------------------------------
(* The steps of flushPreFlushCbs and flushPostFlushCbs.                    *)

\* flushPreFlushCbs or flushPostFlushCbs returns to its caller.
LEMMA CallbackReturns ==
    ASSUME Shape(stack), stack # <<>>, Head(stack).fn \in {"flushPre", "flushPost"}, Return
    PROVE  /\ Shape(stack') /\ stack' # <<>> /\ stack'[1] \notin Waits
           /\ \A F \in Counted : Some(stack', F) <=> Some(Below, F)
           /\ ~Runs("flushJobs", "jobs")' /\ Some(stack', BusyCalls)
<1>1. /\ Below # <<>> /\ Below[1] \in Calls /\ CalledFrom(Head(stack), Below[1])
      /\ Some(Below, BusyCalls)
    BY AroundCallback
<1>2. Shape(stack') /\ Alike(stack', Below)
    BY Returns
<1>3. /\ \A F \in Counted : Some(stack', F) <=> Some(Below, F)
      /\ stack' # <<>> /\ stack'[1].fn = Below[1].fn /\ stack'[1].at = Below[1].at
    BY <1>1, <1>2 DEF Alike
<1>4. stack'[1] \in Calls /\ Head(stack') = stack'[1]
    BY <1>2, <1>3 DEF Shape
<1>5. ~(Below[1].fn = "flushJobs" /\ Below[1].at \in {"jobs", "ends", "throws"})
    BY <1>1 DEF CalledFrom, JobTasks
<1>6. stack'[1] \notin Waits /\ ~Runs("flushJobs", "jobs")'
    BY <1>3, <1>4, <1>5, CallKinds DEF Runs
<1>7. BusyCalls \in Counted
    BY DEF Counted
<1>8. QED
    BY <1>1, <1>2, <1>3, <1>6, <1>7

\* A callback's call is counted in its loop only.
LEMMA CallbackTop ==
    ASSUME Shape(stack), stack # <<>>, Head(stack).fn \in {"flushPre", "flushPost"}
    PROVE  /\ Head(stack) \in Calls
           /\ Head(stack).at # "loop" =>
                 \A F \in Counted : Some(stack, F) <=> Some(Below, F)
           /\ \A F \in {JobTasks, JobLoops, BusyCalls} : Some(stack, F) <=> Some(Below, F)
           /\ Head(stack).fn = "flushPre" => (Some(stack, PostLoops) <=> Some(Below, PostLoops))
           /\ Head(stack).fn = "flushPost" => (Some(stack, PreLoops) <=> Some(Below, PreLoops))
<1>1. Head(stack) \in Calls /\ \A F : Some(stack, F) <=> Head(stack) \in F \/ Some(Below, F)
    BY TopIs
<1>2. QED
    BY <1>1, CallKinds DEF Counted, Busy

\* flushPreFlushCbs takes the callbacks that are pending.
LEMMA PreCbsBeginStep == ASSUME SInv, PreCbsBegin PROVE SInv' /\ WaitingJobIsKept
<1> DEFINE h == Head(stack)
<1>1. Shape(stack) /\ stack # <<>> /\ h.fn = "flushPre" /\ h.at = "begin" /\ ~thrown
    BY DEF PreCbsBegin, Runs, SInv
<1>2. /\ h \in Calls /\ \A F \in Counted : Some(stack, F) <=> Some(Below, F)
    BY <1>1, CallbackTop
<1>3. /\ queue' = queue /\ flushIndex' = flushIndex /\ isFlushing' = isFlushing
      /\ isFlushPending' = isFlushPending /\ thrown' = thrown /\ UNCHANGED postVars
    BY DEF PreCbsBegin, queueVars
<1>4. CASE pendingPre = <<>>
    <2>1. Return /\ UNCHANGED preVars
        BY <1>4 DEF PreCbsBegin
    <2>2. /\ Shape(stack') /\ stack' # <<>> /\ stack'[1] \notin Waits
          /\ \A F \in Counted : Some(stack', F) <=> Some(Below, F)
          /\ ~Runs("flushJobs", "jobs")' /\ Some(stack', BusyCalls)
        BY <1>1, <2>1, CallbackReturns
    <2>3. TypeOK'
        BY <1>3, <2>1 DEF SInv, TypeOK, preVars, postVars
    <2>4. ActiveInv'
        BY <1>1, <1>2, <1>3, <2>1, <2>2 DEF SInv, ActiveInv, Abandoned, Counted, preVars, postVars
    <2>5. QED
        BY <1>2, <1>3, <2>2, <2>3, <2>4, Assembled DEF Counted
<1>5. CASE pendingPre # <<>>
    <2> DEFINE g == [h EXCEPT !.at = "loop"]
    <2>1. g \in Calls /\ g.fn = h.fn /\ g.at = "loop" /\ g.task = h.task
        BY <1>2, AtTask DEF Places
    <2>2. /\ stack' = <<g>> \o Below /\ pendingPre' = <<>> /\ preIndex' = 0
          /\ activePre' = Distinct(pendingPre)
        BY <1>5 DEF PreCbsBegin, Goes
    <2> HIDE DEF g
    <2>3. /\ Shape(stack') /\ stack' # <<>> /\ stack'[1] = g /\ Head(stack') = g
          /\ \A F : Some(stack', F) <=> g \in F \/ Some(Below, F)
        BY <1>1, <2>1, <2>2, WentOnTo, CallKinds
    <2>4. activePre' \in Seq(PreCb) /\ activePre' # <<>>
        <3>1. pendingPre \in Seq(PreCb)
            BY DEF SInv, TypeOK
        <3>2. Distinct(pendingPre) \in Seq(PreCb) /\ Distinct(pendingPre) # <<>>
            BY <1>5, <3>1, DistinctIs
        <3>3. QED
            BY <2>2, <3>2
    <2>5. /\ g \notin JobTasks /\ g \notin JobLoops /\ g \notin BusyCalls /\ g \notin PostLoops
          /\ g \notin Waits
        BY <1>1, <2>1, CallKinds DEF Busy
    <2>6. /\ Some(stack', JobTasks) <=> Some(stack, JobTasks)
          /\ Some(stack', JobLoops) <=> Some(stack, JobLoops)
          /\ Some(stack', BusyCalls) <=> Some(stack, BusyCalls)
          /\ Some(stack', PostLoops) <=> Some(stack, PostLoops)
        BY <1>2, <2>3, <2>5 DEF Counted
    <2>7. TypeOK'
        BY <1>3, <2>2, <2>4 DEF SInv, TypeOK, postVars
    <2>8. ActiveInv'
        BY <1>1, <1>3, <2>3, <2>4, <2>5, <2>6 DEF SInv, ActiveInv, Abandoned, postVars
    <2>9. ~Runs("flushJobs", "jobs")'
        BY <1>1, <2>1, <2>3 DEF Runs
    <2>10. QED
        BY <1>3, <2>3, <2>6, <2>7, <2>8, <2>9, Assembled
<1>6. QED
    BY <1>4, <1>5

\* flushPreFlushCbs finds none left.
LEMMA PreCbsEndStep == ASSUME SInv, PreCbsEnd PROVE SInv' /\ WaitingJobIsKept
<1> DEFINE h == Head(stack)
           g == [h EXCEPT !.at = "begin"]
<1>1. Shape(stack) /\ stack # <<>> /\ h.fn = "flushPre" /\ h.at = "loop" /\ ~thrown
    BY DEF PreCbsEnd, Runs, SInv
<1>2. /\ h \in Calls /\ \A F \in {JobTasks, JobLoops, BusyCalls} : Some(stack, F) <=> Some(Below, F)
      /\ Some(stack, PostLoops) <=> Some(Below, PostLoops)
    BY <1>1, CallbackTop
<1>3. /\ queue' = queue /\ flushIndex' = flushIndex /\ isFlushing' = isFlushing
      /\ isFlushPending' = isFlushPending /\ thrown' = thrown /\ UNCHANGED postVars
      /\ activePre' = <<>> /\ preIndex' = 0 /\ pendingPre' = pendingPre
    BY DEF PreCbsEnd, queueVars
<1>4. g \in Calls /\ g.fn = h.fn /\ g.at = "begin" /\ g.task = h.task
    BY <1>2, AtTask DEF Places
<1>5. stack' = <<g>> \o Below
    BY DEF PreCbsEnd, Drains, Goes
<1> HIDE DEF g
<1>6. /\ Shape(stack') /\ stack' # <<>> /\ stack'[1] = g /\ Head(stack') = g
      /\ \A F : Some(stack', F) <=> g \in F \/ Some(Below, F)
    BY <1>1, <1>4, <1>5, WentOnTo, CallKinds
<1>7. ~Some(Below, PreLoops) /\ Some(Below, BusyCalls)
    BY <1>1, <1>2, AroundCallback, CallKinds
<1>8. /\ g \notin JobTasks /\ g \notin JobLoops /\ g \notin BusyCalls /\ g \notin PostLoops
      /\ g \notin Waits /\ g \notin PreLoops
    BY <1>1, <1>4, CallKinds DEF Busy
<1>9. /\ Some(stack', JobTasks) <=> Some(stack, JobTasks)
      /\ Some(stack', JobLoops) <=> Some(stack, JobLoops)
      /\ Some(stack', PostLoops) <=> Some(stack, PostLoops)
      /\ Some(stack', BusyCalls) /\ ~Some(stack', PreLoops)
    BY <1>2, <1>6, <1>7, <1>8
<1>10. TypeOK'
    BY <1>3 DEF SInv, TypeOK, postVars
<1>11. ActiveInv'
    BY <1>1, <1>3, <1>6, <1>8, <1>9 DEF SInv, ActiveInv, postVars
<1>12. ~Runs("flushJobs", "jobs")'
    BY <1>1, <1>4, <1>6 DEF Runs
<1>13. QED
    BY <1>3, <1>6, <1>9, <1>10, <1>11, <1>12, Assembled

\* flushPostFlushCbs takes the callbacks that are pending, or adds them to those under way.
LEMMA PostCbsBeginStep == ASSUME SInv, PostCbsBegin PROVE SInv' /\ WaitingJobIsKept
<1> DEFINE h == Head(stack)
           deduped == Distinct(pendingPost)
<1>1. Shape(stack) /\ stack # <<>> /\ h.fn = "flushPost" /\ h.at = "begin" /\ ~thrown
    BY DEF PostCbsBegin, Runs, SInv
<1>2. /\ h \in Calls /\ \A F \in Counted : Some(stack, F) <=> Some(Below, F)
    BY <1>1, CallbackTop
<1>3. /\ queue' = queue /\ flushIndex' = flushIndex /\ isFlushing' = isFlushing
      /\ isFlushPending' = isFlushPending /\ thrown' = thrown /\ UNCHANGED preVars
      /\ pendingPost' = <<>>
    BY DEF PostCbsBegin, queueVars
<1>4. deduped \in Seq(PostCb) /\ activePost \in Seq(PostCb)
    BY DistinctIs DEF SInv, TypeOK
<1>5. CASE deduped = <<>> \/ activePost # <<>>
    <2>1. Return /\ postIndex' = postIndex
          /\ activePost' = (IF deduped = <<>> THEN activePost ELSE activePost \o deduped)
        BY <1>5 DEF PostCbsBegin
    <2> HIDE DEF deduped
    <2>2. activePost' \in Seq(PostCb) /\ (activePost # <<>> => activePost' # <<>>)
        BY <1>4, <2>1
    <2>3. /\ Shape(stack') /\ stack' # <<>> /\ stack'[1] \notin Waits
          /\ \A F \in Counted : Some(stack', F) <=> Some(Below, F)
          /\ ~Runs("flushJobs", "jobs")' /\ Some(stack', BusyCalls)
        BY <1>1, <2>1, CallbackReturns
    <2>4. TypeOK'
        BY <1>3, <2>1, <2>2 DEF SInv, TypeOK, preVars
    <2>5. ActiveInv'
        BY <1>1, <1>2, <1>3, <2>2, <2>3 DEF SInv, ActiveInv, Abandoned, Counted, preVars
    <2>6. QED
        BY <1>2, <1>3, <2>3, <2>4, <2>5, Assembled DEF Counted
<1>6. CASE deduped # <<>> /\ activePost = <<>>
    <2> DEFINE g == [h EXCEPT !.at = "loop"]
    <2>1. g \in Calls /\ g.fn = h.fn /\ g.at = "loop" /\ g.task = h.task
        BY <1>2, AtTask DEF Places
    <2>2. stack' = <<g>> \o Below /\ postIndex' = 0 /\ activePost' = SortById(deduped)
        BY <1>6 DEF PostCbsBegin, Goes
    <2> HIDE DEF g, deduped
    <2>3. ~Some(Below, PostLoops)
        BY <1>2, <1>6 DEF SInv, ActiveInv, Counted
    <2>4. /\ Shape(stack') /\ stack' # <<>> /\ stack'[1] = g /\ Head(stack') = g
          /\ \A F : Some(stack', F) <=> g \in F \/ Some(Below, F)
        BY <1>1, <2>1, <2>2, <2>3, WentOnTo, CallKinds
    <2>5. activePost' \in Seq(PostCb) /\ activePost' # <<>>
        <3>1. PostCb \in SUBSET Task
            BY DEF Task
        <3>2. activePost' \in Seq(PostCb) /\ Len(activePost') = Len(deduped)
            BY <1>4, <2>2, <3>1, SortIs
        <3>3. QED
            BY <1>4, <1>6, <3>2
    <2>6. /\ g \notin JobTasks /\ g \notin JobLoops /\ g \notin BusyCalls /\ g \notin PreLoops
          /\ g \notin Waits
        BY <1>1, <2>1, CallKinds DEF Busy
    <2>7. /\ Some(stack', JobTasks) <=> Some(stack, JobTasks)
          /\ Some(stack', JobLoops) <=> Some(stack, JobLoops)
          /\ Some(stack', BusyCalls) <=> Some(stack, BusyCalls)
          /\ Some(stack', PreLoops) <=> Some(stack, PreLoops)
        BY <1>2, <2>4, <2>6 DEF Counted
    <2>8. TypeOK'
        BY <1>3, <2>2, <2>5 DEF SInv, TypeOK, preVars
    <2>9. ActiveInv'
        BY <1>1, <1>3, <2>4, <2>5, <2>6, <2>7 DEF SInv, ActiveInv, Abandoned, preVars
    <2>10. ~Runs("flushJobs", "jobs")'
        BY <1>1, <2>1, <2>4 DEF Runs
    <2>11. QED
        BY <1>3, <2>4, <2>7, <2>8, <2>9, <2>10, Assembled
<1>7. QED
    BY <1>5, <1>6

\* flushPostFlushCbs has run its callbacks.
LEMMA PostCbsEndStep == ASSUME SInv, PostCbsEnd PROVE SInv' /\ WaitingJobIsKept
<1> DEFINE h == Head(stack)
<1>1. Shape(stack) /\ stack # <<>> /\ h.fn = "flushPost" /\ h.at = "loop" /\ ~thrown
    BY DEF PostCbsEnd, Runs, SInv
<1>2. /\ h \in Calls /\ \A F \in {JobTasks, JobLoops, BusyCalls} : Some(stack, F) <=> Some(Below, F)
      /\ Some(stack, PreLoops) <=> Some(Below, PreLoops)
    BY <1>1, CallbackTop
<1>3. /\ queue' = queue /\ flushIndex' = flushIndex /\ isFlushing' = isFlushing
      /\ isFlushPending' = isFlushPending /\ thrown' = thrown /\ UNCHANGED preVars
      /\ activePost' = <<>> /\ postIndex' = 0 /\ pendingPost' = pendingPost /\ Return
    BY DEF PostCbsEnd, queueVars
<1>4. /\ Shape(stack') /\ stack' # <<>> /\ stack'[1] \notin Waits
      /\ \A F \in Counted : Some(stack', F) <=> Some(Below, F)
      /\ ~Runs("flushJobs", "jobs")' /\ Some(stack', BusyCalls)
    BY <1>1, <1>3, CallbackReturns
<1>5. ~Some(Below, PostLoops)
    BY <1>1, <1>2, AroundCallback, CallKinds
<1>6. TypeOK'
    BY <1>3 DEF SInv, TypeOK, preVars
<1>7. ActiveInv'
    BY <1>1, <1>2, <1>3, <1>4, <1>5 DEF SInv, ActiveInv, Counted, preVars
<1>8. QED
    BY <1>2, <1>3, <1>4, <1>6, <1>7, Assembled DEF Counted

\* A loop over callbacks runs the next, or throws.
LEMMA CallbackRunsStep ==
    ASSUME SInv, stack # <<>>, ~thrown, Head(stack).fn \in {"flushPre", "flushPost"},
           Head(stack).at = "loop", NEW t \in PreCb \cup PostCb, RunsTask(t),
           UNCHANGED <<queueVars, isFlushPending, preVars, postVars>>
    PROVE  SInv' /\ WaitingJobIsKept
<1> DEFINE h == Head(stack)
<1>1. Shape(stack) /\ stack # <<>> /\ h.fn \in {"flushPre", "flushPost"} /\ h.at = "loop"
    BY DEF SInv
<1>2. h \in Calls /\ \A F : Some(stack, F) <=> h \in F \/ Some(Below, F)
    BY <1>1, TopIs
<1>3. Abandoned /\ Some(stack, BusyCalls)
    BY <1>1, <1>2, CallKinds, AroundCallback DEF SInv, ActiveInv, Abandoned
<1>4. t \in Task /\ t \notin Job
    BY TaskAssumption DEF Task
<1>5. queue' = queue /\ flushIndex' = flushIndex /\ isFlushing' = isFlushing
      /\ activePre' = activePre /\ activePost' = activePost
    BY DEF queueVars, preVars, postVars
<1>6. CASE TooOften(h.seen, t)
    <2>1. thrown' = TRUE /\ stack' = stack
        BY <1>6 DEF RunsTask
    <2>2. TypeOK'
        BY <2>1 DEF SInv, TypeOK, queueVars, preVars, postVars
    <2>3. ActiveInv'
        BY <1>3, <1>5, <2>1 DEF SInv, ActiveInv, Abandoned
    <2>4. QED
        BY <1>1, <1>5, <2>1, <2>2, <2>3, Assembled DEF Runs
<1>7. CASE ~TooOften(h.seen, t)
    <2>1. CalledFrom(TaskCall(t), h)
        BY <1>1, <1>4 DEF CalledFrom, TaskCall, Call
    <2>2. /\ Shape(stack') /\ stack' # <<>> /\ stack'[1] = TaskCall(t)
          /\ Head(stack') = TaskCall(t) /\ TaskCall(t) \in Calls
          /\ \A F \in Counted : Some(stack', F) <=> TaskCall(t) \in F \/ Some(stack, F)
          /\ thrown' = thrown
        BY <1>1, <1>4, <1>7, <2>1, RanCall
    <2>3. TaskCall(t).fn = "task" /\ TaskCall(t).task = t
        BY DEF TaskCall, Call
    <2>4. /\ \A F \in Counted : Some(stack', F) <=> Some(stack, F)
          /\ stack'[1] \notin Waits
        BY <1>4, <2>2, <2>3, CallKinds DEF Counted, Busy
    <2>5. TypeOK'
        BY <2>2 DEF SInv, TypeOK, queueVars, preVars, postVars
    <2>6. ActiveInv'
        BY <1>3, <1>5, <2>2, <2>4 DEF SInv, ActiveInv, Abandoned, Counted
    <2>7. ~Runs("flushJobs", "jobs")'
        BY <2>2, <2>3 DEF Runs
    <2>8. QED
        BY <1>5, <2>2, <2>4, <2>5, <2>6, <2>7, Assembled DEF Counted
<1>8. QED
    BY <1>6, <1>7

\* The next callback runs.
LEMMA NextCbRunsStep ==
    ASSUME SInv, NextPreCbRuns \/ NextPostCbRuns
    PROVE  SInv' /\ WaitingJobIsKept
<1>1. CASE NextPreCbRuns
    <2>1. activePre[preIndex + 1] \in PreCb \cup PostCb
        BY <1>1 DEF NextPreCbRuns, SInv, TypeOK
    <2>2. QED
        BY <1>1, <2>1, CallbackRunsStep DEF NextPreCbRuns, Runs
<1>2. CASE NextPostCbRuns
    <2>1. activePost[postIndex + 1] \in PreCb \cup PostCb
        BY <1>2 DEF NextPostCbRuns, SInv, TypeOK
    <2>2. QED
        BY <1>2, <2>1, CallbackRunsStep DEF NextPostCbRuns, Runs
<1>3. QED
    BY <1>1, <1>2

-----------------------------------------------------------------------------
(* The tasks, an exception, and what queues.                               *)

\* A job or callback returns, to the loop that called it.
LEMMA TaskReturnsStep == ASSUME SInv, TaskReturns PROVE SInv' /\ WaitingJobIsKept
<1> DEFINE h == Head(stack)
           b == Below[1]
<1>1. Shape(stack) /\ stack # <<>> /\ h.fn = "task" /\ ~thrown
    BY DEF TaskReturns, Runs, SInv
<1>2. /\ h \in Calls /\ Below \in Seq(Calls) /\ Shape(Below)
      /\ \A F : Some(stack, F) <=> h \in F \/ Some(Below, F)
    BY <1>1, TopIs
<1>3. Below # <<>> /\ b \in Calls /\ CalledFrom(h, b) /\ Some(Below, BusyCalls)
    BY <1>1, AroundCallback
<1>4. stack' = Below /\ stack' # <<>> /\ stack'[1] = b /\ Head(stack') = b /\ Shape(stack')
    BY <1>2, <1>3 DEF TaskReturns, ReturnsToLoop
<1>5. /\ queue' = queue /\ isFlushing' = isFlushing /\ isFlushPending' = isFlushPending
      /\ pendingPre' = pendingPre /\ activePre' = activePre
      /\ pendingPost' = pendingPost /\ activePost' = activePost /\ thrown' = thrown
    BY DEF TaskReturns, ReturnsToLoop
<1>6. /\ queue \in Seq(Job) /\ Len(queue) \in Nat /\ flushIndex \in 0..Len(queue)
      /\ preIndex \in Nat /\ postIndex \in Nat
    BY DEF SInv, TypeOK
<1>7. CASE h \in JobTasks
    <2>1. b \in JobLoops /\ b.fn = "flushJobs" /\ b.at = "jobs"
        BY <1>1, <1>3, <1>7 DEF CalledFrom, JobTasks, JobLoops
    <2>2. flushIndex' = flushIndex + 1 /\ preIndex' = preIndex /\ postIndex' = postIndex
        BY <2>1 DEF TaskReturns, ReturnsToLoop
    <2>3. flushIndex < Len(queue)
        BY <1>2, <1>7 DEF SInv, QueueInv
    <2>4. /\ ~Some(Below, JobTasks) /\ Some(Below, JobLoops)
          /\ ~Some(Below, PreLoops) /\ ~Some(Below, PostLoops)
        <3> DEFINE t == Tail(Below)
        <3>1. t \in Seq(Calls) /\ Below = <<b>> \o t
            BY <1>2, <1>3, TopAndRest
        <3>2. /\ ~Some(t, JobTasks) /\ ~Some(t, PreLoops) /\ ~Some(t, PostLoops)
            BY <1>2, <1>3, <2>1, <3>1, BelowFlush
        <3>3. \A F : Some(Below, F) <=> b \in F \/ Some(t, F)
            <4>1. \A F : Some(<<b>> \o t, F) <=> b \in F \/ Some(t, F)
                BY <1>3, <3>1, SomeOnTop
            <4>2. QED
                BY <3>1, <4>1, Zenon
        <3>4. QED
            BY <1>3, <2>1, <3>2, <3>3, CallKinds
    <2>5. TypeOK'
        BY <1>5, <1>6, <2>2, <2>3 DEF SInv, TypeOK
    <2>6. ActiveInv'
        BY <1>1, <1>3, <1>4, <1>5, <2>1, <2>4, CallKinds DEF SInv, ActiveInv
    <2>7. FirstInOrder' = flushIndex + 2
        BY <1>1, <1>4, <1>5, <1>6, <2>1, <2>2 DEF FirstInOrder, Runs
    <2>8. QueueInv'
        <3>1. InOrder(queue, flushIndex + 2)
            BY OrderAfterFirst DEF SInv
        <3>2. Twice(queue, flushIndex + 3)
            <4>1. Twice(queue, flushIndex + 2) /\ flushIndex + 2 \in Nat /\ flushIndex + 3 \in Nat
                  /\ flushIndex + 2 <= flushIndex + 3
                BY <1>6 DEF SInv, QueueInv
            <4>2. QED
                BY <1>6, <4>1, Later
        <3>3. flushIndex' + 2 = flushIndex + 3
            BY <1>6, <2>2
        <3>4. QED
            BY <1>4, <1>5, <2>4, <2>7, <3>1, <3>2, <3>3 DEF QueueInv
    <2>9. WaitingJobIsKept
        <3>1. stack \in Seq(Calls) /\ stack' \in Seq(Calls)
            BY <1>1, <1>4 DEF Shape
        <3>2. JobRuns
            BY <1>2, <1>7, <3>1, JobRunsIs
        <3>3. ~JobRuns'
            BY <1>4, <2>4, <3>1, CallKinds DEF JobRuns, Some
        <3>4. FirstWaiting' = FirstWaiting
            BY <1>6, <2>2, <3>2, <3>3 DEF FirstWaiting
        <3>5. \A u \in Waiting : u \in Waiting'
            BY <1>5, <3>4 DEF Waiting
        <3>6. ASSUME NEW u \in Job, QueueJob(u), Wanted(u) PROVE FALSE
            BY <1>5, <3>6, NothingQueued DEF SInv
        <3>7. QED
            BY <3>5, <3>6 DEF WaitingJobIsKept
    <2>10. QED
        BY <1>4, <2>5, <2>6, <2>8, <2>9 DEF SInv
<1>8. CASE h \notin JobTasks
    <2>1. b.fn \in {"flushPre", "flushPost"} /\ b.at = "loop"
        BY <1>1, <1>2, <1>3, <1>8, CallKinds DEF CalledFrom
    <2>2. flushIndex' = flushIndex /\ preIndex' \in Nat /\ postIndex' \in Nat
        <3>1. CASE b.fn = "flushPre"
            <4>1. preIndex' = preIndex + 1 /\ UNCHANGED <<flushIndex, postIndex>>
                BY <3>1 DEF TaskReturns, ReturnsToLoop
            <4>2. QED
                BY <1>6, <4>1
        <3>2. CASE b.fn = "flushPost"
            <4>1. postIndex' = postIndex + 1 /\ UNCHANGED <<flushIndex, preIndex>>
                BY <3>2 DEF TaskReturns, ReturnsToLoop
            <4>2. QED
                BY <1>6, <4>1
        <3>3. QED
            BY <2>1, <3>1, <3>2
    <2>3. \A F \in Counted : Some(stack', F) <=> Some(stack, F)
        BY <1>1, <1>2, <1>4, <1>8, CallKinds DEF Counted, Busy
    <2>4. stack'[1] \notin Waits /\ ~Runs("flushJobs", "jobs")'
        BY <1>3, <1>4, <2>1, CallKinds DEF Runs
    <2>5. TypeOK'
        BY <1>5, <2>2 DEF SInv, TypeOK
    <2>6. ActiveInv'
        BY <1>1, <1>4, <1>5, <2>3, <2>4 DEF SInv, ActiveInv, Abandoned, Counted
    <2>7. QED
        BY <1>4, <1>5, <2>2, <2>3, <2>4, <2>5, <2>6, Assembled DEF Counted
<1>9. QED
    BY <1>7, <1>8

\* What a task that throws has been called by is a job's loop or a callback's.
LEMMA TaskThrowsStep == ASSUME SInv, TaskThrows PROVE SInv' /\ WaitingJobIsKept
<1> DEFINE h == Head(stack)
           b == Below[1]
<1>1. Shape(stack) /\ stack # <<>> /\ h.fn = "task" /\ ~thrown
    BY DEF TaskThrows, Runs, SInv
<1>2. h \in Calls /\ \A F : Some(stack, F) <=> h \in F \/ Some(Below, F)
    BY <1>1, TopIs
<1>3. /\ Below # <<>> /\ b \in Calls /\ CalledFrom(h, b) /\ Below \in Seq(Calls)
      /\ Some(stack, BusyCalls)
    BY <1>1, AroundCallback, TopIs
<1>4. \A F : b \in F => Some(Below, F)
    BY <1>3 DEF Some
<1>5. /\ thrown' = TRUE /\ stack' = stack /\ queue' = queue /\ flushIndex' = flushIndex
      /\ isFlushing' = isFlushing /\ activePre' = activePre /\ activePost' = activePost
    BY DEF TaskThrows, queueVars, preVars, postVars
<1>6. Some(stack, JobLoops) \/ Abandoned
    <2>1. CASE h \in JobTasks
        BY <1>1, <1>2, <2>1 DEF Shape
    <2>2. CASE h \notin JobTasks
        <3>1. b \in PreLoops \/ b \in PostLoops
            BY <1>1, <1>2, <1>3, <2>2, CallKinds DEF CalledFrom
        <3>2. QED
            BY <1>2, <1>4, <3>1 DEF SInv, ActiveInv, Abandoned
    <2>3. QED
        BY <2>1, <2>2
<1>7. TypeOK'
    BY <1>5 DEF SInv, TypeOK, TaskThrows, queueVars, preVars, postVars
<1>8. ActiveInv'
    BY <1>3, <1>5, <1>6 DEF SInv, ActiveInv, Abandoned
<1>9. QED
    BY <1>1, <1>5, <1>7, <1>8, Assembled DEF Runs

\* An exception leaves the innermost call; only flushJobs, by its finally, does something.
LEMMA UnwindsStep == ASSUME SInv, Unwinds PROVE SInv' /\ WaitingJobIsKept
<1>1. thrown /\ Shape(stack) /\ UNCHANGED <<preVars, postVars>>
    BY DEF Unwinds, SInv
<1>2. CASE stack = <<>>
    <2>1. /\ thrown' = FALSE /\ UNCHANGED <<queueVars, stack, isFlushPending>>
        BY <1>2 DEF Unwinds
    <2>2. \A F : ~Some(stack, F)
        BY <1>2 DEF Some
    <2>3. TypeOK'
        BY <1>1, <2>1 DEF SInv, TypeOK, queueVars, preVars, postVars
    <2>4. ActiveInv'
        BY <1>1, <1>2, <2>1, <2>2 DEF SInv, ActiveInv, Abandoned, queueVars, preVars, postVars
    <2>5. QED
        BY <1>1, <1>2, <2>1, <2>3, <2>4, Assembled DEF Runs, queueVars
<1>3. CASE stack # <<>> /\ Head(stack).fn = "flushJobs" /\ Head(stack).at = "jobs"
    <2>1. thrown' = FALSE /\ Finally("failed")
        BY <1>3 DEF Unwinds
    <2>2. QED
        BY <1>1, <1>3, <2>1, FinallyStep
<1>4. CASE stack # <<>> /\ ~(Head(stack).fn = "flushJobs" /\ Head(stack).at = "jobs")
    <2>1. stack' = Below /\ UNCHANGED <<thrown, queueVars, isFlushPending>>
        BY <1>4 DEF Unwinds
    <2>2. /\ Head(stack) \in Calls /\ Shape(stack')
          /\ \A F : Some(stack, F) <=> Head(stack) \in F \/ Some(stack', F)
        BY <1>1, <1>4, <2>1, TopIs
    <2>3. /\ Some(stack', JobLoops) <=> Some(stack, JobLoops)
          /\ Some(stack', JobTasks) => Some(stack, JobTasks)
          /\ Some(stack', PreLoops) => Some(stack, PreLoops)
          /\ Some(stack', PostLoops) => Some(stack, PostLoops)
        BY <1>4, <2>2, CallKinds
    <2>4. Some(stack', JobLoops) => Some(stack', BusyCalls)
        BY DEF Some, JobLoops, BusyCalls, Busy
    <2>5. TypeOK'
        BY <1>1, <2>1 DEF SInv, TypeOK, queueVars, preVars, postVars
    <2>6. ActiveInv'
        BY <1>1, <2>1, <2>3, <2>4 DEF SInv, ActiveInv, Abandoned, queueVars, preVars, postVars
    <2>7. QueueInv'
        <3>1. queue' = queue /\ flushIndex' = flushIndex /\ FirstInOrder' = flushIndex + 2
            BY <1>1, <2>1 DEF FirstInOrder, Runs, queueVars
        <3>2. QED
            BY <2>3, <3>1, OrderAfterFirst DEF SInv, QueueInv
    <2>8. WaitingJobIsKept
        <3>1. ASSUME NEW u \in Job, QueueJob(u), Wanted(u) PROVE FALSE
            BY <2>1, <3>1, NothingQueued DEF SInv, queueVars
        <3>2. QED
            BY <1>1, <3>1 DEF WaitingJobIsKept
    <2>9. QED
        BY <2>2, <2>5, <2>6, <2>7, <2>8 DEF SInv
<1>5. QED
    BY <1>2, <1>3, <1>4

\* Something is queued, or a job is removed.
LEMMA QueuesStep ==
    ASSUME SInv, Queues \/ \E t \in Job : InvalidateJob(t), thrown' = thrown, Shape(stack'),
           \A F \in Counted : Some(stack', F) <=> Some(stack, F),
           ~Runs("flushJobs", "jobs"), ~Runs("flushJobs", "jobs")',
           stack' # <<>> => stack'[1] \notin Waits
    PROVE  SInv' /\ WaitingJobIsKept
<1>1. stack \in Seq(Calls) /\ stack' \in Seq(Calls)
    BY DEF SInv, Shape
<1>2. /\ Some(stack', JobTasks) <=> Some(stack, JobTasks)
      /\ Some(stack', JobLoops) <=> Some(stack, JobLoops)
      /\ Some(stack', BusyCalls) <=> Some(stack, BusyCalls)
      /\ Some(stack', PreLoops) <=> Some(stack, PreLoops)
      /\ Some(stack', PostLoops) <=> Some(stack, PostLoops)
    BY DEF Counted
<1>3. TypeOK /\ QueueInv
    BY DEF SInv
<1>4. /\ isFlushing' = isFlushing /\ activePre' = activePre /\ activePost' = activePost
      /\ preIndex' = preIndex /\ postIndex' = postIndex /\ isFlushPending' \in BOOLEAN
    BY <1>3 DEF Queues, QueueJob, QueuePreFlushCb, QueuePostFlushCb, InvalidateJob, FlushPending,
       TypeOK, queueVars, preVars, postVars
<1>5. ActiveInv'
    BY <1>2, <1>4 DEF SInv, ActiveInv, Abandoned
<1>6. CASE (\E t \in Job : QueueJob(t)) \/ \E t \in Job : InvalidateJob(t)
    <2>1. UNCHANGED <<preVars, postVars>>
        BY <1>6 DEF QueueJob, InvalidateJob
    <2>2. QueueInv' /\ WaitingJobIsKept /\ queue' \in Seq(Job) /\ flushIndex' \in 0..Len(queue')
        BY <1>1, <1>2, <1>3, <1>6, JobIsQueued, JobIsRemoved
    <2>3. TypeOK'
        BY <1>3, <1>4, <2>1, <2>2 DEF TypeOK, preVars, postVars
    <2>4. QED
        BY <1>5, <2>2, <2>3 DEF SInv
<1>7. CASE (\E t \in PreCb : QueuePreFlushCb(t)) \/ \E t \in PostCb : QueuePostFlushCb(t)
    <2>1. queue' = queue /\ flushIndex' = flushIndex
        BY <1>7 DEF QueuePreFlushCb, QueuePostFlushCb, queueVars
    <2>2. pendingPre' \in Seq(PreCb) /\ pendingPost' \in Seq(PostCb)
        <3>1. CASE \E t \in PreCb : QueuePreFlushCb(t)
            <4>1. PICK t \in PreCb : pendingPre' = pendingPre \/ pendingPre' = Append(pendingPre, t)
                BY <3>1 DEF QueuePreFlushCb, Pushed
            <4>a. pendingPre \in Seq(PreCb) /\ pendingPost \in Seq(PostCb)
                BY <1>3 DEF TypeOK
            <4>b. Append(pendingPre, t) \in Seq(PreCb)
                BY <4>a
            <4>2. pendingPost' = pendingPost
                BY <3>1 DEF QueuePreFlushCb, postVars
            <4>3. QED
                BY <4>1, <4>a, <4>b, <4>2
        <3>2. CASE \E t \in PostCb : QueuePostFlushCb(t)
            <4>1. PICK t \in PostCb : pendingPost' = pendingPost \/ pendingPost' = Append(pendingPost, t)
                BY <3>2 DEF QueuePostFlushCb, Pushed
            <4>a. pendingPost \in Seq(PostCb) /\ pendingPre \in Seq(PreCb)
                BY <1>3 DEF TypeOK
            <4>b. Append(pendingPost, t) \in Seq(PostCb)
                BY <4>a
            <4>2. pendingPre' = pendingPre
                BY <3>2 DEF QueuePostFlushCb, preVars
            <4>3. QED
                BY <4>1, <4>a, <4>b, <4>2
        <3>3. QED
            BY <1>7, <3>1, <3>2
    <2>3. TypeOK'
        BY <1>3, <1>4, <2>1, <2>2 DEF TypeOK
    <2>4. QED
        BY <1>2, <1>5, <2>1, <2>3, Assembled
<1>8. QED
    BY <1>6, <1>7 DEF Queues

\* The program outside queues or removes something.
LEMMA OutsideQueuesStep == ASSUME SInv, OutsideQueues PROVE SInv' /\ WaitingJobIsKept
<1>1. stack = <<>> /\ stack' = stack /\ thrown' = thrown /\ Queues /\ Shape(stack')
    BY DEF OutsideQueues, SInv
<1>2. QED
    BY <1>1, QueuesStep DEF Runs

\* A task that has called something.
LEMMA Spends ==
    ASSUME SInv, HasCallLeft
    PROVE  /\ Shape(SpendsCall) /\ SpendsCall \in Seq(Calls) /\ SpendsCall # <<>>
           /\ \A F \in Counted : Some(SpendsCall, F) <=> Some(stack, F)
           /\ \E g \in Calls :
                 /\ g.fn = "task" /\ g.task = Head(stack).task
                 /\ SpendsCall = <<g>> \o Below /\ SpendsCall[1] = g /\ Head(SpendsCall) = g
<1> DEFINE h == Head(stack)
           g == [h EXCEPT !.left = @ - 1]
<1>1. Shape(stack) /\ stack # <<>> /\ h.fn = "task" /\ h.left > 0
    BY DEF HasCallLeft, Runs, SInv
<1>2. h \in Calls
    BY <1>1, TopIs
<1>3. g \in Calls /\ g.fn = h.fn /\ g.at = h.at /\ g.task = h.task
    BY <1>1, <1>2, OneLess DEF Calls
<1>4. SpendsCall = <<g>> \o Below
    BY DEF SpendsCall
<1> HIDE DEF g
<1>5. /\ Shape(<<g>> \o Below) /\ <<g>> \o Below \in Seq(Calls)
      /\ <<g>> \o Below # <<>> /\ (<<g>> \o Below)[1] = g /\ Head(<<g>> \o Below) = g
      /\ \A F \in Counted : Some(<<g>> \o Below, F) <=> Some(stack, F)
    BY <1>1, <1>3, Retouched
<1>6. QED
    BY <1>1, <1>3, <1>4, <1>5

\* A job or callback does.
LEMMA TaskQueuesStep == ASSUME SInv, TaskQueues PROVE SInv' /\ WaitingJobIsKept
<1>1. /\ HasCallLeft /\ stack' = SpendsCall /\ thrown' = thrown
      /\ Queues \/ \E t \in Job : InvalidateJob(t)
    BY DEF TaskQueues
<1>2. PICK g \in Calls :
            /\ g.fn = "task" /\ stack'[1] = g /\ Head(stack') = g
    BY <1>1, Spends
<1>3. /\ Shape(stack') /\ \A F \in Counted : Some(stack', F) <=> Some(stack, F)
    BY <1>1, Spends
<1>4. ~Runs("flushJobs", "jobs") /\ ~Runs("flushJobs", "jobs")' /\ stack'[1] \notin Waits
    BY <1>1, <1>2, CallKinds DEF Runs, HasCallLeft
<1>5. QED
    BY <1>1, <1>3, <1>4, QueuesStep

\* A task calls a flush of callbacks.
LEMMA TaskFlushesStep ==
    ASSUME SInv, HasCallLeft, NEW c \in Calls,
           \/ c.fn = "flushPre" /\ Head(stack).task \in Job
           \/ c.fn = "flushPost",
           c.at = "begin", stack' = <<c>> \o SpendsCall,
           UNCHANGED <<queueVars, isFlushPending, preVars, postVars, thrown>>
    PROVE  SInv' /\ WaitingJobIsKept
<1>1. PICK g \in Calls :
            /\ g.fn = "task" /\ g.task = Head(stack).task
            /\ SpendsCall = <<g>> \o Below /\ SpendsCall[1] = g
    BY Spends
<1>2. /\ Shape(SpendsCall) /\ SpendsCall \in Seq(Calls) /\ SpendsCall # <<>>
      /\ \A F \in Counted : Some(SpendsCall, F) <=> Some(stack, F)
    BY Spends
<1> DEFINE r == SpendsCall
<1> HIDE DEF r
<1>3. CalledFrom(c, g) /\ c \notin PostLoops
    BY <1>1, CallKinds DEF CalledFrom
<1>4. /\ Shape(<<c>> \o r) /\ <<c>> \o r # <<>> /\ (<<c>> \o r)[1] = c /\ Head(<<c>> \o r) = c
      /\ \A F : Some(<<c>> \o r, F) <=> c \in F \/ Some(r, F)
    <2>1. r \in Seq(Calls) /\ Shape(r) /\ r # <<>> /\ r[1] = g
        BY <1>1, <1>2 DEF r
    <2>2. Shape(<<c>> \o r)
        BY <1>3, <2>1, ShapePush
    <2>3. <<c>> \o r # <<>> /\ (<<c>> \o r)[1] = c /\ Head(<<c>> \o r) = c
        BY <2>1, OnTop
    <2>4. \A F : Some(<<c>> \o r, F) <=> c \in F \/ Some(r, F)
        BY <2>1, SomeOnTop
    <2>5. QED
        BY <2>2, <2>3, <2>4
<1> DEFINE x == <<c>> \o r
<1>5. stack' = x
    BY DEF r
<1>6. /\ Shape(x) /\ x # <<>> /\ x[1] = c /\ Head(x) = c
      /\ \A F : Some(x, F) <=> c \in F \/ Some(r, F)
    BY <1>4
<1> HIDE DEF x
<1>7. /\ Shape(stack') /\ stack' # <<>> /\ stack'[1] = c /\ Head(stack') = c
      /\ \A F \in Counted : Some(stack', F) <=> Some(stack, F)
    <2>1. \A F \in Counted : c \notin F
        BY CallKinds DEF Counted, Busy
    <2>2. \A F \in Counted : Some(r, F) <=> Some(stack, F)
        BY <1>2 DEF r
    <2>3. \A F \in Counted : Some(x, F) <=> Some(stack, F)
        BY <1>6, <2>1, <2>2
    <2>4. QED
        BY <1>5, <1>6, <2>3, Zenon
<1>8. stack'[1] \notin Waits /\ ~Runs("flushJobs", "jobs")'
    BY <1>7, CallKinds DEF Runs
<1>9. /\ queue' = queue /\ flushIndex' = flushIndex /\ isFlushing' = isFlushing
      /\ activePre' = activePre /\ activePost' = activePost /\ thrown' = thrown
    BY DEF queueVars, preVars, postVars
<1>10. TypeOK'
    BY DEF SInv, TypeOK, queueVars, preVars, postVars
<1>11. ActiveInv'
    BY <1>7, <1>8, <1>9 DEF SInv, ActiveInv, Abandoned, Counted
<1>12. QED
    BY <1>7, <1>8, <1>9, <1>10, <1>11, Assembled DEF Counted

\* A job or callback calls flushPreFlushCbs or flushPostFlushCbs.
LEMMA TaskCallsStep ==
    ASSUME SInv, JobFlushesPre \/ TaskFlushesPost
    PROVE  SInv' /\ WaitingJobIsKept
<1>1. NotSeen \in [Task -> Nat]
    BY DEF NotSeen
<1>2. CASE JobFlushesPre
    <2>1. Head(stack).task \in Task \cup {NoTask}
        BY <1>2 DEF JobFlushesPre, Task
    <2>2. PreCall(NotSeen, Head(stack).task) \in Calls
        BY <1>1, <2>1, NewCalls
    <2>3. PreCall(NotSeen, Head(stack).task).fn = "flushPre"
          /\ PreCall(NotSeen, Head(stack).task).at = "begin"
        BY DEF PreCall, Call
    <2>4. QED
        BY <1>2, <2>2, <2>3, TaskFlushesStep DEF JobFlushesPre
<1>3. CASE TaskFlushesPost
    <2>1. NoTask \in Task \cup {NoTask}
        OBVIOUS
    <2>2. PostCall(NotSeen) \in Calls
        BY <1>1, <2>1, NewCalls
    <2>3. PostCall(NotSeen).fn = "flushPost" /\ PostCall(NotSeen).at = "begin"
        BY DEF PostCall, Call
    <2>4. QED
        BY <1>3, <2>2, <2>3, TaskFlushesStep DEF TaskFlushesPost
<1>4. QED
    BY <1>2, <1>3

-----------------------------------------------------------------------------
\* SInv holds at the start.
LEMMA SInvInit == Init => SInv
<1> SUFFICES ASSUME Init PROVE SInv
    OBVIOUS
<1>1. \A F : ~Some(stack, F)
    BY DEF Init, Some
<1>2. TypeOK
    <2>1. <<>> \in Seq(Job) /\ <<>> \in Seq(PreCb) /\ <<>> \in Seq(PostCb) /\ Len(<<>>) = 0 /\ 0 \in 0..0
        OBVIOUS
    <2>2. QED
        BY <2>1 DEF Init, TypeOK
<1>3. Shape(stack)
    BY <1>1 DEF Init, Shape
<1>4. QueueInv
    <2>1. queue = <<>> /\ flushIndex = 0 /\ Len(queue) = 0
        BY DEF Init
    <2>2. FirstInOrder = 2
        BY DEF Init, FirstInOrder, Runs
    <2>3. InOrder(queue, 2) /\ Twice(queue, 2) /\ Apart(queue, 2)
        BY <2>1 DEF InOrder, Twice, Apart
    <2>4. QED
        BY <1>1, <2>1, <2>2, <2>3 DEF QueueInv
<1>5. ActiveInv
    BY <1>1 DEF Init, ActiveInv
<1>6. QED
    BY <1>2, <1>3, <1>4, <1>5 DEF SInv

\* No step ends SInv, and none loses a job that waits.
LEMMA SInvStep == SInv /\ [Next]_schedulerVars => SInv' /\ [WaitingJobIsKept]_schedulerVars
<1>1. ASSUME SInv, Next PROVE SInv' /\ WaitingJobIsKept
    <2>1. CASE Proceeds
        BY <1>1, <2>1, FlushBeginsStep, FlushRestartsStep, QueueIsSortedStep, NextJobRunsStep,
           QueueIsDoneStep, FlushEndsStep, OuterFlushEndsStep, PreCbsBeginStep, NextCbRunsStep,
           PreCbsEndStep, PostCbsBeginStep, PostCbsEndStep, TaskReturnsStep, UnwindsStep
           DEF Proceeds
    <2>2. CASE ~Proceeds
        BY <1>1, <2>2, TaskThrowsStep, OutsideQueuesStep, TaskQueuesStep, TaskCallsStep DEF Next
    <2>3. QED
        BY <2>1, <2>2
<1>2. ASSUME SInv, UNCHANGED schedulerVars PROVE SInv'
    BY <1>2 DEF SInv, TypeOK, QueueInv, ActiveInv, Abandoned, FirstInOrder, Runs,
       schedulerVars, queueVars, preVars, postVars
<1>3. QED
    BY <1>1, <1>2

\* SInv says what is wanted of the queue and of a scheduler that has stopped.
LEMMA SInvShows == SInv => QueueInOrder /\ StopsOnlyInCallbacks
<1> SUFFICES ASSUME SInv PROVE QueueInOrder /\ StopsOnlyInCallbacks
    OBVIOUS
<1>1. queue \in Seq(Job) /\ flushIndex \in Nat /\ Len(queue) \in Nat /\ DOMAIN queue = 1..Len(queue)
    BY DEF SInv, TypeOK
<1>2. FirstInOrder = flushIndex + 1 \/ FirstInOrder = flushIndex + 2
    BY DEF FirstInOrder
<1>3. ASSUME NEW k \in flushIndex + 2..Len(queue), NEW i \in FirstInOrder..k
      PROVE  Id[queue[i]] <= Id[queue[k]]
    <2>1. k \in FirstInOrder..Len(queue)
        BY <1>1, <1>2
    <2>2. QED
        BY <2>1 DEF SInv, QueueInv, InOrder
<1>4. ASSUME NEW k \in flushIndex + 2..Len(queue), NEW i \in DOMAIN queue, NEW j \in DOMAIN queue,
             NEW l \in DOMAIN queue, Again(i, k), Again(j, l)
      PROVE  <<i, k>> = <<j, l>>
    <2>1. /\ i \in flushIndex + 2..k - 1 /\ j \in flushIndex + 2..l - 1
          /\ queue[i] = queue[k] /\ queue[j] = queue[l]
        BY <1>4 DEF Again
    <2>2. l \in flushIndex + 2..Len(queue)
        BY <1>1, <2>1
    <2>3. i = j /\ k = l
        BY <2>1, <2>2 DEF SInv, QueueInv, Twice
    <2>4. QED
        BY <2>3
<1>5. QueueInOrder
    BY <1>3, <1>4 DEF QueueInOrder
<1>6. StopsOnlyInCallbacks
    BY DEF SInv, ActiveInv, Abandoned, StopsOnlyInCallbacks, Some
<1>7. QED
    BY <1>5, <1>6

\* queueJob, invalidateJob and flushJobs' sort: what waits to run is in the order of ids, a parent's
\* update before its child's, whatever is queued and removed meanwhile, and nothing of it is there
\* twice but one job that a callback queued again before the loop.
THEOREM JobsAreInOrder == Spec => []QueueInOrder
<1>1. Init => SInv
    BY SInvInit
<1>2. SInv /\ [Next]_schedulerVars => SInv'
    BY SInvStep
<1>3. SInv => QueueInOrder
    BY SInvShows
<1>4. QED
    BY <1>1, <1>2, <1>3, PTL DEF Spec

\* flushJobs' loop and invalidateJob's splice: a job that waits in the queue stays there until it runs
\* or is removed, so no insertion or removal makes the loop skip it.
THEOREM WaitingJobsRun == Spec => WaitingJobRuns
<1>1. Init => SInv
    BY SInvInit
<1>2. SInv /\ [Next]_schedulerVars => SInv' /\ [WaitingJobIsKept]_schedulerVars
    BY SInvStep
<1>3. QED
    BY <1>1, <1>2, PTL DEF Spec, WaitingJobRuns

\* flushJobs' finally: only the exception of a pre or post callback leaves the scheduler as if it were
\* flushing; one of an update does not.
THEOREM OnlyCallbacksStopIt == Spec => []StopsOnlyInCallbacks
<1>1. Init => SInv
    BY SInvInit
<1>2. SInv /\ [Next]_schedulerVars => SInv'
    BY SInvStep
<1>3. SInv => StopsOnlyInCallbacks
    BY SInvShows
<1>4. QED
    BY <1>1, <1>2, <1>3, PTL DEF Spec
=============================================================================
