--------------------------- MODULE VueReactivity ----------------------------
(***************************************************************************)
(* The reactivity of the Vue runtime: an effect is a function whose reads  *)
(* of reactive data are tracked, and which a write that may change what it *)
(* has read runs again, at once or through its scheduler.  The data is one *)
(* object, array, Map or Set behind its proxy, and the value of a computed *)
(* ref.  What an effect reads and writes is arbitrary; the calls under way *)
(* are a stack, because a write runs effects inside the writer.            *)
(***************************************************************************)
EXTENDS Naturals, Sequences, FiniteSets, Functions

CONSTANTS Kinds,     \* the kinds of data to look at, of "object", "array", "map", "set"
          Plain,     \* effects without a scheduler
          Queued,    \* effects whose scheduler queues them, as a component's update
          Computed,  \* computed refs
          Recurse,   \* the effects created with allowRecurse
          MaxLen,    \* keys are 0..MaxLen - 1, the indexes of an array of full length
          Value,
          Steps,     \* Steps[e]: the reads and writes of one run of e (a bound for TLC)
          Writers,   \* the effects that write the data (a bound for TLC)
          MaxEffects, \* how many effects there are at a time (a bound for TLC)
          MaxDepth   \* how deep the calls are that still write (a bound for TLC)

Effect == Plain \cup Queued \cup Computed
Key == 0..MaxLen - 1

VARIABLES kind,        \* the kind of the data
          content,     \* its entries, a function from keys to values
          length,      \* of an array
          deps,        \* targetMap: the pairs <<dep, effect>>, a dep being a tracked key
          active,      \* the effects that are not stopped
          dirty,       \* the computed refs that are to be evaluated when they are read
          queued,      \* the effects that a scheduler has been given
          shouldTrack, trackStack,
          stack,       \* the calls under way, the innermost first
          view,        \* view[e]: what e has observed since it last began
          excused      \* the active effects that missed a write because they were running,
                       \* and of the stopped ones those that were stopped while they ran

vars == <<kind, content, length, deps, active, dirty, queued, shouldTrack, trackStack,
          stack, view, excused>>
data == <<content, length>>

-----------------------------------------------------------------------------
(* What can be read, and the deps a read is tracked under.                 *)

Reads ==
    CASE kind = "object" -> {"get", "has", "ownKeys"}
      [] kind = "array"  -> {"get", "has", "length", "ownKeys", "includes"}
      [] kind = "map"    -> {"get", "has", "size", "forEach", "keys"}
      [] kind = "set"    -> {"has", "size", "forEach"}

Keyed == {"get", "has"}
NoKey == MaxLen
KeyDep(k) == <<"key", k>>
IndexDeps(from, to) == {KeyDep(k) : k \in from..to}
LengthDep == <<"length">>
IterateDep == <<"ITERATE_KEY">>
MapKeyDep == <<"MAP_KEY_ITERATE_KEY">>
ValueDep(c) == <<"value", c>>

IterateKey(read) == IF read = "keys" THEN MapKeyDep ELSE IterateDep

\* get, has, ownKeys, the searching methods of arrays, and get, has, size, forEach and
\* the iterators of collections.
Deps(read, k) ==
    CASE read \in Keyed -> {KeyDep(k)}
      [] read \in {"length", "ownKeys"} /\ kind = "array" -> {LengthDep}
      [] read = "includes" -> IndexDeps(0, length - 1) \cup {LengthDep}
      [] OTHER -> {IterateKey(read)}

\* What the read returns, as far as a later write can change it; the keys of an array go
\* with its length, under which they are tracked.
Result(read, k) ==
    CASE read = "get"      -> IF k \in DOMAIN content THEN <<content[k]>> ELSE <<>>
      [] read = "has"      -> k \in DOMAIN content
      [] read = "length"   -> length
      [] read = "size"     -> Cardinality(DOMAIN content)
      [] read = "ownKeys"  -> IF kind = "array" THEN <<DOMAIN content, length>> ELSE DOMAIN content
      [] read = "keys"     -> DOMAIN content
      [] read = "includes" -> {content[i] : i \in DOMAIN content}
      [] read = "forEach"  -> content

-----------------------------------------------------------------------------
(* The call stack: an effect that runs, a trigger that runs effects, a     *)
(* method of arrays, and the getter of a computed ref.                     *)

Frame(fn, effect, todo, left) == [fn |-> fn, effect |-> effect, todo |-> todo, left |-> left]
None == "none"
Running == {stack[i].effect : i \in {j \in DOMAIN stack : stack[j].fn = "run"}}

\* activeEffect, the top of effectStack.
ActiveEffect ==
    IF \E i \in DOMAIN stack : stack[i].fn = "run"
    THEN stack[CHOOSE i \in DOMAIN stack :
                   /\ stack[i].fn = "run"
                   /\ \A j \in 1..i - 1 : stack[j].fn # "run"].effect
    ELSE None

Top(fn) == stack # <<>> /\ Head(stack).fn = fn
Tracks == shouldTrack /\ ActiveEffect # None
Track(ds) == deps' = deps \cup (IF Tracks THEN ds \X {ActiveEffect} ELSE {})
Cleanup(e) == {p \in deps : p[2] # e}

Enable == trackStack' = <<shouldTrack>> \o trackStack /\ shouldTrack' = TRUE
Pause == trackStack' = <<shouldTrack>> \o trackStack /\ shouldTrack' = FALSE
Reset ==
    IF trackStack = <<>> THEN shouldTrack' = TRUE /\ UNCHANGED trackStack
    ELSE shouldTrack' = Head(trackStack) /\ trackStack' = Tail(trackStack)
NoTracking == UNCHANGED <<shouldTrack, trackStack>>

\* The effects that trigger collects under the given deps.
Collect(ds) == {e \in Effect : /\ \E d \in ds : <<d, e>> \in deps
                               /\ e # ActiveEffect \/ e \in Recurse}

\* The call that runs the effects of the given deps, if there are any.
Trigger(ds) == IF Collect(ds) = {} THEN <<>> ELSE <<Frame("trigger", None, Collect(ds), 0)>>

\* A write of the data: the deps it triggers are run before it goes on with `rest`.
\* Whoever is running may have read what is written, and is not run again.
Writes(ds, c, l, rest) ==
    /\ content' = c /\ length' = l
    /\ stack' = Trigger(ds) \o rest
    /\ excused' = excused \cup Running
    /\ UNCHANGED <<kind, deps, active, dirty, queued, view>>

-----------------------------------------------------------------------------
(* trigger's deps for each kind of write.                                  *)

\* A wrong variant: the first value of a key is a change of its value only.
AddIsASet(k) == {KeyDep(k)}

OnAdd(k) ==
    {KeyDep(k)} \cup CASE kind = "array" -> {LengthDep}
                       [] kind = "map"   -> {IterateDep, MapKeyDep}
                       [] OTHER          -> {IterateDep}

OnDelete(k) ==
    {KeyDep(k)} \cup CASE kind = "array" -> {}
                       [] kind = "map"   -> {IterateDep, MapKeyDep}
                       [] OTHER          -> {IterateDep}

OnSet(k) == {KeyDep(k)} \cup (IF kind = "map" THEN {IterateDep} ELSE {})

OnLength(n) == {LengthDep} \cup IndexDeps(n, MaxLen - 1)

OnClear == IndexDeps(0, MaxLen - 1) \cup {IterateDep, MapKeyDep}

With(k, v) == [i \in DOMAIN content \cup {k} |-> IF i = k THEN v ELSE content[i]]
Without(ks) == Restrict(content, DOMAIN content \ ks)

\* createSetter, and add and set of the collections: nothing is triggered when the
\* value stays.
SetKey(k, v, rest) ==
    LET hadKey == IF kind = "array" THEN k < length ELSE k \in DOMAIN content
        l == IF kind = "array" /\ k >= length THEN k + 1 ELSE length
    IN  /\ kind = "set" => ~hadKey
        /\ ~(k \in DOMAIN content /\ content[k] = v)
        /\ Writes(IF hadKey THEN OnSet(k) ELSE OnAdd(k), With(k, v), l, rest)

\* deleteProperty and deleteEntry.
DeleteKey(k, rest) ==
    /\ k \in DOMAIN content
    /\ Writes(OnDelete(k), Without({k}), length, rest)

SetLength(n, rest) ==
    /\ kind = "array" /\ n # length
    /\ Writes(OnLength(n), Without(n..MaxLen), n, rest)

Clear(rest) ==
    /\ kind \in {"map", "set"} /\ content # <<>> /\ DOMAIN content # {}
    /\ Writes(OnClear, Without(Key), length, rest)

\* push and pop work on the proxy with tracking paused: one adds an element, the other
\* deletes the last one, before it sets the length, and effects run between the two.
Push(v, rest) ==
    /\ kind = "array" /\ length < MaxLen
    /\ SetKey(length, v, <<Frame("length", None, {}, length + 1)>> \o rest)
    /\ Pause

Pop(rest) ==
    /\ kind = "array" /\ length > 0
    /\ LET k == length - 1
           then == <<Frame("length", None, {}, k)>> \o rest
       IN  IF k \in DOMAIN content THEN DeleteKey(k, then)
           ELSE stack' = then /\ UNCHANGED <<kind, data, deps, active, dirty, queued, view, excused>>
    /\ Pause

Write(rest) ==
    \/ /\ \/ \E k \in Key : \/ \E v \in Value : SetKey(k, v, rest)
                            \/ DeleteKey(k, rest)
          \/ \E n \in 0..MaxLen : SetLength(n, rest)
          \/ Clear(rest)
       /\ NoTracking
    \/ \E v \in Value : Push(v, rest)
    \/ Pop(rest)

MethodSetsLength ==
    /\ Top("length")
    /\ LET rest == <<Frame("unpause", None, {}, 0)>> \o Tail(stack)
       IN  IF length = Head(stack).left
           THEN /\ stack' = rest
                /\ UNCHANGED <<kind, data, deps, active, dirty, queued, view, excused>>
           ELSE SetLength(Head(stack).left, rest)
    /\ NoTracking

MethodEnds ==
    /\ Top("unpause")
    /\ stack' = Tail(stack) /\ Reset
    /\ UNCHANGED <<kind, data, deps, active, dirty, queued, view, excused>>

-----------------------------------------------------------------------------
(* The runs.                                                               *)

\* reactiveEffect: a stopped effect runs untracked unless it has a scheduler, and one
\* that is running already does not run.
Starts(e, rest) ==
    /\ IF e \notin active
       THEN /\ stack' = (IF e \in Plain THEN <<Frame("raw", e, {}, Steps[e])>> ELSE <<>>) \o rest
            /\ NoTracking /\ UNCHANGED <<deps, view, excused>>
       ELSE IF e \in Running THEN stack' = rest /\ NoTracking /\ UNCHANGED <<deps, view, excused>>
       ELSE /\ deps' = Cleanup(e) /\ view' = [view EXCEPT ![e] = {}]
            /\ excused' = excused \ {e}
            /\ stack' = <<Frame("run", e, {}, Steps[e])>> \o rest
            /\ Enable
    /\ UNCHANGED <<kind, data, active, dirty>>

\* The next effect of a trigger: run, given to its scheduler, or, for a computed ref
\* that is clean, marked dirty, which triggers in turn.
TriggerRuns(e) ==
    /\ Top("trigger") /\ e \in Head(stack).todo
    /\ LET todo == Head(stack).todo \ {e}
           rest == IF todo = {} THEN Tail(stack)
                   ELSE <<[Head(stack) EXCEPT !.todo = todo]>> \o Tail(stack)
       IN  \/ /\ e \in Plain
              /\ Starts(e, rest) /\ UNCHANGED queued
           \/ /\ e \in Queued
              /\ queued' = queued \cup {e} /\ stack' = rest
              /\ NoTracking /\ UNCHANGED <<kind, data, deps, active, dirty, view, excused>>
           \/ /\ e \in Computed
              /\ stack' = (IF e \in dirty THEN <<>>
                           ELSE Trigger({ValueDep(e)})) \o rest
              /\ dirty' = dirty \cup {e}
              /\ NoTracking /\ UNCHANGED <<kind, data, deps, active, queued, view, excused>>

\* The scheduler runs what it was given.
QueuedRuns(e) ==
    /\ stack = <<>> /\ e \in queued
    /\ queued' = queued \ {e}
    /\ Starts(e, <<>>)

Runs == Top("run") \/ Top("raw")
Spent == <<[Head(stack) EXCEPT !.left = @ - 1]>> \o Tail(stack)
MayStep == Runs /\ Head(stack).left > 0

\* What the innermost active effect sees.
Observes(o) == view' = IF Tracks THEN [view EXCEPT ![ActiveEffect] = @ \cup {o}] ELSE view

RunReads(read, k) ==
    /\ MayStep /\ read \in Reads /\ (read \in Keyed <=> k # NoKey)
    /\ Track(Deps(read, k))
    /\ Observes([read |-> read, key |-> k, result |-> Result(read, k), of |-> None])
    /\ stack' = Spent
    /\ NoTracking /\ UNCHANGED <<kind, data, active, dirty, queued, excused>>

RunWrites ==
    /\ MayStep /\ Head(stack).effect \in Writers /\ Len(stack) <= MaxDepth
    /\ Write(Spent)

\* The getter of a computed ref, which no computed ref reads about itself: evaluate it
\* first if it is dirty, ...
RunReadsComputed(c) ==
    /\ MayStep /\ c \in (active \cap Computed) \ Running
    /\ LET then == <<Frame("value", c, {}, 0)>> \o Spent
       IN  IF c \in dirty THEN Starts(c, <<Frame("evaluated", c, {}, 0)>> \o then) /\ UNCHANGED queued
           ELSE stack' = then /\ NoTracking /\ UNCHANGED <<kind, data, deps, active, dirty, queued, view, excused>>

ComputedIsClean ==
    /\ Top("evaluated")
    /\ dirty' = dirty \ {Head(stack).effect}
    /\ stack' = Tail(stack)
    /\ NoTracking /\ UNCHANGED <<kind, data, deps, active, queued, view, excused>>

\* ... and track it.
ComputedIsRead ==
    /\ Top("value")
    /\ LET c == Head(stack).effect
       IN  Track({ValueDep(c)}) /\ Observes([read |-> "value", key |-> NoKey, result |-> view[c], of |-> c])
    /\ stack' = Tail(stack)
    /\ NoTracking /\ UNCHANGED <<kind, data, active, dirty, queued, excused>>

RunEnds ==
    /\ Runs
    /\ stack' = Tail(stack)
    /\ IF Top("run") THEN Reset ELSE NoTracking
    /\ UNCHANGED <<kind, data, deps, active, dirty, queued, view, excused>>

\* An effect may be stopped while it runs, by itself too, and goes on.
Stop(e) ==
    /\ e \in active \ Computed
    /\ stack = <<>> \/ MayStep
    /\ deps' = Cleanup(e) /\ active' = active \ {e}
    /\ excused' = IF e \in Running THEN excused \cup {e} ELSE excused \ {e}
    /\ stack' = IF stack = <<>> THEN stack ELSE Spent
    /\ NoTracking /\ UNCHANGED <<kind, data, dirty, queued, view>>

ClientWrites == stack = <<>> /\ Write(<<>>)

Init ==
    /\ kind \in Kinds
    /\ \E ks \in SUBSET Key : content \in [ks -> Value]
    /\ length = IF kind = "array" THEN Cardinality(DOMAIN content) ELSE 0
    /\ kind = "array" => DOMAIN content = 0..length - 1
    /\ \E es \in SUBSET Effect : Cardinality(es) <= MaxEffects /\ active = es
    /\ deps = {} /\ dirty = active \cap Computed /\ queued = active \ Computed
    /\ shouldTrack = TRUE /\ trackStack = <<>> /\ stack = <<>>
    /\ view = [e \in Effect |-> {}] /\ excused = {}

Next ==
    \/ ClientWrites \/ RunWrites \/ RunEnds
    \/ MethodSetsLength \/ MethodEnds
    \/ ComputedIsClean \/ ComputedIsRead
    \/ \E e \in Effect : TriggerRuns(e) \/ QueuedRuns(e) \/ Stop(e) \/ RunReadsComputed(e)
    \/ \E read \in Reads, k \in Key \cup {NoKey} : RunReads(read, k)

Spec == Init /\ [][Next]_vars

-----------------------------------------------------------------------------
\* What o saw is what it would see now.
Fresh(o) == IF o.of = None THEN o.result = Result(o.read, o.key)
            ELSE o.of \notin dirty /\ o.result = view[o.of]

\* The keys of an array whose length is what it was: deleting an element and filling the
\* hole leave the length, and trigger leaves such a read out.
MissedKeys(o) == o.read = "ownKeys" /\ kind = "array" /\ o.result[2] = length

\* No effect is left behind: when no code runs, whatever an active effect has read is
\* as it was, unless it is queued, is a computed ref that will be evaluated, or was
\* itself running when the data changed.
NoStaleEffect ==
    stack = <<>> =>
        \A e \in active \ (queued \cup dirty \cup excused) :
            \A o \in view[e] : Fresh(o) \/ MissedKeys(o)

\* An effect that is stopped is not tracked any more, and no write runs it again, unless
\* it was stopped while it ran: then what it still reads is tracked for good.
StoppedIsUntracked == \A p \in deps : p[2] \in active \cup excused

\* Tracking is as it was before, whatever ran in between.
TrackingRestored == stack = <<>> => shouldTrack /\ trackStack = <<>>
=============================================================================
