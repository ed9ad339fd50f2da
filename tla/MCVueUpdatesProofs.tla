------------------------- MODULE MCVueUpdatesProofs -------------------------
(***************************************************************************)
(* Proofs about the parts of MCVueUpdates, for any effects, keys, values   *)
(* and children.  The reactivity has an inductive invariant, from which it *)
(* follows that no effect is left behind by a write, however the calls of  *)
(* effects, triggers, getters and array methods are nested.  So has        *)
(* KeepAlive, whose cache, keys, instances and queued hooks belong         *)
(* together as long as every render finds the hooks of the last one run.   *)
(* And so have asynchronous components: some wrapper waits for every       *)
(* request that has no answer, so that every failure is forgotten.         *)
(***************************************************************************)
EXTENDS MCVueUpdates, FiniteSetTheorems, TLAPS

\* What the proofs use of the constants.
LEMMA Parameters ==
    /\ Kinds \subseteq {"object", "array", "map", "set"}
    /\ Plain \cap Queued = {} /\ Plain \cap Computed = {} /\ Queued \cap Computed = {}
    /\ Reactivity!None \notin Reactivity!Effect
    /\ MaxLen \in Nat
    /\ MCSteps \in [Reactivity!Effect -> Nat]
BY UpdatesAssumption DEF MCSteps, Reactivity!None, Reactivity!Effect

\* The instance counts as this module does.
LEMMA SameCardinality == \A S : Reactivity!Cardinality(S) = Cardinality(S)
BY DEF Reactivity!Cardinality, Cardinality

-----------------------------------------------------------------------------
(* The invariant of the reactivity.                                        *)


\* A call, by the function it is in; what it has still to run or to write.
Fns == {"run", "raw", "trigger", "evaluated", "value", "length", "unpause"}
Frames == [fn : Fns, effect : Reactivity!Effect \cup {Reactivity!None},
           todo : SUBSET Reactivity!Effect, left : Nat]

\* The effects that run, those that triggers have still to run, and those of the computed
\* refs that are evaluated; the calls that call i of the stack sits on.
RunningIn(s) == {s[i].effect : i \in {j \in DOMAIN s : s[j].fn = "run"}}
Pending(s) == UNION {s[i].todo : i \in {j \in DOMAIN s : s[j].fn = "trigger"}}
Evaluating(s) == {s[i].effect : i \in {j \in DOMAIN s : s[j].fn = "evaluated"}}
CallsBelow(s, i) == SubSeq(s, i + 1, Len(s))

\* A call sits on those that can have made it: an evaluation on the getter of its computed
\* ref, the run of a computed effect on its evaluation, a trigger on running effects that are
\* excused; no effect runs within itself.
On(f, s, fn) == s # <<>> /\ Head(s).fn = fn /\ Head(s).effect = f.effect
Sits(f, s, A, D, X) ==
    /\ f.fn = "run" =>
          /\ f.effect \in A \cup X
          /\ f.effect \in Computed => f.effect \in A \cap D /\ On(f, s, "evaluated")
    /\ f.fn = "evaluated" => f.effect \in Computed \cap A \cap D /\ On(f, s, "value")
    /\ f.fn = "value" => f.effect \in Computed \cap A
    /\ f.fn = "trigger" => RunningIn(s) \subseteq X
    /\ f.fn = "length" => f.left <= MaxLen
    /\ f.fn \in {"run", "evaluated", "value"} => f.effect \notin RunningIn(s)
    /\ s # <<>> /\ Head(s).fn = "evaluated" => f.fn = "run" /\ f.effect = Head(s).effect
    /\ s # <<>> /\ Head(s).fn = "value" => f.fn = "evaluated"

\* All calls are in their places; a getter whose evaluation is over has a clean ref.
Shape(s, A, D, X) == \A i \in DOMAIN s : Sits(s[i], CallsBelow(s, i), A, D, X)
TopValue(s, D) == s # <<>> /\ Head(s).fn = "value" => Head(s).effect \notin D

\* The calls that restore shouldTrack go with what is saved of it, height by height; in the
\* end tracking is on again.
Saves == {"run", "length", "unpause"}
Saved(f) == IF f.fn \in Saves THEN 1 ELSE 0
Balanced(s, n) ==
    \E d \in [0..Len(s) -> Nat] :
        d[0] = n /\ d[Len(s)] = 0 /\ \A i \in 1..Len(s) : d[i - 1] = d[i] + Saved(s[i])
TracksInTheEnd(t, b) == IF t = <<>> THEN b ELSE t[Len(t)]

\* An observation is of the data or of a computed ref.
IsObservation(o) ==
    /\ o.of = Reactivity!None => /\ o.read \in Reactivity!Reads
                                 /\ o.key \in Reactivity!Key \cup {Reactivity!NoKey}
                                 /\ o.read \in Reactivity!Keyed <=> o.key # Reactivity!NoKey
    /\ o.of # Reactivity!None => o.of \in Computed /\ o.read = "value"

ReactType ==
    /\ kind \in Kinds
    /\ DOMAIN content \subseteq Reactivity!Key
    /\ length \in Nat /\ length <= MaxLen
    /\ kind = "array" => DOMAIN content \subseteq 0..length - 1
    /\ active \subseteq Reactivity!Effect /\ excused \subseteq Reactivity!Effect
    /\ dirty \subseteq Computed /\ queued \subseteq Reactivity!Effect \ Computed
    /\ \A p \in deps : p = <<p[1], p[2]>> /\ p[2] \in active \cup excused
    /\ shouldTrack \in BOOLEAN /\ trackStack \in Seq(BOOLEAN)
    /\ calls \in Seq(Frames)
    /\ view = [e \in Reactivity!Effect |-> view[e]]
    /\ \A e \in Reactivity!Effect : \A o \in view[e] : IsObservation(o)

Calls ==
    /\ Shape(calls, active, dirty, excused) /\ TopValue(calls, dirty)
    /\ Balanced(calls, Len(trackStack)) /\ TracksInTheEnd(trackStack, shouldTrack)

\* The deps under which a read is tracked whatever is written later, and those under which it
\* is tracked now: a search has read the elements there are.
SureDeps(o) ==
    IF o.of # Reactivity!None THEN {Reactivity!ValueDep(o.of)}
    ELSE IF o.read = "includes" THEN {Reactivity!LengthDep} ELSE Reactivity!Deps(o.read, o.key)
AllDeps(o) ==
    SureDeps(o) \cup (IF o.read = "includes" THEN Reactivity!IndexDeps(0, length - 1) ELSE {})

\* Nothing is to come that would run e again.
Current(e) ==
    /\ e \in active /\ e \notin queued /\ e \notin excused
    /\ e \notin Pending(calls)
    /\ e \in dirty => e \in Evaluating(calls)

\* What an active effect has seen is tracked, and a current one has seen what still is.
Tracked == \A e \in active : \A o \in view[e] : \A d \in SureDeps(o) : <<d, e>> \in deps
Seen == \A e \in active : Current(e) =>
    \A o \in view[e] : /\ Reactivity!Fresh(o) \/ Reactivity!MissedKeys(o)
                       /\ \A d \in AllDeps(o) : <<d, e>> \in deps

ReactInv == ReactType /\ Calls /\ Tracked /\ Seen

\* A set of naturals that is not empty has a least element.
LEMMA Least == ASSUME NEW T, T \subseteq Nat, T # {} PROVE \E x \in T : \A y \in T : x <= y
<1> DEFINE F == {0..x : x \in T}
<1>1. F \subseteq FiniteSubsetsOf(Nat) /\ F # {}
  <2>1. \A x \in T : IsFiniteSet(0..x)
      BY FS_Interval
  <2>2. \A x \in T : 0..x \in SUBSET Nat
      OBVIOUS
  <2>3. QED
      BY <2>1, <2>2 DEF FiniteSubsetsOf
<1>2. PICK I \in F : \A J \in F : <<J, I>> \notin StrictSubsetOrdering(Nat)
    BY <1>1, WFMin, FS_StrictSubsetOrderingWellFounded
<1>3. PICK x \in T : I = 0..x
    BY <1>2
<1>4. ASSUME NEW y \in T PROVE x <= y
  <2>1. <<0..y, 0..x>> \notin StrictSubsetOrdering(Nat)
      BY <1>2, <1>3
  <2>2. ~(0..y \subseteq 0..x /\ 0..y # 0..x)
      BY <2>1 DEF StrictSubsetOrdering
  <2>3. CASE y < x
    <3>1. 0..y \subseteq 0..x
        BY <2>3
    <3>2. x \in 0..x /\ x \notin 0..y
        BY <2>3
    <3>3. QED
        BY <2>2, <3>1, <3>2
  <2>4. QED
      BY <2>3
<1>5. QED
    BY <1>4

\* A sequence with one element more in front.
LEMMA PushSeq ==
    ASSUME NEW S, NEW s \in Seq(S), NEW f \in S
    PROVE  /\ <<f>> \o s \in Seq(S) /\ <<f>> \o s # <<>>
           /\ Len(<<f>> \o s) = Len(s) + 1
           /\ Head(<<f>> \o s) = f /\ Tail(<<f>> \o s) = s
           /\ (<<f>> \o s)[1] = f /\ \A i \in 1..Len(s) : (<<f>> \o s)[i + 1] = s[i]
           /\ DOMAIN (<<f>> \o s) = 1..Len(s) + 1 /\ DOMAIN s = 1..Len(s)
OBVIOUS

\* A sequence that is not empty is its head and its tail.
LEMMA PopSeq ==
    ASSUME NEW S, NEW s \in Seq(S), s # <<>>
    PROVE  Head(s) \in S /\ Tail(s) \in Seq(S) /\ s = <<Head(s)>> \o Tail(s)
OBVIOUS

\* What runs, what a trigger has still to run and what is evaluated, with one call more.
LEMMA PushSets ==
    ASSUME NEW s \in Seq(Frames), NEW f \in Frames
    PROVE  /\ RunningIn(<<f>> \o s) = RunningIn(s) \cup (IF f.fn = "run" THEN {f.effect} ELSE {})
           /\ Pending(<<f>> \o s) = Pending(s) \cup (IF f.fn = "trigger" THEN f.todo ELSE {})
           /\ Evaluating(<<f>> \o s) =
                  Evaluating(s) \cup (IF f.fn = "evaluated" THEN {f.effect} ELSE {})
<1> DEFINE t == <<f>> \o s
<1>1. /\ DOMAIN t = 1..Len(s) + 1 /\ DOMAIN s = 1..Len(s) /\ Len(s) \in Nat
      /\ t[1] = f /\ \A i \in 1..Len(s) : t[i + 1] = s[i]
    BY PushSeq
<1> HIDE DEF t
<1>2. \A j \in DOMAIN t : t[j] = f \/ \E i \in DOMAIN s : t[j] = s[i]
  <2>1. \A j \in DOMAIN t : j = 1 \/ (j - 1 \in 1..Len(s) /\ j = (j - 1) + 1)
      BY <1>1
  <2>2. QED
      BY <1>1, <2>1
<1>3. /\ \E j \in DOMAIN t : t[j] = f
      /\ \A i \in DOMAIN s : \E j \in DOMAIN t : t[j] = s[i]
  <2>1. 1 \in DOMAIN t /\ \A i \in DOMAIN s : i + 1 \in DOMAIN t
      BY <1>1
  <2>2. QED
      BY <1>1, <2>1
<1>4. RunningIn(t) = RunningIn(s) \cup (IF f.fn = "run" THEN {f.effect} ELSE {})
    BY <1>2, <1>3 DEF RunningIn
<1>5. Pending(t) = Pending(s) \cup (IF f.fn = "trigger" THEN f.todo ELSE {})
    BY <1>2, <1>3 DEF Pending
<1>6. Evaluating(t) = Evaluating(s) \cup (IF f.fn = "evaluated" THEN {f.effect} ELSE {})
    BY <1>2, <1>3 DEF Evaluating
<1>7. QED
    BY <1>4, <1>5, <1>6 DEF t

\* A call more is in its place when it sits on the calls below.
LEMMA PushShape ==
    ASSUME NEW s \in Seq(Frames), NEW f \in Frames, NEW A, NEW D, NEW X
    PROVE  Shape(<<f>> \o s, A, D, X) <=> Sits(f, s, A, D, X) /\ Shape(s, A, D, X)
<1> DEFINE t == <<f>> \o s
<1>1. /\ DOMAIN t = 1..Len(s) + 1 /\ DOMAIN s = 1..Len(s) /\ Len(s) \in Nat
      /\ t \in Seq(Frames) /\ Len(t) = Len(s) + 1
      /\ t[1] = f /\ \A i \in 1..Len(s) : t[i + 1] = s[i]
    BY PushSeq
<1> HIDE DEF t
<1>2. CallsBelow(t, 1) = s
    BY <1>1 DEF CallsBelow
<1>3. \A i \in 1..Len(s) : CallsBelow(t, i + 1) = CallsBelow(s, i)
    BY <1>1 DEF CallsBelow
<1>4. ASSUME Shape(t, A, D, X) PROVE Sits(f, s, A, D, X) /\ Shape(s, A, D, X)
  <2>1. Sits(f, s, A, D, X)
      BY <1>1, <1>2, <1>4 DEF Shape
  <2>2. \A i \in DOMAIN s : Sits(t[i + 1], CallsBelow(t, i + 1), A, D, X)
      BY <1>1, <1>4 DEF Shape
  <2>3. QED
      BY <1>1, <1>3, <2>1, <2>2 DEF Shape
<1>5. ASSUME Sits(f, s, A, D, X), Shape(s, A, D, X) PROVE Shape(t, A, D, X)
  <2>1. \A i \in DOMAIN s : Sits(t[i + 1], CallsBelow(t, i + 1), A, D, X)
      BY <1>1, <1>3, <1>5 DEF Shape
  <2>2. \A j \in DOMAIN t : j = 1 \/ (j - 1 \in DOMAIN s /\ j = (j - 1) + 1)
      BY <1>1
  <2>3. \A j \in DOMAIN t : Sits(t[j], CallsBelow(t, j), A, D, X)
      BY <1>1, <1>2, <1>5, <2>1, <2>2
  <2>4. QED
      BY <2>3 DEF Shape
<1>6. QED
    BY <1>4, <1>5 DEF t

\* A call that saves the tracking goes with one saved value more.
LEMMA PushBalanced ==
    ASSUME NEW s \in Seq(Frames), NEW f \in Frames, NEW n \in Nat, Balanced(s, n)
    PROVE  Balanced(<<f>> \o s, n + Saved(f))
<1> DEFINE t == <<f>> \o s
<1>1. /\ Len(s) \in Nat /\ Len(t) = Len(s) + 1
      /\ t[1] = f /\ \A i \in 1..Len(s) : t[i + 1] = s[i]
    BY PushSeq
<1> HIDE DEF t
<1>2. PICK d \in [0..Len(s) -> Nat] :
          d[0] = n /\ d[Len(s)] = 0 /\ \A i \in 1..Len(s) : d[i - 1] = d[i] + Saved(s[i])
    BY DEF Balanced
<1> DEFINE e == [i \in 0..Len(t) |-> IF i = 0 THEN n + Saved(f) ELSE d[i - 1]]
<1>3. Saved(f) \in Nat
    BY DEF Saved
<1>4. e \in [0..Len(t) -> Nat] /\ e[0] = n + Saved(f) /\ e[Len(t)] = 0
    BY <1>1, <1>2, <1>3
<1>5. \A i \in 1..Len(t) : e[i - 1] = e[i] + Saved(t[i])
  <2> TAKE i \in 1..Len(t)
  <2>1. CASE i = 1
      BY <1>1, <1>2, <2>1
  <2>2. CASE i # 1
    <3>1. i - 1 \in 1..Len(s) /\ t[i] = s[i - 1]
        BY <1>1, <2>2
    <3>2. e[i - 1] = d[(i - 1) - 1] /\ e[i] = d[i - 1]
        BY <1>1, <2>2
    <3>3. QED
        BY <1>2, <3>1, <3>2
  <2>3. QED
      BY <2>1, <2>2
<1>6. QED
    BY <1>4, <1>5 DEF Balanced, t

\* ... and when it ends, with one less.
LEMMA PopBalanced ==
    ASSUME NEW s \in Seq(Frames), NEW f \in Frames, NEW n \in Nat, Balanced(<<f>> \o s, n)
    PROVE  n - Saved(f) \in Nat /\ Balanced(s, n - Saved(f))
<1> DEFINE t == <<f>> \o s
<1>1. /\ Len(s) \in Nat /\ Len(t) = Len(s) + 1
      /\ t[1] = f /\ \A i \in 1..Len(s) : t[i + 1] = s[i]
    BY PushSeq
<1>2. Balanced(t, n)
    OBVIOUS
<1> HIDE DEF t
<1>3. PICK d \in [0..Len(t) -> Nat] :
          d[0] = n /\ d[Len(t)] = 0 /\ \A i \in 1..Len(t) : d[i - 1] = d[i] + Saved(t[i])
    BY <1>2 DEF Balanced
<1> DEFINE e == [i \in 0..Len(s) |-> d[i + 1]]
<1>4. Saved(f) \in Nat
    BY DEF Saved
<1>5. d[0] = d[1] + Saved(f) /\ d[1] \in Nat
    BY <1>1, <1>3
<1>6. e \in [0..Len(s) -> Nat] /\ e[0] = n - Saved(f) /\ e[Len(s)] = 0
    BY <1>1, <1>3, <1>4, <1>5
<1>7. \A i \in 1..Len(s) : e[i - 1] = e[i] + Saved(s[i])
  <2> TAKE i \in 1..Len(s)
  <2>1. i + 1 \in 1..Len(t) /\ (i + 1) - 1 = i /\ t[i + 1] = s[i]
      BY <1>1
  <2>2. d[i] = d[i + 1] + Saved(s[i])
      BY <1>3, <2>1
  <2>3. e[i - 1] = d[i] /\ e[i] = d[i + 1]
      BY <1>1
  <2>4. QED
      BY <2>2, <2>3
<1>8. Balanced(s, n - Saved(f))
    BY <1>6, <1>7 DEF Balanced
<1>9. n - Saved(f) \in Nat
    BY <1>3, <1>4, <1>5
<1>10. QED
    BY <1>8, <1>9

\* When no call is under way nothing is saved.
LEMMA NothingSaved == ASSUME NEW n, Balanced(<<>>, n) PROVE n = 0
BY DEF Balanced

-----------------------------------------------------------------------------
\* The keys of an array, which may change under the same length.
ArrayKeys(o) == kind = "array" /\ o.read = "ownKeys"

\* A write that triggers ds changes no result but of reads that are tracked under ds.
Covers(ds) ==
    \A o : IsObservation(o) /\ o.of = Reactivity!None /\ AllDeps(o) \cap ds = {} =>
        /\ (ArrayKeys(o) /\ length' = length) \/ Reactivity!Result(o.read, o.key)' = Reactivity!Result(o.read, o.key)
        /\ o.read = "includes" => length' = length

\* What an observation can be of, by the kind of the data.
LEMMA ReadsOf ==
    ASSUME ReactType, NEW o, IsObservation(o), o.of = Reactivity!None
    PROVE  /\ o.key \in Nat
           /\ \/ o.read \in {"get", "has"} /\ o.key \in Reactivity!Key /\ AllDeps(o) = {Reactivity!KeyDep(o.key)}
              \/ kind = "array" /\ o.read = "length" /\ AllDeps(o) = {Reactivity!LengthDep}
              \/ kind = "array" /\ o.read = "ownKeys" /\ AllDeps(o) = {Reactivity!LengthDep}
              \/ /\ kind = "array" /\ o.read = "includes"
                 /\ AllDeps(o) = {Reactivity!LengthDep} \cup Reactivity!IndexDeps(0, length - 1)
              \/ kind = "object" /\ o.read = "ownKeys" /\ AllDeps(o) = {Reactivity!IterateDep}
              \/ kind = "map" /\ o.read = "keys" /\ AllDeps(o) = {Reactivity!MapKeyDep}
              \/ kind \in {"map", "set"} /\ o.read \in {"size", "forEach"} /\ AllDeps(o) = {Reactivity!IterateDep}
<1>1. kind \in {"object", "array", "map", "set"}
    BY Parameters DEF ReactType
<1>2. o.key \in Nat /\ (o.key # Reactivity!NoKey => o.key \in Reactivity!Key)
    BY Parameters DEF IsObservation, Reactivity!Key, Reactivity!NoKey
<1>3. o.read \in Reactivity!Reads /\ (o.read \in Reactivity!Keyed <=> o.key # Reactivity!NoKey)
    BY DEF IsObservation
<1>4. o.read \in Reactivity!Keyed => SureDeps(o) = {Reactivity!KeyDep(o.key)} /\ AllDeps(o) = SureDeps(o)
    BY DEF AllDeps, SureDeps, Reactivity!Deps, Reactivity!Keyed
<1>5. o.read = "includes" => AllDeps(o) = {Reactivity!LengthDep} \cup Reactivity!IndexDeps(0, length - 1)
    BY DEF AllDeps, SureDeps
<1>6. o.read \notin Reactivity!Keyed /\ o.read # "includes" => AllDeps(o) = Reactivity!Deps(o.read, o.key)
    BY DEF AllDeps, SureDeps
<1>7. o.read \notin Reactivity!Keyed /\ o.read # "includes" =>
          Reactivity!Deps(o.read, o.key) = IF o.read \in {"length", "ownKeys"} /\ kind = "array" THEN {Reactivity!LengthDep}
                                ELSE {Reactivity!IterateKey(o.read)}
    BY DEF Reactivity!Deps
<1>8. CASE kind = "object"
  <2>1. o.read \in {"get", "has", "ownKeys"}
      BY <1>3, <1>8 DEF Reactivity!Reads
  <2>2. CASE o.read \in Reactivity!Keyed
      BY <1>2, <1>3, <1>4, <2>2 DEF Reactivity!Keyed
  <2>3. CASE o.read = "ownKeys"
      BY <1>2, <1>6, <1>7, <1>8, <2>3 DEF Reactivity!Keyed, Reactivity!IterateKey
  <2>4. QED
      BY <2>1, <2>2, <2>3 DEF Reactivity!Keyed
<1>9. CASE kind = "array"
  <2>1. o.read \in {"get", "has", "length", "ownKeys", "includes"}
      BY <1>3, <1>9 DEF Reactivity!Reads
  <2>2. CASE o.read \in Reactivity!Keyed
      BY <1>2, <1>3, <1>4, <2>2 DEF Reactivity!Keyed
  <2>3. CASE o.read = "length"
      BY <1>2, <1>6, <1>7, <1>9, <2>3 DEF Reactivity!Keyed
  <2>4. CASE o.read = "ownKeys"
      BY <1>2, <1>6, <1>7, <1>9, <2>4 DEF Reactivity!Keyed
  <2>5. CASE o.read = "includes"
      BY <1>2, <1>5, <1>9, <2>5 DEF Reactivity!Keyed
  <2>6. QED
      BY <2>1, <2>2, <2>3, <2>4, <2>5 DEF Reactivity!Keyed
<1>10. CASE kind = "map"
  <2>1. o.read \in {"get", "has", "size", "forEach", "keys"}
      BY <1>3, <1>10 DEF Reactivity!Reads
  <2>2. CASE o.read \in Reactivity!Keyed
      BY <1>2, <1>3, <1>4, <2>2 DEF Reactivity!Keyed
  <2>3. CASE o.read = "size"
      BY <1>2, <1>6, <1>7, <1>10, <2>3 DEF Reactivity!Keyed, Reactivity!IterateKey
  <2>4. CASE o.read = "forEach"
      BY <1>2, <1>6, <1>7, <1>10, <2>4 DEF Reactivity!Keyed, Reactivity!IterateKey
  <2>5. CASE o.read = "keys"
      BY <1>2, <1>6, <1>7, <1>10, <2>5 DEF Reactivity!Keyed, Reactivity!IterateKey
  <2>6. QED
      BY <2>1, <2>2, <2>3, <2>4, <2>5 DEF Reactivity!Keyed
<1>11. CASE kind = "set"
  <2>1. o.read \in {"has", "size", "forEach"}
      BY <1>3, <1>11 DEF Reactivity!Reads
  <2>2. CASE o.read \in Reactivity!Keyed
      BY <1>2, <1>3, <1>4, <2>2 DEF Reactivity!Keyed
  <2>3. CASE o.read = "size"
      BY <1>2, <1>6, <1>7, <1>11, <2>3 DEF Reactivity!Keyed, Reactivity!IterateKey
  <2>4. CASE o.read = "forEach"
      BY <1>2, <1>6, <1>7, <1>11, <2>4 DEF Reactivity!Keyed, Reactivity!IterateKey
  <2>5. QED
      BY <2>1, <2>2, <2>3, <2>4 DEF Reactivity!Keyed
<1>12. QED
    BY <1>1, <1>8, <1>9, <1>10, <1>11

\* Deps of different sorts, or of different keys, are different.
LEMMA DepsDiffer ==
    /\ \A i, j : Reactivity!KeyDep(i) = Reactivity!KeyDep(j) => i = j
    /\ \A i, from, to : Reactivity!KeyDep(i) \in Reactivity!IndexDeps(from, to) <=> i \in from..to
    /\ \A i : Reactivity!KeyDep(i) \notin {Reactivity!LengthDep, Reactivity!IterateDep,
                                           Reactivity!MapKeyDep}
    /\ Reactivity!LengthDep # Reactivity!IterateDep
    /\ Reactivity!LengthDep # Reactivity!MapKeyDep
    /\ Reactivity!IterateDep # Reactivity!MapKeyDep
    /\ \A c, d : Reactivity!ValueDep(c) = Reactivity!ValueDep(d) => c = d
<1>1. \A i, j : Reactivity!KeyDep(i) = Reactivity!KeyDep(j) => i = j
    BY DEF Reactivity!KeyDep
<1>2. \A i, from, to : Reactivity!KeyDep(i) \in Reactivity!IndexDeps(from, to) <=> i \in from..to
    BY <1>1 DEF Reactivity!IndexDeps
<1>3. \A i : Reactivity!KeyDep(i) \notin {Reactivity!LengthDep, Reactivity!IterateDep,
                                          Reactivity!MapKeyDep}
    BY DEF Reactivity!KeyDep, Reactivity!LengthDep, Reactivity!IterateDep,
           Reactivity!MapKeyDep
<1>4. /\ Reactivity!LengthDep # Reactivity!IterateDep
      /\ Reactivity!LengthDep # Reactivity!MapKeyDep
      /\ Reactivity!IterateDep # Reactivity!MapKeyDep
    BY DEF Reactivity!LengthDep, Reactivity!IterateDep, Reactivity!MapKeyDep
<1>5. \A c, d : Reactivity!ValueDep(c) = Reactivity!ValueDep(d) => c = d
    BY DEF Reactivity!ValueDep
<1>6. QED
    BY <1>1, <1>2, <1>3, <1>4, <1>5

\* The deps of a write of a key cover the reads whose result it changes,
LEMMA SetKeyCovers ==
    ASSUME ReactType, NEW k \in Reactivity!Key, NEW v,
           NEW had, had = IF kind = "array" THEN k < length ELSE k \in DOMAIN content,
           kind = "set" => ~had,
           kind' = kind, content' = Reactivity!With(k, v),
           length' = IF kind = "array" /\ k >= length THEN k + 1 ELSE length
    PROVE  Covers(IF had THEN Reactivity!OnSet(k) ELSE Reactivity!OnAdd(k))
<1> DEFINE ds == IF had THEN Reactivity!OnSet(k) ELSE Reactivity!OnAdd(k)
<1> SUFFICES ASSUME NEW o, IsObservation(o), o.of = Reactivity!None, AllDeps(o) \cap ds = {}
             PROVE  /\ (ArrayKeys(o) /\ length' = length) \/ Reactivity!Result(o.read, o.key)' = Reactivity!Result(o.read, o.key)
                    /\ o.read = "includes" => length' = length
    BY DEF Covers
<1>1. /\ DOMAIN content' = DOMAIN content \cup {k}
      /\ \A i \in DOMAIN content : i # k => content'[i] = content[i]
    BY DEF Reactivity!With
<1>2. /\ k \in Nat /\ length \in Nat /\ Reactivity!KeyDep(k) \in ds
      /\ kind = "map" => Reactivity!IterateDep \in ds
      /\ ~had => IF kind = "array" THEN Reactivity!LengthDep \in ds ELSE Reactivity!IterateDep \in ds
      /\ ~had /\ kind = "map" => Reactivity!MapKeyDep \in ds
    BY Parameters DEF Reactivity!OnSet, Reactivity!OnAdd, Reactivity!Key, ReactType
<1>3. had = TRUE \/ had = FALSE
    OBVIOUS
<1>4. CASE o.read \in {"get", "has"} /\ o.key \in Reactivity!Key /\ AllDeps(o) = {Reactivity!KeyDep(o.key)}
  <2>1. o.key # k
      BY <1>2, <1>4
  <2>2. o.key \in DOMAIN content' <=> o.key \in DOMAIN content
      BY <1>1, <2>1
  <2>3. CASE o.read = "get"
      BY <1>1, <2>1, <2>2, <2>3 DEF Reactivity!Result
  <2>4. CASE o.read = "has"
      BY <2>2, <2>4 DEF Reactivity!Result
  <2>5. QED
      BY <1>4, <2>3, <2>4
<1>5. CASE kind = "array" /\ o.read = "length" /\ AllDeps(o) = {Reactivity!LengthDep}
  <2>1. had
      BY <1>2, <1>3, <1>5
  <2>2. k < length
      BY <1>5, <2>1
  <2>3. length' = length
      BY <1>2, <2>2
  <2>4. QED
      BY <1>5, <2>3 DEF Reactivity!Result
<1>6. CASE kind = "array" /\ o.read = "ownKeys" /\ AllDeps(o) = {Reactivity!LengthDep}
  <2>1. had
      BY <1>2, <1>3, <1>6
  <2>2. k < length
      BY <1>6, <2>1
  <2>3. length' = length
      BY <1>2, <2>2
  <2>4. QED
      BY <1>6, <2>3 DEF ArrayKeys
<1>7. CASE /\ kind = "array" /\ o.read = "includes"
           /\ AllDeps(o) = {Reactivity!LengthDep} \cup Reactivity!IndexDeps(0, length - 1)
  <2>1. had
      BY <1>2, <1>3, <1>7
  <2>2. k \in 0..length - 1
    <3>1. k < length
        BY <1>7, <2>1
    <3>2. QED
        BY <1>2, <3>1
  <2>3. QED
      BY <1>2, <1>7, <2>2, DepsDiffer
<1>8. CASE kind = "object" /\ o.read = "ownKeys" /\ AllDeps(o) = {Reactivity!IterateDep}
  <2>1. k \in DOMAIN content
      BY <1>2, <1>3, <1>8
  <2>2. DOMAIN content' = DOMAIN content
      BY <1>1, <2>1
  <2>3. QED
      BY <1>8, <2>2 DEF Reactivity!Result
<1>9. CASE kind = "map" /\ o.read = "keys" /\ AllDeps(o) = {Reactivity!MapKeyDep}
  <2>1. k \in DOMAIN content
      BY <1>2, <1>3, <1>9
  <2>2. DOMAIN content' = DOMAIN content
      BY <1>1, <2>1
  <2>3. QED
      BY <1>9, <2>2 DEF Reactivity!Result
<1>10. CASE kind \in {"map", "set"} /\ o.read \in {"size", "forEach"} /\ AllDeps(o) = {Reactivity!IterateDep}
    BY <1>2, <1>3, <1>10
<1>11. QED
    BY <1>4, <1>5, <1>6, <1>7, <1>8, <1>9, <1>10, ReadsOf

\* what is left without some keys,
LEMMA WithoutIs ==
    ASSUME NEW ks, content' = Reactivity!Without(ks)
    PROVE  /\ DOMAIN content' = DOMAIN content \ ks
           /\ \A i \in DOMAIN content' : content'[i] = content[i]
BY DEF Reactivity!Without, Reactivity!Restrict

\* the deps of a deletion,
LEMMA DeleteKeyCovers ==
    ASSUME ReactType, NEW k \in DOMAIN content,
           kind' = kind, content' = Reactivity!Without({k}), length' = length
    PROVE  Covers(Reactivity!OnDelete(k))
<1> DEFINE ds == Reactivity!OnDelete(k)
<1> SUFFICES ASSUME NEW o, IsObservation(o), o.of = Reactivity!None, AllDeps(o) \cap ds = {}
             PROVE  /\ (ArrayKeys(o) /\ length' = length) \/ Reactivity!Result(o.read, o.key)' = Reactivity!Result(o.read, o.key)
                    /\ o.read = "includes" => length' = length
    BY DEF Covers
<1>1. /\ DOMAIN content' = DOMAIN content \ {k}
      /\ \A i \in DOMAIN content' : content'[i] = content[i]
    BY WithoutIs
<1>2. /\ k \in Nat /\ length \in Nat /\ Reactivity!KeyDep(k) \in ds
      /\ kind = "array" => k \in 0..length - 1
      /\ kind # "array" => Reactivity!IterateDep \in ds
      /\ kind = "map" => Reactivity!MapKeyDep \in ds
    BY Parameters DEF Reactivity!OnDelete, Reactivity!Key, ReactType
<1>4. CASE o.read \in {"get", "has"} /\ o.key \in Reactivity!Key /\ AllDeps(o) = {Reactivity!KeyDep(o.key)}
  <2>1. o.key # k
      BY <1>2, <1>4
  <2>2. o.key \in DOMAIN content' <=> o.key \in DOMAIN content
      BY <1>1, <2>1
  <2>3. CASE o.read = "get"
      BY <1>1, <2>1, <2>2, <2>3 DEF Reactivity!Result
  <2>4. CASE o.read = "has"
      BY <2>2, <2>4 DEF Reactivity!Result
  <2>5. QED
      BY <1>4, <2>3, <2>4
<1>5. CASE kind = "array" /\ o.read = "length" /\ AllDeps(o) = {Reactivity!LengthDep}
    BY <1>5 DEF Reactivity!Result
<1>6. CASE kind = "array" /\ o.read = "ownKeys"
    BY <1>6 DEF ArrayKeys
<1>7. CASE /\ kind = "array" /\ o.read = "includes"
           /\ AllDeps(o) = {Reactivity!LengthDep} \cup Reactivity!IndexDeps(0, length - 1)
    BY <1>2, <1>7, DepsDiffer
<1>8. CASE /\ kind # "array" /\ AllDeps(o) \in {{Reactivity!IterateDep}, {Reactivity!MapKeyDep}}
           /\ kind = "map" \/ AllDeps(o) = {Reactivity!IterateDep}
    BY <1>2, <1>8
<1>9. QED
    BY <1>4, <1>5, <1>6, <1>7, <1>8, ReadsOf

\* those of a new length of an array,
LEMMA SetLengthCovers ==
    ASSUME ReactType, NEW n \in 0..MaxLen, kind = "array",
           kind' = kind, content' = Reactivity!Without(n..MaxLen), length' = n
    PROVE  Covers(Reactivity!OnLength(n))
<1> DEFINE ds == Reactivity!OnLength(n)
<1> SUFFICES ASSUME NEW o, IsObservation(o), o.of = Reactivity!None, AllDeps(o) \cap ds = {}
             PROVE  /\ (ArrayKeys(o) /\ length' = length) \/ Reactivity!Result(o.read, o.key)' = Reactivity!Result(o.read, o.key)
                    /\ o.read = "includes" => length' = length
    BY DEF Covers
<1>1. /\ DOMAIN content' = DOMAIN content \ (n..MaxLen)
      /\ \A i \in DOMAIN content' : content'[i] = content[i]
    BY WithoutIs
<1>2. /\ Reactivity!LengthDep \in ds /\ MaxLen \in Nat /\ n \in Nat
      /\ \A i \in n..MaxLen - 1 : Reactivity!KeyDep(i) \in ds
    BY DepsDiffer, Parameters DEF Reactivity!OnLength
<1>4. CASE o.read \in {"get", "has"} /\ o.key \in Reactivity!Key /\ AllDeps(o) = {Reactivity!KeyDep(o.key)}
  <2>1. o.key \notin n..MaxLen
      BY <1>2, <1>4 DEF Reactivity!Key
  <2>2. o.key \in DOMAIN content' <=> o.key \in DOMAIN content
      BY <1>1, <2>1
  <2>3. CASE o.read = "get"
      BY <1>1, <2>1, <2>2, <2>3 DEF Reactivity!Result
  <2>4. CASE o.read = "has"
      BY <2>2, <2>4 DEF Reactivity!Result
  <2>5. QED
      BY <1>4, <2>3, <2>4
<1>7. CASE Reactivity!LengthDep \in AllDeps(o)
    BY <1>2, <1>7
<1>9. QED
    BY <1>4, <1>7, ReadsOf

\* and those of clear.
LEMMA ClearCovers ==
    ASSUME ReactType, kind \in {"map", "set"},
           kind' = kind, content' = Reactivity!Without(Reactivity!Key), length' = length
    PROVE  Covers(Reactivity!OnClear)
<1> DEFINE ds == Reactivity!OnClear
<1> SUFFICES ASSUME NEW o, IsObservation(o), o.of = Reactivity!None, AllDeps(o) \cap ds = {}
             PROVE  /\ (ArrayKeys(o) /\ length' = length) \/ Reactivity!Result(o.read, o.key)' = Reactivity!Result(o.read, o.key)
                    /\ o.read = "includes" => length' = length
    BY DEF Covers
<1>1. /\ Reactivity!IterateDep \in ds /\ Reactivity!MapKeyDep \in ds
      /\ \A i \in Reactivity!Key : Reactivity!KeyDep(i) \in ds
    BY DepsDiffer DEF Reactivity!OnClear, Reactivity!Key
<1>2. QED
    BY <1>1, ReadsOf

-----------------------------------------------------------------------------
\* The active effect is one that runs.
LEMMA ActiveRuns ==
    ASSUME calls \in Seq(Frames)
    PROVE  /\ Reactivity!Running = RunningIn(calls)
           /\ Reactivity!ActiveEffect = Reactivity!None \/ Reactivity!ActiveEffect \in Reactivity!Running
<1> DEFINE T == {i \in DOMAIN calls : calls[i].fn = "run"}
<1>1. Reactivity!Running = RunningIn(calls)
    BY DEF Reactivity!Running, RunningIn
<1>2. CASE T = {}
  <2>1. ~\E i \in DOMAIN calls : calls[i].fn = "run"
      BY <1>2
  <2>2. QED
      BY <1>1, <2>1 DEF Reactivity!ActiveEffect
<1>3. CASE T # {}
  <2>1. T \subseteq Nat /\ DOMAIN calls = 1..Len(calls)
      OBVIOUS
  <2>2. PICK i \in T : \A j \in T : i <= j
      BY <1>3, <2>1, Least
  <2>3. /\ i \in DOMAIN calls /\ calls[i].fn = "run"
        /\ \A j \in 1..i - 1 : calls[j].fn # "run"
      BY <2>1, <2>2
  <2>4. Reactivity!ActiveEffect \in Reactivity!Running
    <3> DEFINE First(j) == /\ calls[j].fn = "run" /\ \A m \in 1..j - 1 : calls[m].fn # "run"
    <3>1. \E j \in DOMAIN calls : First(j)
        BY <2>3
    <3>2. PICK j \in DOMAIN calls : First(j) /\ j = CHOOSE m \in DOMAIN calls : First(m)
        BY <3>1
    <3>3. Reactivity!ActiveEffect = calls[j].effect
        BY <2>3, <3>2 DEF Reactivity!ActiveEffect
    <3>4. QED
        BY <3>2, <3>3 DEF Reactivity!Running
  <2>5. QED
      BY <1>1, <2>4
<1>4. QED
    BY <1>1, <1>2, <1>3

\* The frames of what is under way are those before a step, except for its innermost.
Resumes(r) ==
    /\ r \in Seq(Frames) /\ Shape(r, active, dirty, excused)
    /\ r = <<>> \/ Head(r).fn \notin {"evaluated", "value"}
    /\ RunningIn(r) = RunningIn(calls)
    /\ Pending(r) = Pending(calls)
    /\ Evaluating(r) = Evaluating(calls)

\* Calls stay in their place when more effects are active, dirty or excused.
LEMMA ShapeGrows ==
    ASSUME NEW s \in Seq(Frames), NEW A, NEW D, NEW X, NEW E, NEW Y,
           Shape(s, A, D, X), D \subseteq E, X \subseteq Y
    PROVE  Shape(s, A, E, Y)
BY DEF Shape, Sits

\* The innermost call and those below.
LEMMA TopOfStack ==
    ASSUME ReactType, Calls, calls # <<>>
    PROVE  LET f == Head(calls)
               s == Tail(calls)
           IN  /\ f \in Frames /\ s \in Seq(Frames) /\ calls = <<f>> \o s
               /\ Sits(f, s, active, dirty, excused) /\ Shape(s, active, dirty, excused)
               /\ RunningIn(calls) = RunningIn(s) \cup (IF f.fn = "run" THEN {f.effect} ELSE {})
               /\ Pending(calls) = Pending(s) \cup (IF f.fn = "trigger" THEN f.todo ELSE {})
               /\ Evaluating(calls) =
                      Evaluating(s) \cup (IF f.fn = "evaluated" THEN {f.effect} ELSE {})
               /\ f.fn # "run" /\ f.fn # "evaluated" =>
                      s = <<>> \/ Head(s).fn \notin {"evaluated", "value"}
<1> DEFINE f == Head(calls)
           s == Tail(calls)
<1>1. f \in Frames /\ s \in Seq(Frames) /\ calls = <<f>> \o s
    BY PopSeq DEF ReactType
<1>2. Sits(f, s, active, dirty, excused) /\ Shape(s, active, dirty, excused)
    BY <1>1, PushShape DEF Calls
<1>3. f.fn # "run" /\ f.fn # "evaluated" =>
          s = <<>> \/ Head(s).fn \notin {"evaluated", "value"}
    BY <1>2 DEF Sits
<1> HIDE DEF f, s
<1>4. /\ RunningIn(calls) = RunningIn(s) \cup (IF f.fn = "run" THEN {f.effect} ELSE {})
      /\ Pending(calls) = Pending(s) \cup (IF f.fn = "trigger" THEN f.todo ELSE {})
      /\ Evaluating(calls) = Evaluating(s) \cup (IF f.fn = "evaluated" THEN {f.effect} ELSE {})
    BY <1>1, PushSets
<1>5. QED
    BY <1>1, <1>2, <1>3, <1>4 DEF f, s

\* A frame of the code that is not an effect, on top of what goes on.
LEMMA ResumesUnder ==
    ASSUME NEW r, Resumes(r), NEW f \in Frames, f.fn \in {"unpause", "length", "raw"},
           f.fn = "length" => f.left <= MaxLen
    PROVE  Resumes(<<f>> \o r)
<1>1. r \in Seq(Frames) /\ Shape(r, active, dirty, excused)
    BY DEF Resumes
<1>2. r = <<>> \/ Head(r).fn \notin {"evaluated", "value"}
    BY DEF Resumes
<1>3. Sits(f, r, active, dirty, excused)
    BY <1>2 DEF Sits
<1>4. <<f>> \o r \in Seq(Frames) /\ Shape(<<f>> \o r, active, dirty, excused)
    BY <1>1, <1>3, PushShape, PushSeq
<1>5. Head(<<f>> \o r) = f
    BY <1>1, PushSeq
<1>6. /\ RunningIn(<<f>> \o r) = RunningIn(r) /\ Pending(<<f>> \o r) = Pending(r)
      /\ Evaluating(<<f>> \o r) = Evaluating(r)
    BY <1>1, PushSets
<1>7. QED
    BY <1>4, <1>5, <1>6 DEF Resumes

\* The frame of a run that may go on, with one step less.
LEMMA ResumesSpent ==
    ASSUME ReactType, Calls, Reactivity!MayStep
    PROVE  Resumes(Reactivity!Spent) /\ Reactivity!Spent # <<>>
           /\ Saved(Head(Reactivity!Spent)) = Saved(Head(calls))
           /\ Tail(Reactivity!Spent) = Tail(calls)
<1> DEFINE f == Head(calls)
           s == Tail(calls)
           g == [f EXCEPT !.left = @ - 1]
<1>1. calls # <<>> /\ f.fn \in {"run", "raw"} /\ f.left > 0
    BY DEF Reactivity!MayStep, Reactivity!Runs, Reactivity!Top
<1>2. /\ f \in Frames /\ s \in Seq(Frames) /\ calls = <<f>> \o s
      /\ Sits(f, s, active, dirty, excused) /\ Shape(s, active, dirty, excused)
      /\ RunningIn(calls) = RunningIn(s) \cup (IF f.fn = "run" THEN {f.effect} ELSE {})
      /\ Pending(calls) = Pending(s) \cup (IF f.fn = "trigger" THEN f.todo ELSE {})
      /\ Evaluating(calls) = Evaluating(s) \cup (IF f.fn = "evaluated" THEN {f.effect} ELSE {})
    BY <1>1, TopOfStack
<1>3. Reactivity!Spent = <<g>> \o s
    BY DEF Reactivity!Spent
<1>4. g \in Frames /\ g.fn = f.fn /\ g.effect = f.effect
  <2>1. f.left \in Nat
      BY <1>2 DEF Frames
  <2>2. f.left - 1 \in Nat
      BY <1>1, <2>1
  <2>3. QED
      BY <1>2, <2>2 DEF Frames
<1> HIDE DEF f, s, g
<1>5. Sits(g, s, active, dirty, excused)
    BY <1>1, <1>2, <1>4 DEF Sits, On
<1>6. /\ Reactivity!Spent \in Seq(Frames) /\ Shape(Reactivity!Spent, active, dirty, excused)
      /\ Head(Reactivity!Spent) = g
      /\ Reactivity!Spent # <<>> /\ Tail(Reactivity!Spent) = s
    BY <1>2, <1>3, <1>4, <1>5, PushShape, PushSeq
<1>7. /\ RunningIn(Reactivity!Spent) = RunningIn(calls)
      /\ Pending(Reactivity!Spent) = Pending(calls)
      /\ Evaluating(Reactivity!Spent) = Evaluating(calls)
    BY <1>1, <1>2, <1>3, <1>4, PushSets
<1>8. QED
    BY <1>1, <1>4, <1>6, <1>7 DEF Resumes, Saved, f, s

\* What a method of arrays leaves behind when it goes on.
LEMMA ResumesTail ==
    ASSUME ReactType, Calls, calls # <<>>,
           Head(calls).fn \in {"unpause", "length", "raw"}
    PROVE  Resumes(Tail(calls))
BY TopOfStack DEF Resumes

\* No call is under way.
LEMMA ResumesNothing ==
    ASSUME ReactType, Calls, calls = <<>> PROVE Resumes(<<>>)
BY DEF ReactType, Calls, Resumes

-----------------------------------------------------------------------------
\* The call that runs the effects of ds, on top of what goes on.
LEMMA TriggerOver ==
    ASSUME NEW r \in Seq(Frames), NEW ds, NEW A, NEW D, NEW X,
           Shape(r, A, D, X), r = <<>> \/ Head(r).fn \notin {"evaluated", "value"},
           RunningIn(r) \subseteq X
    PROVE  LET t == Reactivity!Trigger(ds) \o r
           IN  /\ t \in Seq(Frames) /\ Shape(t, A, D, X)
               /\ t = <<>> \/ Head(t).fn \notin {"evaluated", "value"}
               /\ RunningIn(t) = RunningIn(r) /\ Evaluating(t) = Evaluating(r)
               /\ Pending(t) = Pending(r) \cup Reactivity!Collect(ds)
               /\ \A n \in Nat : Balanced(r, n) => Balanced(t, n)
<1> DEFINE f == Reactivity!Frame("trigger", Reactivity!None, Reactivity!Collect(ds), 0)
           t == Reactivity!Trigger(ds) \o r
<1>1. CASE Reactivity!Collect(ds) = {}
  <2>1. t = r
      BY <1>1 DEF Reactivity!Trigger
  <2>2. QED
      BY <1>1, <2>1
<1>2. CASE Reactivity!Collect(ds) # {}
  <2>1. t = <<f>> \o r
      BY <1>2 DEF Reactivity!Trigger
  <2>2. f \in Frames
    <3>1. Reactivity!Collect(ds) \in SUBSET Reactivity!Effect
        BY DEF Reactivity!Collect
    <3>2. QED
        BY <3>1 DEF Reactivity!Frame, Frames, Fns
  <2>3. f.fn = "trigger" /\ f.todo = Reactivity!Collect(ds)
      BY DEF Reactivity!Frame
  <2> HIDE DEF f, t
  <2>4. Sits(f, r, A, D, X)
      BY <2>3 DEF Sits
  <2>5. t \in Seq(Frames) /\ Shape(t, A, D, X) /\ Head(t) = f
      BY <2>1, <2>2, <2>4, PushShape, PushSeq
  <2>6. /\ RunningIn(t) = RunningIn(r) /\ Evaluating(t) = Evaluating(r)
        /\ Pending(t) = Pending(r) \cup Reactivity!Collect(ds)
      BY <2>1, <2>2, <2>3, PushSets
  <2>7. \A n \in Nat : Balanced(r, n) => Balanced(t, n)
    <3>1. Saved(f) = 0
        BY <2>3 DEF Saved, Saves
    <3>2. \A n \in Nat : Balanced(r, n) => Balanced(<<f>> \o r, n + Saved(f))
        BY <2>2, PushBalanced
    <3>3. QED
        BY <2>1, <3>1, <3>2
  <2>8. QED
      BY <2>3, <2>5, <2>6, <2>7 DEF t
<1>3. QED
    BY <1>1, <1>2

\* The parts of the invariant but for the tracking's own stack.
Views ==
    /\ ReactType
    /\ Shape(calls, active, dirty, excused) /\ TopValue(calls, dirty)
    /\ Tracked /\ Seen

\* A write triggers every effect whose reads it changes.
LEMMA WritesKeep ==
    ASSUME ReactInv, NEW ds, NEW c, NEW l, NEW r,
           Resumes(r), Reactivity!Writes(ds, c, l, r), Covers(ds),
           DOMAIN c \subseteq Reactivity!Key, l \in Nat, l <= MaxLen,
           kind = "array" => DOMAIN c \subseteq 0..l - 1,
           shouldTrack' \in BOOLEAN, trackStack' \in Seq(BOOLEAN)
    PROVE  Views' /\ \A n \in Nat : Balanced(r, n) => Balanced(calls', n)
<1> DEFINE t == Reactivity!Trigger(ds) \o r
<1>1. /\ content' = c /\ length' = l /\ calls' = t /\ excused' = excused \cup Reactivity!Running
      /\ kind' = kind /\ deps' = deps /\ active' = active /\ dirty' = dirty
      /\ queued' = queued /\ view' = view
    BY DEF Reactivity!Writes
<1>2. /\ Reactivity!Running = RunningIn(calls)
      /\ (Reactivity!ActiveEffect = Reactivity!None \/ Reactivity!ActiveEffect \in Reactivity!Running)
    BY ActiveRuns DEF ReactInv, ReactType
<1>3. r \in Seq(Frames) /\ Shape(r, active, dirty, excused')
    BY <1>1, ShapeGrows DEF Resumes
<1>4. r = <<>> \/ Head(r).fn \notin {"evaluated", "value"}
    BY DEF Resumes
<1>5. RunningIn(r) \subseteq excused'
    BY <1>1, <1>2 DEF Resumes
<1>6. /\ t \in Seq(Frames) /\ Shape(t, active, dirty, excused')
      /\ t = <<>> \/ Head(t).fn \notin {"evaluated", "value"}
      /\ RunningIn(t) = RunningIn(calls) /\ Evaluating(t) = Evaluating(calls)
      /\ Pending(t) = Pending(calls) \cup Reactivity!Collect(ds)
      /\ \A n \in Nat : Balanced(r, n) => Balanced(t, n)
    BY <1>3, <1>4, <1>5, TriggerOver DEF Resumes
<1> HIDE DEF t
<1>7. Shape(calls, active, dirty, excused)' /\ TopValue(calls, dirty)'
  <2>1. Shape(calls, active, dirty, excused)'
    <3>1. Shape(calls', active', dirty', excused')
        BY <1>1, <1>6
    <3>2. QED
        BY <3>1
  <2>2. QED
      BY <1>1, <1>6, <2>1 DEF TopValue
<1>8. ReactType'
  <2>1. Reactivity!Running \subseteq Reactivity!Effect
      BY <1>2 DEF ReactInv, Calls, Shape, Sits, RunningIn, ReactType
  <2>2. \A o : IsObservation(o)' <=> IsObservation(o)
      BY <1>1 DEF IsObservation, Reactivity!Reads
  <2>3. QED
      BY <1>1, <1>6, <2>1, <2>2 DEF ReactInv, ReactType
<1>9. \A o : SureDeps(o)' = SureDeps(o)
    BY <1>1 DEF SureDeps, Reactivity!Deps, Reactivity!IterateKey
<1>10. Tracked'
    BY <1>1, <1>9 DEF ReactInv, Tracked
<1>11. ASSUME NEW e \in active, Current(e)', NEW o \in view[e]
       PROVE  /\ Reactivity!Fresh(o)' \/ Reactivity!MissedKeys(o)'
              /\ \A d \in AllDeps(o)' : <<d, e>> \in deps
  <2>1. Current(e) /\ e \notin Reactivity!Running /\ e \notin Reactivity!Collect(ds)
      BY <1>1, <1>2, <1>6, <1>11 DEF Current
  <2>2. /\ Reactivity!Fresh(o) \/ Reactivity!MissedKeys(o)
        /\ \A d \in AllDeps(o) : <<d, e>> \in deps
      BY <2>1, <1>11 DEF ReactInv, Seen
  <2>3. e \in Reactivity!Effect /\ e # Reactivity!ActiveEffect /\ IsObservation(o)
      BY <1>2, <2>1, Parameters DEF ReactInv, ReactType
  <2>4. AllDeps(o) \cap ds = {}
      BY <2>1, <2>2, <2>3 DEF Reactivity!Collect
  <2>6. CASE o.of = Reactivity!None
    <3>1. /\ (ArrayKeys(o) /\ length' = length) \/ Reactivity!Result(o.read, o.key)' = Reactivity!Result(o.read, o.key)
          /\ o.read = "includes" => length' = length
        BY <2>3, <2>4, <2>6 DEF Covers
    <3>2. Reactivity!Fresh(o)' \/ Reactivity!MissedKeys(o)'
      <4>1. CASE ArrayKeys(o) /\ length' = length
        <5>1. Reactivity!Result(o.read, o.key) = <<DOMAIN content, length>>
            BY <4>1 DEF ArrayKeys, Reactivity!Result
        <5>2. o.result[2] = length
            BY <2>2, <2>6, <5>1 DEF Reactivity!Fresh, Reactivity!MissedKeys
        <5>3. QED
            BY <1>1, <4>1, <5>2 DEF ArrayKeys, Reactivity!MissedKeys
      <4>2. CASE /\ ~(ArrayKeys(o) /\ length' = length)
                 /\ Reactivity!Result(o.read, o.key)' = Reactivity!Result(o.read, o.key)
        <5>1. CASE Reactivity!Fresh(o)
            BY <2>6, <4>2, <5>1 DEF Reactivity!Fresh
        <5>2. CASE ArrayKeys(o) /\ Reactivity!Result(o.read, o.key)' = Reactivity!Result(o.read, o.key)
          <6>1. /\ Reactivity!Result(o.read, o.key) = <<DOMAIN content, length>>
                /\ Reactivity!Result(o.read, o.key)' = <<DOMAIN content', length'>>
              BY <1>1, <5>2 DEF ArrayKeys, Reactivity!Result
          <6>2. QED
              BY <4>2, <5>2, <6>1
        <5>3. QED
            BY <2>2, <4>2, <5>1, <5>2 DEF ArrayKeys, Reactivity!MissedKeys
      <4>3. QED
          BY <3>1, <4>1, <4>2
    <3>3. AllDeps(o)' = AllDeps(o)
        BY <1>9, <3>1 DEF AllDeps
    <3>4. QED
        BY <2>2, <3>2, <3>3
  <2>7. CASE o.of # Reactivity!None
    <3>1. o.read = "value"
        BY <2>3, <2>7 DEF IsObservation
    <3>2. Reactivity!Fresh(o)
        BY <2>2, <3>1 DEF Reactivity!MissedKeys
    <3>3. Reactivity!Fresh(o)'
        BY <1>1, <2>7, <3>2 DEF Reactivity!Fresh
    <3>4. AllDeps(o)' = AllDeps(o)
        BY <1>9, <3>1 DEF AllDeps
    <3>5. QED
        BY <2>2, <3>3, <3>4
  <2>8. QED
      BY <2>6, <2>7
<1>12. Seen'
    BY <1>1, <1>11 DEF Seen
<1>13. QED
    BY <1>1, <1>6, <1>7, <1>8, <1>10, <1>12 DEF Views

-----------------------------------------------------------------------------
(* The writes.                                                             *)

\* A write of a key preserves the invariant,
LEMMA SetKeyKeeps ==
    ASSUME ReactInv, NEW k \in Reactivity!Key, NEW v, NEW r, Resumes(r),
           Reactivity!SetKey(k, v, r), shouldTrack' \in BOOLEAN, trackStack' \in Seq(BOOLEAN)
    PROVE  Views' /\ \A n \in Nat : Balanced(r, n) => Balanced(calls', n)
<1> DEFINE had == IF kind = "array" THEN k < length ELSE k \in DOMAIN content
           l == IF kind = "array" /\ k >= length THEN k + 1 ELSE length
           ds == IF had THEN Reactivity!OnSet(k) ELSE Reactivity!OnAdd(k)
<1>1. (kind = "set" => ~had) /\ Reactivity!Writes(ds, Reactivity!With(k, v), l, r)
    BY DEF Reactivity!SetKey
<1>2. content' = Reactivity!With(k, v) /\ length' = l /\ kind' = kind
    BY <1>1 DEF Reactivity!Writes
<1>3. ReactType
    BY DEF ReactInv
<1>4. Covers(ds)
  <2>1. had = (IF kind = "array" THEN k < length ELSE k \in DOMAIN content)
      OBVIOUS
  <2>2. length' = IF kind = "array" /\ k >= length THEN k + 1 ELSE length
      BY <1>2
  <2> HIDE DEF had, l
  <2>3. QED
      BY <1>1, <1>2, <1>3, <2>1, <2>2, SetKeyCovers
<1>5. DOMAIN Reactivity!With(k, v) = DOMAIN content \cup {k}
    BY DEF Reactivity!With
<1>6. k \in Nat /\ k < MaxLen /\ MaxLen \in Nat
    BY Parameters DEF Reactivity!Key
<1>7. l \in Nat /\ l <= MaxLen
    BY <1>3, <1>6 DEF ReactType
<1>8. DOMAIN Reactivity!With(k, v) \subseteq Reactivity!Key
    BY <1>3, <1>5 DEF ReactType
<1>9. kind = "array" => DOMAIN Reactivity!With(k, v) \subseteq 0..l - 1
    BY <1>3, <1>5, <1>6 DEF ReactType
<1> HIDE DEF had, l, ds
<1>10. QED
    BY <1>1, <1>4, <1>7, <1>8, <1>9, WritesKeep

\* a deletion,
LEMMA DeleteKeyKeeps ==
    ASSUME ReactInv, NEW k, NEW r, Resumes(r),
           Reactivity!DeleteKey(k, r), shouldTrack' \in BOOLEAN, trackStack' \in Seq(BOOLEAN)
    PROVE  Views' /\ \A n \in Nat : Balanced(r, n) => Balanced(calls', n)
<1>1. /\ k \in DOMAIN content
      /\ Reactivity!Writes(Reactivity!OnDelete(k), Reactivity!Without({k}), length, r)
    BY DEF Reactivity!DeleteKey
<1>2. content' = Reactivity!Without({k}) /\ length' = length /\ kind' = kind
    BY <1>1 DEF Reactivity!Writes
<1>3. ReactType
    BY DEF ReactInv
<1>4. Covers(Reactivity!OnDelete(k))
    BY <1>1, <1>2, <1>3, DeleteKeyCovers
<1>5. DOMAIN Reactivity!Without({k}) \subseteq DOMAIN content
    BY DEF Reactivity!Without, Reactivity!Restrict
<1>6. QED
    BY <1>1, <1>3, <1>4, <1>5, WritesKeep DEF ReactType

\* a new length,
LEMMA SetLengthKeeps ==
    ASSUME ReactInv, NEW n \in 0..MaxLen, NEW r, Resumes(r),
           Reactivity!SetLength(n, r), shouldTrack' \in BOOLEAN, trackStack' \in Seq(BOOLEAN)
    PROVE  Views' /\ \A m \in Nat : Balanced(r, m) => Balanced(calls', m)
<1>1. /\ kind = "array"
      /\ Reactivity!Writes(Reactivity!OnLength(n), Reactivity!Without(n..MaxLen), n, r)
    BY DEF Reactivity!SetLength
<1>2. content' = Reactivity!Without(n..MaxLen) /\ length' = n /\ kind' = kind
    BY <1>1 DEF Reactivity!Writes
<1>3. ReactType /\ MaxLen \in Nat
    BY Parameters DEF ReactInv
<1>4. Covers(Reactivity!OnLength(n))
    BY <1>1, <1>2, <1>3, SetLengthCovers
<1>5. DOMAIN Reactivity!Without(n..MaxLen) = DOMAIN content \ (n..MaxLen)
    BY DEF Reactivity!Without, Reactivity!Restrict
<1>6. DOMAIN content \ (n..MaxLen) \subseteq 0..n - 1
    BY <1>3 DEF ReactType, Reactivity!Key
<1>7. QED
    BY <1>1, <1>3, <1>4, <1>5, <1>6, WritesKeep DEF ReactType

\* and clear.
LEMMA ClearKeeps ==
    ASSUME ReactInv, NEW r, Resumes(r),
           Reactivity!Clear(r), shouldTrack' \in BOOLEAN, trackStack' \in Seq(BOOLEAN)
    PROVE  Views' /\ \A n \in Nat : Balanced(r, n) => Balanced(calls', n)
<1>1. /\ kind \in {"map", "set"}
      /\ Reactivity!Writes(Reactivity!OnClear, Reactivity!Without(Reactivity!Key), length, r)
    BY DEF Reactivity!Clear
<1>2. content' = Reactivity!Without(Reactivity!Key) /\ length' = length /\ kind' = kind
    BY <1>1 DEF Reactivity!Writes
<1>3. ReactType
    BY DEF ReactInv
<1>4. Covers(Reactivity!OnClear)
    BY <1>1, <1>2, <1>3, ClearCovers
<1>5. DOMAIN Reactivity!Without(Reactivity!Key) \subseteq DOMAIN content
    BY DEF Reactivity!Without, Reactivity!Restrict
<1>6. QED
    BY <1>1, <1>3, <1>4, <1>5, WritesKeep DEF ReactType

\* enableTracking, pauseTracking and resetTracking.
Tracking(s, t, b) == Balanced(s, Len(t)) /\ TracksInTheEnd(t, b)

\* The two halves of Tracking.
LEMMA Together ==
    ReactInv <=> Views /\ Tracking(calls, trackStack, shouldTrack)
BY DEF ReactInv, Views, Calls, Tracking

\* enableTracking and pauseTracking save the value, with a call that will restore it,
LEMMA SavesTracking ==
    ASSUME ReactType, NEW s \in Seq(Frames), NEW f \in Frames, f.fn \in Saves,
           Tracking(s, trackStack, shouldTrack), Reactivity!Enable \/ Reactivity!Pause
    PROVE  /\ shouldTrack' \in BOOLEAN /\ trackStack' \in Seq(BOOLEAN)
           /\ Tracking(<<f>> \o s, trackStack', shouldTrack')
<1>1. trackStack' = <<shouldTrack>> \o trackStack /\ shouldTrack' \in BOOLEAN
    BY DEF Reactivity!Enable, Reactivity!Pause
<1>2. trackStack \in Seq(BOOLEAN) /\ shouldTrack \in BOOLEAN
    BY DEF ReactType
<1>3. /\ trackStack' \in Seq(BOOLEAN) /\ Len(trackStack') = Len(trackStack) + 1
      /\ trackStack' # <<>>
    BY <1>1, <1>2, PushSeq
<1>4. trackStack'[Len(trackStack')] = IF trackStack = <<>> THEN shouldTrack ELSE trackStack[Len(trackStack)]
    BY <1>1, <1>2, <1>3
<1>5. TracksInTheEnd(trackStack', shouldTrack')
    BY <1>3, <1>4 DEF Tracking, TracksInTheEnd
<1>6. Balanced(<<f>> \o s, Len(trackStack'))
  <2>1. Saved(f) = 1 /\ Len(trackStack) \in Nat
      BY <1>2 DEF Saved
  <2>2. QED
      BY <1>3, <2>1, PushBalanced DEF Tracking
<1>7. QED
    BY <1>1, <1>3, <1>5, <1>6 DEF Tracking

\* resetTracking restores it when that call ends,
LEMMA ResetsTracking ==
    ASSUME ReactType, NEW s \in Seq(Frames), NEW f \in Frames, f.fn \in Saves,
           Tracking(<<f>> \o s, trackStack, shouldTrack), Reactivity!Reset
    PROVE  /\ shouldTrack' \in BOOLEAN /\ trackStack' \in Seq(BOOLEAN)
           /\ Tracking(s, trackStack', shouldTrack')
<1>1. trackStack \in Seq(BOOLEAN) /\ shouldTrack \in BOOLEAN
    BY DEF ReactType
<1>2. Saved(f) = 1 /\ Len(trackStack) \in Nat
    BY <1>1 DEF Saved
<1>3. Len(trackStack) - 1 \in Nat /\ Balanced(s, Len(trackStack) - 1)
    BY <1>2, PopBalanced DEF Tracking
<1>4. trackStack # <<>>
    BY <1>1, <1>3
<1>5. shouldTrack' = Head(trackStack) /\ trackStack' = Tail(trackStack)
    BY <1>4 DEF Reactivity!Reset
<1>6. /\ shouldTrack' \in BOOLEAN /\ trackStack' \in Seq(BOOLEAN)
      /\ Len(trackStack') = Len(trackStack) - 1
    BY <1>1, <1>4, <1>5
<1>7. TracksInTheEnd(trackStack', shouldTrack')
  <2>1. trackStack[Len(trackStack)]
      BY <1>4 DEF Tracking, TracksInTheEnd
  <2>2. CASE trackStack' = <<>>
    <3>1. Len(trackStack) = 1
        BY <1>2, <1>6, <2>2
    <3>2. QED
        BY <1>1, <1>5, <2>1, <2>2, <3>1 DEF TracksInTheEnd
  <2>3. CASE trackStack' # <<>>
    <3>1. trackStack'[Len(trackStack')] = trackStack[Len(trackStack)]
        BY <1>1, <1>4, <1>5, <1>6, <2>3
    <3>2. QED
        BY <2>1, <2>3, <3>1 DEF TracksInTheEnd
  <2>4. QED
      BY <2>2, <2>3
<1>8. QED
    BY <1>3, <1>6, <1>7 DEF Tracking

\* and the other calls leave it alone.
LEMMA OtherTracking ==
    ASSUME ReactType, NEW s \in Seq(Frames), NEW f \in Frames, f.fn \notin Saves
    PROVE  Tracking(<<f>> \o s, trackStack, shouldTrack) <=> Tracking(s, trackStack, shouldTrack)
<1>1. Len(trackStack) \in Nat
    BY DEF ReactType
<1>2. Saved(f) = 0
    BY DEF Saved
<1>3. QED
    BY <1>1, <1>2, PushBalanced, PopBalanced DEF Tracking

\* A frame in the place of another of the same sort changes nothing of it.
LEMMA SameTracking ==
    ASSUME ReactType, NEW s \in Seq(Frames), NEW f \in Frames, NEW g \in Frames,
           Saved(f) = Saved(g), Tracking(<<f>> \o s, trackStack, shouldTrack)
    PROVE  Tracking(<<g>> \o s, trackStack, shouldTrack)
<1>1. Len(trackStack) \in Nat /\ Saved(f) \in Nat
    BY DEF ReactType, Saved
<1>2. Len(trackStack) - Saved(f) \in Nat /\ Balanced(s, Len(trackStack) - Saved(f))
    BY <1>1, PopBalanced DEF Tracking
<1>3. Balanced(<<g>> \o s, Len(trackStack) - Saved(f) + Saved(g))
    BY <1>2, PushBalanced
<1>4. QED
    BY <1>1, <1>3 DEF Tracking

\* A step after which the calls r go on, and no effect has to be current that had not.
LEMMA ResumeKeeps ==
    ASSUME ReactInv, NEW r \in Seq(Frames), calls' = r,
           Shape(r, active, dirty, excused), TopValue(r, dirty),
           UNCHANGED <<kind, Reactivity!data, deps, active, dirty, view, excused>>,
           queued' \subseteq Reactivity!Effect \ Computed,
           \A x \in active : Current(x)' => Current(x),
           shouldTrack' \in BOOLEAN, trackStack' \in Seq(BOOLEAN),
           Tracking(r, trackStack', shouldTrack')
    PROVE  ReactInv'
<1>1. /\ kind' = kind /\ content' = content /\ length' = length /\ deps' = deps
      /\ active' = active /\ dirty' = dirty /\ view' = view
      /\ excused' = excused
    BY DEF Reactivity!data
<1>3. ReactType'
  <2>1. \A o : IsObservation(o)' <=> IsObservation(o)
      BY <1>1 DEF IsObservation, Reactivity!Reads
  <2>2. QED
      BY <1>1, <2>1 DEF ReactInv, ReactType
<1>4. Calls'
  <2>1. Shape(calls', active', dirty', excused') /\ TopValue(calls', dirty')
      BY <1>1
  <2>2. Balanced(calls', Len(trackStack')) /\ TracksInTheEnd(trackStack', shouldTrack')
      BY DEF Tracking
  <2>3. QED
      BY <2>1, <2>2 DEF Calls
<1>5. \A o : /\ SureDeps(o)' = SureDeps(o) /\ AllDeps(o)' = AllDeps(o)
             /\ Reactivity!Fresh(o)' = Reactivity!Fresh(o)
             /\ Reactivity!MissedKeys(o)' = Reactivity!MissedKeys(o)
    BY <1>1
       DEF SureDeps, AllDeps, Reactivity!Deps, Reactivity!IterateKey, Reactivity!Fresh,
           Reactivity!Result, Reactivity!MissedKeys
<1>7. Tracked' /\ Seen'
    BY <1>1, <1>5 DEF ReactInv, Tracked, Seen
<1>8. QED
    BY <1>3, <1>4, <1>7 DEF ReactInv

\* Nothing but the calls and the tracking has changed.
LEMMA CallsKeep ==
    ASSUME ReactInv, NEW r, Resumes(r), calls' = r,
           UNCHANGED <<kind, Reactivity!data, deps, active, dirty, queued, view, excused>>,
           shouldTrack' \in BOOLEAN, trackStack' \in Seq(BOOLEAN),
           Tracking(r, trackStack', shouldTrack')
    PROVE  ReactInv'
<1>1. r \in Seq(Frames) /\ Shape(r, active, dirty, excused) /\ TopValue(r, dirty)
    BY DEF Resumes, TopValue
<1>2. \A x \in active : Current(x)' => Current(x)
    BY DEF Resumes, Current
<1>3. queued' \subseteq Reactivity!Effect \ Computed
    BY DEF ReactInv, ReactType
<1>4. QED
    BY <1>1, <1>2, <1>3, ResumeKeeps

\* Code that writes while the calls r go on.
LEMMA WriteKeeps ==
    ASSUME ReactInv, NEW r, Resumes(r),
           Tracking(r, trackStack, shouldTrack), Reactivity!Write(r)
    PROVE  ReactInv'
<1>1. ReactType /\ shouldTrack \in BOOLEAN /\ trackStack \in Seq(BOOLEAN) /\ MaxLen \in Nat
    BY Parameters DEF ReactInv, ReactType
<1>2. r \in Seq(Frames)
    BY DEF Resumes
<1>3. CASE /\ \/ \E k \in Reactivity!Key : \/ \E v \in Value : Reactivity!SetKey(k, v, r)
                                           \/ Reactivity!DeleteKey(k, r)
              \/ \E n \in 0..MaxLen : Reactivity!SetLength(n, r)
              \/ Reactivity!Clear(r)
           /\ Reactivity!NoTracking
  <2>1. shouldTrack' = shouldTrack /\ trackStack' = trackStack
      BY <1>3 DEF Reactivity!NoTracking
  <2>2. Views' /\ \A n \in Nat : Balanced(r, n) => Balanced(calls', n)
      BY <1>1, <1>3, <2>1, SetKeyKeeps, DeleteKeyKeeps, SetLengthKeeps, ClearKeeps
  <2>3. Tracking(calls, trackStack, shouldTrack)'
      BY <1>1, <2>1, <2>2 DEF Tracking
  <2>4. QED
      BY <2>2, <2>3 DEF ReactInv, Views, Calls, Tracking
<1>4. CASE \E v \in Value : Reactivity!Push(v, r)
  <2> DEFINE f == Reactivity!Frame("length", Reactivity!None, {}, length + 1)
  <2>2. PICK v \in Value : Reactivity!Push(v, r)
      BY <1>4
  <2>3. /\ kind = "array" /\ length < MaxLen /\ Reactivity!SetKey(length, v, <<f>> \o r)
        /\ Reactivity!Pause
      BY <2>2 DEF Reactivity!Push
  <2>1. f \in Frames /\ f.fn = "length" /\ f.fn \in Saves /\ f.left <= MaxLen
    <3>1. length + 1 \in Nat /\ length + 1 <= MaxLen
        BY <1>1, <2>3, Parameters DEF ReactType
    <3>2. QED
        BY <3>1 DEF Reactivity!Frame, Frames, Fns, Saves
  <2> HIDE DEF f
  <2>4. Resumes(<<f>> \o r)
      BY <2>1, ResumesUnder
  <2>5. /\ shouldTrack' \in BOOLEAN /\ trackStack' \in Seq(BOOLEAN)
        /\ Tracking(<<f>> \o r, trackStack', shouldTrack')
      BY <1>1, <1>2, <2>1, <2>3, SavesTracking
  <2>6. length \in Reactivity!Key
      BY <1>1, <2>3 DEF ReactType, Reactivity!Key
  <2>7. Views' /\ \A n \in Nat : Balanced(<<f>> \o r, n) => Balanced(calls', n)
      BY <2>3, <2>4, <2>5, <2>6, SetKeyKeeps
  <2>8. Len(trackStack') \in Nat
      BY <2>5
  <2>9. Tracking(calls, trackStack, shouldTrack)'
      BY <2>5, <2>7, <2>8 DEF Tracking
  <2>10. QED
      BY <2>7, <2>9 DEF ReactInv, Views, Calls, Tracking
<1>5. CASE Reactivity!Pop(r)
  <2> DEFINE k == length - 1
             f == Reactivity!Frame("length", Reactivity!None, {}, k)
  <2>1. /\ kind = "array" /\ length > 0 /\ Reactivity!Pause
        /\ IF k \in DOMAIN content THEN Reactivity!DeleteKey(k, <<f>> \o r)
           ELSE /\ calls' = <<f>> \o r
                /\ UNCHANGED <<kind, Reactivity!data, deps, active, dirty, queued, view, excused>>
      BY <1>5 DEF Reactivity!Pop
  <2>2. k \in Nat /\ k <= MaxLen
      BY <1>1, <2>1 DEF ReactType
  <2>3. f \in Frames /\ f.fn = "length" /\ f.fn \in Saves /\ f.left <= MaxLen
      BY <2>2 DEF Reactivity!Frame, Frames, Fns, Saves
  <2> HIDE DEF f, k
  <2>4. Resumes(<<f>> \o r)
      BY <2>3, ResumesUnder
  <2>5. /\ shouldTrack' \in BOOLEAN /\ trackStack' \in Seq(BOOLEAN)
        /\ Tracking(<<f>> \o r, trackStack', shouldTrack')
      BY <1>1, <1>2, <2>1, <2>3, SavesTracking
  <2>6. CASE k \in DOMAIN content
    <3>1. Views' /\ \A n \in Nat : Balanced(<<f>> \o r, n) => Balanced(calls', n)
        BY <2>1, <2>4, <2>5, <2>6, DeleteKeyKeeps
    <3>2. Len(trackStack') \in Nat
        BY <2>5
    <3>3. Tracking(calls, trackStack, shouldTrack)'
        BY <2>5, <3>1, <3>2 DEF Tracking
    <3>4. QED
        BY <3>1, <3>3 DEF ReactInv, Views, Calls, Tracking
  <2>7. CASE k \notin DOMAIN content
      BY <2>1, <2>4, <2>5, <2>7, CallsKeep
  <2>8. QED
      BY <2>6, <2>7
<1>6. QED
    BY <1>3, <1>4, <1>5 DEF Reactivity!Write

-----------------------------------------------------------------------------
(* The other steps.                                                        *)

\* An effect that does not run need not be excused.
LEMMA ShapeShrinks ==
    ASSUME NEW s \in Seq(Frames), NEW A, NEW D, NEW X, NEW e,
           Shape(s, A, D, X), e \notin RunningIn(s)
    PROVE  Shape(s, A, D, X \ {e})
<1>1. \A i \in DOMAIN s : s[i].fn = "run" => s[i].effect # e
    BY DEF RunningIn
<1>2. \A i \in DOMAIN s : e \notin RunningIn(CallsBelow(s, i))
  <2> TAKE i \in DOMAIN s
  <2>1. \A j \in DOMAIN CallsBelow(s, i) : \E m \in DOMAIN s : CallsBelow(s, i)[j] = s[m]
    <3>1. \A j \in DOMAIN CallsBelow(s, i) : i + j \in DOMAIN s /\ CallsBelow(s, i)[j] = s[i + j]
        BY DEF CallsBelow
    <3>2. QED
        BY <3>1
  <2>2. QED
      BY <1>1, <2>1 DEF RunningIn
<1>3. QED
    BY <1>1, <1>2 DEF Shape, Sits

\* An effect that is stopped may go on as one of those that are excused.
LEMMA ShapeStops ==
    ASSUME NEW s \in Seq(Frames), NEW A, NEW D, NEW X, NEW e,
           Shape(s, A, D, X), e \notin Computed
    PROVE  Shape(s, A \ {e}, D, X \cup {e})
BY DEF Shape, Sits

\* Above a computed ref that is evaluated there is its run.
LEMMA EvaluatingRuns ==
    ASSUME NEW s \in Seq(Frames), NEW A, NEW D, NEW X, NEW c, Shape(s, A, D, X),
           c \in Evaluating(s), Head(s).fn = "evaluated" => Head(s).effect # c
    PROVE  c \in RunningIn(s)
<1>1. PICK i \in DOMAIN s : s[i].fn = "evaluated" /\ s[i].effect = c
    BY DEF Evaluating
<1>2. DOMAIN s = 1..Len(s) /\ Len(s) \in Nat /\ Head(s) = s[1]
    BY <1>1
<1>3. i # 1
    BY <1>1, <1>2
<1>4. i - 1 \in DOMAIN s /\ CallsBelow(s, i - 1) # <<>> /\ Head(CallsBelow(s, i - 1)) = s[i]
    BY <1>1, <1>2, <1>3 DEF CallsBelow
<1>5. s[i - 1].fn = "run" /\ s[i - 1].effect = c
    BY <1>1, <1>4 DEF Shape, Sits
<1>6. QED
    BY <1>4, <1>5 DEF RunningIn

\* A computed ref whose evaluation has just ended may become clean.
LEMMA ShapeCleans ==
    ASSUME NEW s \in Seq(Frames), NEW A, NEW D, NEW X, NEW c, Shape(s, A, D, X),
           c \notin RunningIn(s), c \notin Evaluating(s)
    PROVE  Shape(s, A, D \ {c}, X)
<1>1. \A i \in DOMAIN s : s[i].fn \in {"run", "evaluated"} => s[i].effect # c
    BY DEF RunningIn, Evaluating
<1>2. QED
    BY <1>1 DEF Shape, Sits

\* Only active effects run, and those that were stopped meanwhile.
LEMMA RunningIsActive ==
    ASSUME ReactInv
    PROVE  /\ RunningIn(calls) \subseteq active \cup excused
           /\ RunningIn(calls) \cap Computed \subseteq dirty
BY DEF ReactInv, Calls, Shape, Sits, RunningIn

\* An active effect begins to run, on top of the calls r.
LEMMA RunBegins ==
    ASSUME ReactInv, NEW e \in active, e \notin Reactivity!Running,
           NEW r \in Seq(Frames), Shape(r, active, dirty, excused),
           RunningIn(r) = Reactivity!Running,
           Evaluating(r) \subseteq Evaluating(calls) \cup {e},
           Pending(calls) \subseteq Pending(r) \cup {e},
           e \in Computed => /\ e \in dirty /\ r # <<>>
                             /\ Head(r).fn = "evaluated" /\ Head(r).effect = e,
           e \notin Computed => r = <<>> \/ Head(r).fn \notin {"evaluated", "value"},
           deps' = Reactivity!Cleanup(e), view' = [view EXCEPT ![e] = {}],
           excused' = excused \ {e},
           calls' = <<Reactivity!Frame("run", e, {}, MCSteps[e])>> \o r, Reactivity!Enable,
           UNCHANGED <<kind, Reactivity!data, active, dirty>>,
           queued' \subseteq queued, queued \subseteq queued' \cup {e},
           Tracking(r, trackStack, shouldTrack)
    PROVE  ReactInv'
<1> DEFINE f == Reactivity!Frame("run", e, {}, MCSteps[e])
<1>1. /\ kind' = kind /\ content' = content /\ length' = length
      /\ active' = active /\ dirty' = dirty
    BY DEF Reactivity!data
<1>2. e \in Reactivity!Effect /\ ReactType
    BY DEF ReactInv, ReactType
<1>3. f \in Frames /\ f.fn = "run" /\ f.effect = e
  <2>1. MCSteps[e] \in Nat
      BY <1>2, Parameters
  <2>2. QED
      BY <1>2, <2>1 DEF Reactivity!Frame, Frames, Fns
<1>4. Sits(f, r, active, dirty, excused \ {e})
    BY <1>3 DEF Sits, On
<1> HIDE DEF f
<1>5. Shape(r, active, dirty, excused \ {e})
    BY ShapeShrinks
<1>6. calls' \in Seq(Frames) /\ Shape(calls', active, dirty, excused \ {e}) /\ Head(calls') = f
    BY <1>3, <1>4, <1>5, PushShape, PushSeq DEF f
<1>7. Pending(calls') = Pending(r) /\ Evaluating(calls') = Evaluating(r)
    BY <1>3, PushSets DEF f
<1>8. /\ shouldTrack' \in BOOLEAN /\ trackStack' \in Seq(BOOLEAN)
      /\ Tracking(calls', trackStack', shouldTrack')
  <2>1. f.fn \in Saves
      BY <1>3 DEF Saves
  <2>2. calls' = <<f>> \o r
      BY DEF f
  <2>3. QED
      BY <1>2, <1>3, <2>1, <2>2, SavesTracking
<1>9. \A x \in Reactivity!Effect : x # e => view'[x] = view[x]
    BY <1>2 DEF ReactType
<1>10. view'[e] = {}
    BY <1>2 DEF ReactType
<1>11. ReactType'
  <2>1. \A o : IsObservation(o)' <=> IsObservation(o)
      BY <1>1 DEF IsObservation, Reactivity!Reads
  <2>2. \A p \in deps' : p \in deps
      BY DEF Reactivity!Cleanup
  <2>3. view' = [x \in Reactivity!Effect |-> view'[x]]
      BY <1>2 DEF ReactType
  <2>4. \A x \in Reactivity!Effect : \A o \in view'[x] : IsObservation(o)'
      BY <1>2, <1>9, <1>10, <2>1 DEF ReactType
  <2>5. QED
      BY <1>1, <1>2, <1>6, <1>8, <2>2, <2>3, <2>4 DEF ReactType
<1>12. Calls'
  <2>1. TopValue(calls', dirty')
      BY <1>3, <1>6 DEF TopValue
  <2>2. QED
      BY <1>1, <1>6, <1>8, <2>1 DEF Calls, Tracking
<1>13. \A o : /\ SureDeps(o)' = SureDeps(o) /\ AllDeps(o)' = AllDeps(o)
              /\ Reactivity!MissedKeys(o)' = Reactivity!MissedKeys(o)
    BY <1>1
       DEF SureDeps, AllDeps, Reactivity!Deps, Reactivity!IterateKey, Reactivity!MissedKeys
<1>14. \A x, d : x # e /\ <<d, x>> \in deps => <<d, x>> \in deps'
    BY DEF Reactivity!Cleanup
<1>15. \A x \in active : x # e => x \in Reactivity!Effect
    BY <1>2 DEF ReactType
<1>16. Tracked'
    BY <1>1, <1>9, <1>10, <1>13, <1>14, <1>15 DEF ReactInv, Tracked
<1>17. ASSUME NEW x \in active, Current(x)', NEW o \in view'[x]
       PROVE  /\ Reactivity!Fresh(o)' \/ Reactivity!MissedKeys(o)'
              /\ \A d \in AllDeps(o)' : <<d, x>> \in deps'
  <2>1. x # e /\ o \in view[x] /\ x \in Reactivity!Effect
      BY <1>9, <1>10, <1>15, <1>17
  <2>2. Current(x)
      BY <1>1, <1>7, <1>17, <2>1 DEF Current
  <2>3. /\ Reactivity!Fresh(o) \/ Reactivity!MissedKeys(o)
        /\ \A d \in AllDeps(o) : <<d, x>> \in deps
      BY <2>1, <2>2 DEF ReactInv, Seen
  <2>4. IsObservation(o)
      BY <1>2, <2>1 DEF ReactType
  <2>5. Reactivity!Fresh(o) => Reactivity!Fresh(o)'
    <3>1. CASE o.of = Reactivity!None
        BY <1>1, <3>1 DEF Reactivity!Fresh, Reactivity!Result
    <3>2. CASE o.of # Reactivity!None
      <4>1. o.of \in Computed /\ o.of \in Reactivity!Effect
          BY <2>4, <3>2 DEF IsObservation, Reactivity!Effect
      <4>2. Reactivity!Fresh(o) => o.of # e
          BY <3>2, <4>1 DEF Reactivity!Fresh
      <4>3. QED
          BY <1>1, <1>9, <3>2, <4>1, <4>2 DEF Reactivity!Fresh
    <3>3. QED
        BY <3>1, <3>2
  <2>6. QED
      BY <1>13, <1>14, <2>1, <2>3, <2>5
<1>18. Seen'
    BY <1>1, <1>17 DEF Seen
<1>19. QED
    BY <1>11, <1>12, <1>16, <1>18 DEF ReactInv

\* What the innermost active effect sees is tracked, and is what there is to see.
LEMMA ObservesKeeps ==
    ASSUME ReactInv, NEW r, Resumes(r), calls' = r, NEW ds, NEW o,
           Reactivity!Track(ds), Reactivity!Observes(o), IsObservation(o), Reactivity!Fresh(o),
           o.of # Reactivity!ActiveEffect \/ o.of = Reactivity!None,
           SureDeps(o) \subseteq ds, AllDeps(o) \subseteq ds,
           Reactivity!NoTracking,
           UNCHANGED <<kind, Reactivity!data, active, dirty, queued, excused>>,
           Tracking(r, trackStack, shouldTrack)
    PROVE  ReactInv'
<1> DEFINE a == Reactivity!ActiveEffect
<1>1. /\ kind' = kind /\ content' = content /\ length' = length
      /\ active' = active /\ dirty' = dirty /\ queued' = queued /\ excused' = excused
      /\ shouldTrack' = shouldTrack /\ trackStack' = trackStack
    BY DEF Reactivity!data, Reactivity!NoTracking
<1>2. ReactType
    BY DEF ReactInv
<1>3. CASE ~Reactivity!Tracks
  <2>1. deps' = deps /\ view' = view
      BY <1>3 DEF Reactivity!Track, Reactivity!Observes
  <2>2. QED
      BY <1>1, <1>2, <2>1, CallsKeep DEF ReactType, Reactivity!data
<1>4. CASE Reactivity!Tracks
  <2>1. /\ deps' = deps \cup (ds \X {a}) /\ view' = [view EXCEPT ![a] = @ \cup {o}]
        /\ a # Reactivity!None
      BY <1>4 DEF Reactivity!Track, Reactivity!Observes, Reactivity!Tracks
  <2>2. a \in RunningIn(calls)
      BY <1>2, <2>1, ActiveRuns DEF ReactType
  <2>3. /\ a \in active \cup excused /\ a \in Reactivity!Effect
        /\ a \in Computed => a \in dirty
      BY <1>2, <2>2, RunningIsActive DEF ReactType
  <2> HIDE DEF a
  <2>4. \A x \in Reactivity!Effect : view'[x] = IF x = a THEN view[x] \cup {o} ELSE view[x]
      BY <1>2, <2>1, <2>3 DEF ReactType
  <2>5. /\ r \in Seq(Frames) /\ Shape(r, active, dirty, excused) /\ TopValue(r, dirty)
        /\ Pending(r) = Pending(calls) /\ Evaluating(r) = Evaluating(calls)
      BY DEF Resumes, TopValue
  <2>6. ReactType'
    <3>1. \A x : IsObservation(x)' <=> IsObservation(x)
        BY <1>1 DEF IsObservation, Reactivity!Reads
    <3>2. \A p \in deps' : p = <<p[1], p[2]>> /\ p[2] \in active \cup excused
        BY <1>2, <2>1, <2>3 DEF ReactType
    <3>3. view' = [x \in Reactivity!Effect |-> view'[x]]
        BY <1>2, <2>1 DEF ReactType
    <3>4. \A x \in Reactivity!Effect : \A y \in view'[x] : IsObservation(y)'
        BY <1>2, <2>4, <3>1 DEF ReactType
    <3>5. QED
        BY <1>1, <1>2, <2>5, <3>2, <3>3, <3>4 DEF ReactType
  <2>7. Calls'
      BY <1>1, <2>5 DEF Calls, Tracking
  <2>8. \A y : /\ SureDeps(y)' = SureDeps(y) /\ AllDeps(y)' = AllDeps(y)
               /\ Reactivity!MissedKeys(y)' = Reactivity!MissedKeys(y)
      BY <1>1
         DEF SureDeps, AllDeps, Reactivity!Deps, Reactivity!IterateKey,
             Reactivity!MissedKeys
  <2>9. \A x \in active : Current(x)' => Current(x)
      BY <1>1, <2>5 DEF Current
  <2>10. (\A d \in ds : <<d, a>> \in deps') /\ \A p \in deps : p \in deps'
      BY <2>1
  <2>11. \A x \in active : x \in Reactivity!Effect
      BY <1>2 DEF ReactType
  <2>12. Tracked'
      BY <1>1, <2>4, <2>8, <2>10, <2>11 DEF ReactInv, Tracked
  <2>13. ASSUME NEW x \in active, Current(x)', NEW y \in view'[x]
         PROVE  /\ Reactivity!Fresh(y)' \/ Reactivity!MissedKeys(y)'
                /\ \A d \in AllDeps(y)' : <<d, x>> \in deps'
    <3>1. CASE x = a /\ y = o
      <4>1. CASE o.of = Reactivity!None
          BY <1>1, <2>8, <2>10, <3>1, <4>1 DEF Reactivity!Fresh, Reactivity!Result
      <4>2. CASE o.of # Reactivity!None
        <5>1. o.of # a /\ o.of \in Reactivity!Effect
            BY <4>2 DEF IsObservation, Reactivity!Effect, a
        <5>2. Reactivity!Fresh(o)'
            BY <1>1, <2>4, <4>2, <5>1 DEF Reactivity!Fresh
        <5>3. QED
            BY <2>8, <2>10, <3>1, <5>2
      <4>3. QED
          BY <4>1, <4>2
    <3>2. CASE y \in view[x]
      <4>1. /\ Reactivity!Fresh(y) \/ Reactivity!MissedKeys(y)
            /\ \A d \in AllDeps(y) : <<d, x>> \in deps
          BY <2>9, <2>13, <3>2 DEF ReactInv, Seen
      <4>2. IsObservation(y)
          BY <1>2, <2>11, <3>2 DEF ReactType
      <4>3. Reactivity!Fresh(y) => Reactivity!Fresh(y)'
        <5>1. CASE y.of = Reactivity!None
            BY <1>1, <5>1 DEF Reactivity!Fresh, Reactivity!Result
        <5>2. CASE y.of # Reactivity!None
          <6>1. y.of \in Computed /\ y.of \in Reactivity!Effect
              BY <4>2, <5>2 DEF IsObservation, Reactivity!Effect
          <6>2. Reactivity!Fresh(y) => y.of # a
              BY <2>3, <5>2, <6>1 DEF Reactivity!Fresh
          <6>3. QED
              BY <1>1, <2>4, <5>2, <6>1, <6>2 DEF Reactivity!Fresh
        <5>3. QED
            BY <5>1, <5>2
      <4>4. QED
          BY <2>8, <2>10, <4>1, <4>3
    <3>3. QED
        BY <2>4, <2>11, <2>13, <3>1, <3>2
  <2>14. Seen'
      BY <1>1, <2>13 DEF Seen
  <2>15. QED
      BY <2>6, <2>7, <2>12, <2>14 DEF ReactInv
<1>5. QED
    BY <1>3, <1>4

-----------------------------------------------------------------------------
(* One lemma for each step.                                                *)

\* What goes on after one step of a run, and its tracking.
LEMMA SpentTracking ==
    ASSUME ReactInv, Reactivity!MayStep
    PROVE  Resumes(Reactivity!Spent) /\ Tracking(Reactivity!Spent, trackStack, shouldTrack)
<1>1. ReactType /\ Calls /\ calls # <<>>
    BY DEF ReactInv, Reactivity!MayStep, Reactivity!Runs, Reactivity!Top
<1>2. /\ Resumes(Reactivity!Spent) /\ Reactivity!Spent # <<>>
      /\ Saved(Head(Reactivity!Spent)) = Saved(Head(calls))
      /\ Tail(Reactivity!Spent) = Tail(calls)
    BY <1>1, ResumesSpent
<1>3. /\ Head(calls) \in Frames /\ Tail(calls) \in Seq(Frames)
      /\ calls = <<Head(calls)>> \o Tail(calls)
    BY <1>1, PopSeq DEF ReactType
<1>4. /\ Head(Reactivity!Spent) \in Frames /\ Tail(Reactivity!Spent) \in Seq(Frames)
      /\ Reactivity!Spent = <<Head(Reactivity!Spent)>> \o Tail(Reactivity!Spent)
    BY <1>2, PopSeq DEF Resumes
<1>5. Tracking(<<Head(calls)>> \o Tail(calls), trackStack, shouldTrack)
    BY <1>1, <1>3 DEF Calls, Tracking
<1>6. Tracking(<<Head(Reactivity!Spent)>> \o Tail(calls), trackStack, shouldTrack)
    BY <1>1, <1>2, <1>3, <1>4, <1>5, SameTracking
<1>7. QED
    BY <1>2, <1>4, <1>6

\* One lemma for each step.
LEMMA ClientWritesKeeps == ReactInv /\ Reactivity!ClientWrites => ReactInv'
<1> SUFFICES ASSUME ReactInv, Reactivity!ClientWrites PROVE ReactInv'
    OBVIOUS
<1>1. calls = <<>> /\ Reactivity!Write(<<>>)
    BY DEF Reactivity!ClientWrites
<1>2. Resumes(<<>>)
    BY <1>1, ResumesNothing DEF ReactInv
<1>3. Tracking(<<>>, trackStack, shouldTrack)
    BY <1>1 DEF ReactInv, Calls, Tracking
<1>4. QED
    BY <1>1, <1>2, <1>3, WriteKeeps

LEMMA RunWritesKeeps == ReactInv /\ Reactivity!RunWrites => ReactInv'
BY SpentTracking, WriteKeeps DEF Reactivity!RunWrites

\* The innermost frame has gone, in words of the tracking's stack.
LEMMA PopTracking ==
    ASSUME ReactInv, calls # <<>>
    PROVE  /\ Head(calls) \in Frames /\ Tail(calls) \in Seq(Frames)
           /\ Tracking(<<Head(calls)>> \o Tail(calls), trackStack, shouldTrack)
           /\ Head(calls).fn \notin Saves => Tracking(Tail(calls), trackStack, shouldTrack)
<1>1. /\ Head(calls) \in Frames /\ Tail(calls) \in Seq(Frames)
      /\ calls = <<Head(calls)>> \o Tail(calls)
    BY PopSeq DEF ReactInv, ReactType
<1>2. Tracking(<<Head(calls)>> \o Tail(calls), trackStack, shouldTrack)
    BY <1>1 DEF ReactInv, Calls, Tracking
<1>3. QED
    BY <1>1, <1>2, OtherTracking DEF ReactInv

LEMMA MethodSetsLengthKeeps == ReactInv /\ Reactivity!MethodSetsLength => ReactInv'
<1> SUFFICES ASSUME ReactInv, Reactivity!MethodSetsLength PROVE ReactInv'
    OBVIOUS
<1> DEFINE f == Reactivity!Frame("unpause", Reactivity!None, {}, 0)
           r == <<f>> \o Tail(calls)
           n == Head(calls).left
<1>1. /\ calls # <<>> /\ Head(calls).fn = "length" /\ Reactivity!NoTracking
      /\ IF length = n
         THEN /\ calls' = r
               /\ UNCHANGED <<kind, Reactivity!data, deps, active, dirty, queued, view, excused>>
         ELSE Reactivity!SetLength(n, r)
    BY DEF Reactivity!MethodSetsLength, Reactivity!Top
<1>2. ReactType /\ Calls
    BY DEF ReactInv
<1>3. f \in Frames /\ f.fn = "unpause" /\ Saved(f) = Saved(Head(calls))
    BY <1>1 DEF Reactivity!Frame, Frames, Fns, Saved, Saves
<1>4. Head(calls) \in Frames /\ n <= MaxLen
    BY <1>1, <1>2, TopOfStack DEF Sits
<1>5. n \in 0..MaxLen
    BY <1>4, Parameters DEF Frames
<1> HIDE DEF f, n
<1>6. Resumes(Tail(calls))
    BY <1>1, <1>2, ResumesTail
<1>7. Resumes(r)
    BY <1>3, <1>6, ResumesUnder
<1>8. Tracking(r, trackStack, shouldTrack)
    BY <1>1, <1>2, <1>3, PopTracking, SameTracking
<1>9. /\ shouldTrack' = shouldTrack /\ trackStack' = trackStack
      /\ shouldTrack \in BOOLEAN /\ trackStack \in Seq(BOOLEAN)
    BY <1>1, <1>2 DEF Reactivity!NoTracking, ReactType
<1> HIDE DEF r
<1>10. CASE length = n
    BY <1>1, <1>7, <1>8, <1>9, <1>10, CallsKeep
<1>11. CASE length # n
  <2>1. Views' /\ \A m \in Nat : Balanced(r, m) => Balanced(calls', m)
      BY <1>1, <1>5, <1>7, <1>9, <1>11, SetLengthKeeps
  <2>2. Tracking(calls, trackStack, shouldTrack)'
      BY <1>8, <1>9, <2>1 DEF Tracking
  <2>3. QED
      BY <2>1, <2>2 DEF ReactInv, Views, Calls, Tracking
<1>12. QED
    BY <1>10, <1>11

LEMMA MethodEndsKeeps == ReactInv /\ Reactivity!MethodEnds => ReactInv'
<1> SUFFICES ASSUME ReactInv, Reactivity!MethodEnds PROVE ReactInv'
    OBVIOUS
<1>1. /\ calls # <<>> /\ Head(calls).fn = "unpause" /\ calls' = Tail(calls) /\ Reactivity!Reset
      /\ UNCHANGED <<kind, Reactivity!data, deps, active, dirty, queued, view, excused>>
    BY DEF Reactivity!MethodEnds, Reactivity!Top
<1>2. ReactType /\ Calls
    BY DEF ReactInv
<1>3. Resumes(Tail(calls))
    BY <1>1, <1>2, ResumesTail
<1>4. Head(calls).fn \in Saves
    BY <1>1 DEF Saves
<1>5. /\ shouldTrack' \in BOOLEAN /\ trackStack' \in Seq(BOOLEAN)
      /\ Tracking(Tail(calls), trackStack', shouldTrack')
    BY <1>1, <1>2, <1>4, PopTracking, ResetsTracking
<1>6. QED
    BY <1>1, <1>3, <1>5, CallsKeep

LEMMA RunEndsKeeps == ReactInv /\ Reactivity!RunEnds => ReactInv'
<1> SUFFICES ASSUME ReactInv, Reactivity!RunEnds PROVE ReactInv'
    OBVIOUS
<1> DEFINE f == Head(calls)
           s == Tail(calls)
<1>1. /\ calls # <<>> /\ f.fn \in {"run", "raw"} /\ calls' = s
      /\ IF f.fn = "run" THEN Reactivity!Reset ELSE Reactivity!NoTracking
      /\ UNCHANGED <<kind, Reactivity!data, deps, active, dirty, queued, view, excused>>
    BY DEF Reactivity!RunEnds, Reactivity!Runs, Reactivity!Top
<1>2. ReactType /\ Calls
    BY DEF ReactInv
<1>3. CASE f.fn = "raw"
  <2>1. Resumes(s)
      BY <1>1, <1>2, <1>3, ResumesTail
  <2>2. f.fn \notin Saves
      BY <1>3 DEF Saves
  <2>3. /\ shouldTrack' = shouldTrack /\ trackStack' = trackStack
        /\ shouldTrack \in BOOLEAN /\ trackStack \in Seq(BOOLEAN)
      BY <1>1, <1>2, <1>3 DEF Reactivity!NoTracking, ReactType
  <2>4. QED
      BY <1>1, <2>1, <2>2, <2>3, PopTracking, CallsKeep
<1>4. CASE f.fn = "run"
  <2>1. /\ f \in Frames /\ s \in Seq(Frames)
        /\ Sits(f, s, active, dirty, excused) /\ Shape(s, active, dirty, excused)
        /\ Pending(calls) = Pending(s) /\ Evaluating(calls) = Evaluating(s)
      BY <1>1, <1>2, <1>4, TopOfStack
  <2>2. TopValue(s, dirty)
      BY <1>4, <2>1 DEF Sits, TopValue
  <2>3. f.fn \in Saves
      BY <1>4 DEF Saves
  <2>4. /\ shouldTrack' \in BOOLEAN /\ trackStack' \in Seq(BOOLEAN)
        /\ Tracking(s, trackStack', shouldTrack')
      BY <1>1, <1>2, <1>4, <2>3, PopTracking, ResetsTracking
  <2> HIDE DEF f, s
  <2>5. \A x \in active : Current(x)' => Current(x)
      BY <1>1, <2>1 DEF Current
  <2>6. queued' \subseteq Reactivity!Effect \ Computed
      BY <1>1, <1>2 DEF ReactType
  <2>7. QED
      BY <1>1, <2>1, <2>2, <2>4, <2>5, <2>6, ResumeKeeps
<1>5. QED
    BY <1>1, <1>3, <1>4

LEMMA ComputedIsCleanKeeps == ReactInv /\ Reactivity!ComputedIsClean => ReactInv'
<1> SUFFICES ASSUME ReactInv, Reactivity!ComputedIsClean PROVE ReactInv'
    OBVIOUS
<1> DEFINE f == Head(calls)
           s == Tail(calls)
           c == f.effect
<1>1. /\ calls # <<>> /\ f.fn = "evaluated" /\ calls' = s /\ dirty' = dirty \ {c}
      /\ kind' = kind /\ content' = content /\ length' = length /\ deps' = deps
      /\ active' = active /\ queued' = queued /\ view' = view /\ excused' = excused
      /\ shouldTrack' = shouldTrack /\ trackStack' = trackStack
    BY DEF Reactivity!ComputedIsClean, Reactivity!Top, Reactivity!NoTracking,
           Reactivity!data
<1>2. ReactType /\ Calls
    BY DEF ReactInv
<1>3. /\ f \in Frames /\ s \in Seq(Frames)
      /\ Sits(f, s, active, dirty, excused) /\ Shape(s, active, dirty, excused)
      /\ Pending(calls) = Pending(s) /\ Evaluating(calls) = Evaluating(s) \cup {c}
    BY <1>1, <1>2, TopOfStack
<1>4. /\ c \in Computed /\ c \notin RunningIn(s)
      /\ s # <<>> /\ Head(s).fn = "value" /\ Head(s).effect = c
    BY <1>1, <1>3 DEF Sits, On
<1>5. Tracking(s, trackStack, shouldTrack)
    BY <1>1, PopTracking DEF Saves
<1> HIDE DEF f, s, c
<1>6. c \notin Evaluating(s)
    BY <1>3, <1>4, EvaluatingRuns
<1>7. Shape(calls', active', dirty', excused') /\ TopValue(calls', dirty')
    BY <1>1, <1>3, <1>4, <1>6, ShapeCleans DEF TopValue
<1>8. Calls'
    BY <1>1, <1>5, <1>7 DEF Calls, Tracking
<1>9. ReactType'
  <2>1. \A o : IsObservation(o)' <=> IsObservation(o)
      BY <1>1 DEF IsObservation, Reactivity!Reads
  <2>2. QED
      BY <1>1, <1>2, <1>3, <2>1 DEF ReactType
<1>10. \A o : /\ SureDeps(o)' = SureDeps(o) /\ AllDeps(o)' = AllDeps(o)
              /\ Reactivity!MissedKeys(o)' = Reactivity!MissedKeys(o)
    BY <1>1
       DEF SureDeps, AllDeps, Reactivity!Deps, Reactivity!IterateKey, Reactivity!MissedKeys
<1>11. \A o : Reactivity!Fresh(o) => Reactivity!Fresh(o)'
  <2> TAKE o
  <2>1. Reactivity!Result(o.read, o.key)' = Reactivity!Result(o.read, o.key)
      BY <1>1 DEF Reactivity!Result
  <2>2. QED
      BY <1>1, <2>1 DEF Reactivity!Fresh
<1>12. \A x \in active : Current(x)' => Current(x)
    BY <1>1, <1>3 DEF Current
<1>13. Tracked' /\ Seen'
    BY <1>1, <1>10, <1>11, <1>12 DEF ReactInv, Tracked, Seen
<1>14. QED
    BY <1>8, <1>9, <1>13 DEF ReactInv

LEMMA ComputedIsReadKeeps == ReactInv /\ Reactivity!ComputedIsRead => ReactInv'
<1> SUFFICES ASSUME ReactInv, Reactivity!ComputedIsRead PROVE ReactInv'
    OBVIOUS
<1> DEFINE f == Head(calls)
           s == Tail(calls)
           c == f.effect
           o == [read |-> "value", key |-> Reactivity!NoKey, result |-> view[c], of |-> c]
<1>1. /\ calls # <<>> /\ f.fn = "value" /\ calls' = s
      /\ Reactivity!Track({Reactivity!ValueDep(c)}) /\ Reactivity!Observes(o)
      /\ Reactivity!NoTracking
      /\ UNCHANGED <<kind, Reactivity!data, active, dirty, queued, excused>>
    BY DEF Reactivity!ComputedIsRead, Reactivity!Top
<1>2. ReactType /\ Calls
    BY DEF ReactInv
<1>3. /\ s \in Seq(Frames) /\ Sits(f, s, active, dirty, excused)
      /\ Shape(s, active, dirty, excused)
      /\ RunningIn(calls) = RunningIn(s) /\ Pending(calls) = Pending(s)
      /\ Evaluating(calls) = Evaluating(s)
      /\ s = <<>> \/ Head(s).fn \notin {"evaluated", "value"}
    BY <1>1, <1>2, TopOfStack
<1>4. c \in Computed /\ c \notin RunningIn(calls) /\ c \notin dirty
    BY <1>1, <1>2, <1>3 DEF Sits, Calls, TopValue
<1>5. Resumes(s)
    BY <1>3 DEF Resumes
<1>6. Tracking(s, trackStack, shouldTrack)
    BY <1>1, PopTracking DEF Saves
<1>7. c # Reactivity!None
    BY <1>4, Parameters DEF Reactivity!Effect
<1>8. c # Reactivity!ActiveEffect
    BY <1>2, <1>4, <1>7, ActiveRuns DEF ReactType
<1>9. /\ IsObservation(o) /\ Reactivity!Fresh(o) /\ o.of # Reactivity!ActiveEffect
      /\ SureDeps(o) = {Reactivity!ValueDep(c)} /\ AllDeps(o) = {Reactivity!ValueDep(c)}
    BY <1>4, <1>7, <1>8 DEF IsObservation, Reactivity!Fresh, SureDeps, AllDeps
<1> HIDE DEF f, s, c, o
<1>10. QED
    BY <1>1, <1>5, <1>6, <1>9, ObservesKeeps

LEMMA RunReadsKeeps ==
    ASSUME ReactInv, NEW read \in Reactivity!Reads,
           NEW k \in Reactivity!Key \cup {Reactivity!NoKey},
           Reactivity!RunReads(read, k)
    PROVE  ReactInv'
<1> DEFINE o == [read |-> read, key |-> k,
                 result |-> Reactivity!Result(read, k), of |-> Reactivity!None]
<1>1. /\ Reactivity!MayStep /\ (read \in Reactivity!Keyed <=> k # Reactivity!NoKey)
      /\ Reactivity!Track(Reactivity!Deps(read, k)) /\ Reactivity!Observes(o)
      /\ calls' = Reactivity!Spent
      /\ Reactivity!NoTracking
      /\ UNCHANGED <<kind, Reactivity!data, active, dirty, queued, excused>>
    BY DEF Reactivity!RunReads
<1>2. /\ o.read = read /\ o.key = k /\ o.result = Reactivity!Result(read, k)
      /\ o.of = Reactivity!None
    OBVIOUS
<1> HIDE DEF o
<1>3. IsObservation(o) /\ Reactivity!Fresh(o)
    BY <1>1, <1>2 DEF IsObservation, Reactivity!Fresh
<1>4. /\ SureDeps(o) \subseteq Reactivity!Deps(read, k)
      /\ AllDeps(o) \subseteq Reactivity!Deps(read, k)
  <2>1. CASE read = "includes"
    <3>1. Reactivity!Deps(read, k) = Reactivity!IndexDeps(0, length - 1) \cup {Reactivity!LengthDep}
        BY <2>1 DEF Reactivity!Deps, Reactivity!Keyed
    <3>2. QED
        BY <1>2, <2>1, <3>1 DEF SureDeps, AllDeps
  <2>2. CASE read # "includes"
      BY <1>2, <2>2 DEF SureDeps, AllDeps
  <2>3. QED
      BY <2>1, <2>2
<1>5. QED
    BY <1>1, <1>2, <1>3, <1>4, SpentTracking, ObservesKeeps

LEMMA StopKeeps ==
    ASSUME ReactInv, NEW e \in Reactivity!Effect, Reactivity!Stop(e)
    PROVE  ReactInv'
<1> DEFINE r == IF calls = <<>> THEN calls ELSE Reactivity!Spent
<1>1. /\ e \in active /\ e \notin Computed
      /\ calls = <<>> \/ Reactivity!MayStep
      /\ deps' = Reactivity!Cleanup(e) /\ active' = active \ {e} /\ calls' = r
      /\ kind' = kind /\ content' = content /\ length' = length /\ dirty' = dirty
      /\ queued' = queued /\ view' = view
      /\ excused' = IF e \in Reactivity!Running THEN excused \cup {e} ELSE excused \ {e}
      /\ shouldTrack' = shouldTrack /\ trackStack' = trackStack
    BY DEF Reactivity!Stop, Reactivity!NoTracking, Reactivity!data
<1>2. ReactType /\ Calls
    BY DEF ReactInv
<1>3. Resumes(r) /\ Tracking(r, trackStack, shouldTrack)
  <2>1. CASE calls = <<>>
      BY <1>2, <2>1, ResumesNothing DEF Calls, Tracking
  <2>2. CASE calls # <<>>
      BY <1>1, <2>2, SpentTracking
  <2>3. QED
      BY <2>1, <2>2
<1>4. Reactivity!Running = RunningIn(r)
    BY <1>2, <1>3, ActiveRuns DEF ReactType, Resumes
<1> HIDE DEF r
<1>5. /\ r \in Seq(Frames) /\ Shape(r, active \ {e}, dirty, excused') /\ TopValue(r, dirty)
  <2>1. /\ r \in Seq(Frames) /\ TopValue(r, dirty)
        /\ Shape(r, active \ {e}, dirty, excused \cup {e})
      BY <1>1, <1>3, ShapeStops DEF Resumes, TopValue
  <2>2. CASE e \in Reactivity!Running
      BY <1>1, <2>1, <2>2
  <2>3. CASE e \notin Reactivity!Running
    <3>1. (excused \cup {e}) \ {e} = excused'
        BY <1>1, <2>3
    <3>2. Shape(r, active \ {e}, dirty, (excused \cup {e}) \ {e})
        BY <1>4, <2>1, <2>3, ShapeShrinks
    <3>3. QED
        BY <2>1, <3>1, <3>2
  <2>4. QED
      BY <2>2, <2>3
<1>6. Calls'
  <2>1. Shape(calls', active', dirty', excused') /\ TopValue(calls', dirty')
      BY <1>1, <1>5
  <2>2. QED
      BY <1>1, <1>3, <2>1 DEF Calls, Tracking
<1>7. ReactType'
  <2>1. \A o : IsObservation(o)' <=> IsObservation(o)
      BY <1>1 DEF IsObservation, Reactivity!Reads
  <2>2. \A p \in deps' : p \in deps /\ p[2] # e
      BY <1>1 DEF Reactivity!Cleanup
  <2>3. QED
      BY <1>1, <1>2, <1>5, <2>1, <2>2 DEF ReactType
<1>8. \A o : /\ SureDeps(o)' = SureDeps(o) /\ AllDeps(o)' = AllDeps(o)
             /\ Reactivity!Fresh(o)' = Reactivity!Fresh(o)
             /\ Reactivity!MissedKeys(o)' = Reactivity!MissedKeys(o)
    BY <1>1
       DEF SureDeps, AllDeps, Reactivity!Deps, Reactivity!IterateKey, Reactivity!Fresh,
           Reactivity!Result, Reactivity!MissedKeys
<1>9. \A x, d : x # e /\ <<d, x>> \in deps => <<d, x>> \in deps'
    BY <1>1 DEF Reactivity!Cleanup
<1>10. \A x \in active' : x \in active /\ x # e /\ (Current(x)' => Current(x))
    BY <1>1, <1>3 DEF Current, Resumes
<1>11. Tracked' /\ Seen'
    BY <1>1, <1>8, <1>9, <1>10 DEF ReactInv, Tracked, Seen
<1>12. QED
    BY <1>6, <1>7, <1>11 DEF ReactInv

\* What pushing a frame that sits on a well-formed stack gives.
LEMMA PushFrame ==
    ASSUME NEW s \in Seq(Frames), NEW f \in Frames, NEW A, NEW D, NEW X,
           Shape(s, A, D, X), Sits(f, s, A, D, X)
    PROVE  LET t == <<f>> \o s IN
           /\ t \in Seq(Frames) /\ Shape(t, A, D, X) /\ t # <<>> /\ Head(t) = f
           /\ RunningIn(t) = RunningIn(s) \cup (IF f.fn = "run" THEN {f.effect} ELSE {})
           /\ Pending(t) = Pending(s) \cup (IF f.fn = "trigger" THEN f.todo ELSE {})
           /\ Evaluating(t) = Evaluating(s) \cup (IF f.fn = "evaluated" THEN {f.effect} ELSE {})
<1> DEFINE t == <<f>> \o s
<1>1. t \in Seq(Frames) /\ t # <<>> /\ Head(t) = f
    BY PushSeq
<1>2. Shape(t, A, D, X)
    BY PushShape
<1>3. QED
    BY <1>1, <1>2, PushSets

-----------------------------------------------------------------------------
\* reactiveEffect is called for an effect that may not be computed.
LEMMA StartsKeeps ==
    ASSUME ReactInv, NEW e \in Reactivity!Effect \ Computed, NEW r \in Seq(Frames),
           Reactivity!Starts(e, r), Shape(r, active, dirty, excused),
           r = <<>> \/ Head(r).fn \notin {"evaluated", "value"},
           RunningIn(r) = Reactivity!Running, Evaluating(r) = Evaluating(calls),
           Pending(calls) \subseteq Pending(r) \cup {e},
           e \in Reactivity!Running => e \in excused,
           queued' \subseteq queued, queued \subseteq queued' \cup {e},
           Tracking(r, trackStack, shouldTrack)
    PROVE  ReactInv'
<1>1. UNCHANGED <<kind, Reactivity!data, active, dirty>>
    BY DEF Reactivity!Starts
<1>2. ReactType /\ shouldTrack \in BOOLEAN /\ trackStack \in Seq(BOOLEAN)
    BY DEF ReactInv, ReactType
<1>3. queued' \subseteq Reactivity!Effect \ Computed
    BY <1>2 DEF ReactType
<1>4. TopValue(r, dirty)
    BY DEF TopValue
<1>5. CASE e \notin active
  <2> DEFINE f == Reactivity!Frame("raw", e, {}, MCSteps[e])
             t == (IF e \in Plain THEN <<f>> ELSE <<>>) \o r
  <2>1. calls' = t /\ Reactivity!NoTracking /\ UNCHANGED <<deps, view, excused>>
      BY <1>5 DEF Reactivity!Starts
  <2>2. f \in Frames /\ f.fn = "raw"
    <3>1. MCSteps[e] \in Nat
        BY Parameters
    <3>2. QED
        BY <3>1 DEF Reactivity!Frame, Frames, Fns
  <2> HIDE DEF f
  <2>3. t = r \/ t = <<f>> \o r
      OBVIOUS
  <2>4. CASE t = r
    <3>1. \A x \in active : Current(x)' => Current(x)
        BY <1>1, <1>5, <2>1, <2>4 DEF Current
    <3>2. QED
        BY <1>1, <1>2, <1>3, <1>4, <2>1, <2>4, <3>1, ResumeKeeps DEF Reactivity!NoTracking
  <2>5. CASE t = <<f>> \o r
    <3>1. Sits(f, r, active, dirty, excused)
        BY <2>2 DEF Sits
    <3>2. /\ calls' \in Seq(Frames) /\ Shape(calls', active, dirty, excused)
          /\ Head(calls') = f
        BY <2>1, <2>2, <2>5, <3>1, PushSeq, PushShape
    <3>3. Pending(calls') = Pending(r) /\ Evaluating(calls') = Evaluating(r)
        BY <2>1, <2>2, <2>5, PushSets
    <3>4. \A x \in active : Current(x)' => Current(x)
        BY <1>1, <1>5, <2>1, <3>3 DEF Current
    <3>5. TopValue(calls', dirty)
        BY <2>2, <3>2 DEF TopValue
    <3>6. Tracking(calls', trackStack, shouldTrack)
        BY <1>2, <2>1, <2>2, <2>5, OtherTracking DEF Saves
    <3>7. QED
        BY <1>1, <1>2, <1>3, <2>1, <3>2, <3>4, <3>5, <3>6, ResumeKeeps
           DEF Reactivity!NoTracking
  <2>6. QED
      BY <2>3, <2>4, <2>5
<1>6. CASE e \in active /\ e \in Reactivity!Running
  <2>1. calls' = r /\ Reactivity!NoTracking /\ UNCHANGED <<deps, view, excused>>
      BY <1>6 DEF Reactivity!Starts
  <2>2. \A x \in active : Current(x)' => Current(x)
      BY <1>1, <1>6, <2>1 DEF Current
  <2>3. QED
      BY <1>1, <1>2, <1>3, <1>4, <2>1, <2>2, ResumeKeeps DEF Reactivity!NoTracking
<1>7. CASE e \in active /\ e \notin Reactivity!Running
  <2>1. /\ deps' = Reactivity!Cleanup(e) /\ view' = [view EXCEPT ![e] = {}]
        /\ excused' = excused \ {e}
        /\ calls' = <<Reactivity!Frame("run", e, {}, MCSteps[e])>> \o r /\ Reactivity!Enable
      BY <1>7 DEF Reactivity!Starts
  <2>2. QED
      BY <1>1, <1>7, <2>1, RunBegins
<1>8. QED
    BY <1>5, <1>6, <1>7

LEMMA QueuedRunsKeeps ==
    ASSUME ReactInv, NEW e \in Reactivity!Effect, Reactivity!QueuedRuns(e)
    PROVE  ReactInv'
<1>1. calls = <<>> /\ e \in queued /\ queued' = queued \ {e} /\ Reactivity!Starts(e, <<>>)
    BY DEF Reactivity!QueuedRuns
<1>2. ReactType /\ Calls
    BY DEF ReactInv
<1>3. Reactivity!Running = RunningIn(calls)
    BY <1>2, ActiveRuns DEF ReactType
<1>4. Resumes(<<>>)
    BY <1>1, <1>2, ResumesNothing
<1>5. RunningIn(<<>>) = {}
    BY DEF RunningIn
<1>6. e \in Reactivity!Effect \ Computed
    BY <1>1, <1>2 DEF ReactType
<1>7. Tracking(<<>>, trackStack, shouldTrack)
    BY <1>1, <1>2 DEF Calls, Tracking
<1>8. QED
    BY <1>1, <1>3, <1>4, <1>5, <1>6, <1>7, StartsKeeps DEF Resumes

LEMMA RunReadsComputedKeeps ==
    ASSUME ReactInv, NEW c \in Reactivity!Effect, Reactivity!RunReadsComputed(c)
    PROVE  ReactInv'
<1> DEFINE f == Reactivity!Frame("value", c, {}, 0)
           g == Reactivity!Frame("evaluated", c, {}, 0)
           s == <<f>> \o Reactivity!Spent
           t == <<g>> \o s
<1>1. /\ Reactivity!MayStep /\ c \in active /\ c \in Computed /\ c \notin Reactivity!Running
      /\ IF c \in dirty THEN Reactivity!Starts(c, t) /\ UNCHANGED queued
         ELSE /\ calls' = s /\ Reactivity!NoTracking
              /\ UNCHANGED <<kind, Reactivity!data, deps, active, dirty, queued, view, excused>>
    BY DEF Reactivity!RunReadsComputed
<1>2. ReactType /\ shouldTrack \in BOOLEAN /\ trackStack \in Seq(BOOLEAN)
    BY DEF ReactInv, ReactType
<1>3. Resumes(Reactivity!Spent) /\ Tracking(Reactivity!Spent, trackStack, shouldTrack)
    BY <1>1, SpentTracking
<1>4. f \in Frames /\ f.fn = "value" /\ f.effect = c /\ f.fn \notin Saves
    BY DEF Reactivity!Frame, Frames, Fns, Saves
<1>5. g \in Frames /\ g.fn = "evaluated" /\ g.effect = c /\ g.fn \notin Saves
    BY DEF Reactivity!Frame, Frames, Fns, Saves
<1> HIDE DEF f, g
<1>6. Reactivity!Running = RunningIn(calls)
    BY <1>2, ActiveRuns DEF ReactType
<1>7. /\ Reactivity!Spent \in Seq(Frames) /\ Shape(Reactivity!Spent, active, dirty, excused)
      /\ Reactivity!Spent = <<>> \/ Head(Reactivity!Spent).fn \notin {"evaluated", "value"}
      /\ RunningIn(Reactivity!Spent) = Reactivity!Running
      /\ Pending(Reactivity!Spent) = Pending(calls)
      /\ Evaluating(Reactivity!Spent) = Evaluating(calls)
    BY <1>3, <1>6 DEF Resumes
<1>8. Sits(f, Reactivity!Spent, active, dirty, excused)
    BY <1>1, <1>4, <1>7 DEF Sits
<1>9. /\ s \in Seq(Frames) /\ Shape(s, active, dirty, excused) /\ s # <<>> /\ Head(s) = f
      /\ RunningIn(s) = Reactivity!Running /\ Pending(s) = Pending(calls)
      /\ Evaluating(s) = Evaluating(calls)
  <2>1. s = <<f>> \o Reactivity!Spent
      OBVIOUS
  <2> HIDE DEF s
  <2>2. /\ s \in Seq(Frames) /\ Shape(s, active, dirty, excused) /\ s # <<>> /\ Head(s) = f
        /\ RunningIn(s) = RunningIn(Reactivity!Spent) \cup {}
        /\ Pending(s) = Pending(Reactivity!Spent) \cup {}
        /\ Evaluating(s) = Evaluating(Reactivity!Spent) \cup {}
    <3>1. /\ s \in Seq(Frames) /\ Shape(s, active, dirty, excused) /\ s # <<>> /\ Head(s) = f
          /\ RunningIn(s) = RunningIn(Reactivity!Spent) \cup (IF f.fn = "run" THEN {f.effect} ELSE {})
          /\ Pending(s) = Pending(Reactivity!Spent) \cup (IF f.fn = "trigger" THEN f.todo ELSE {})
          /\ Evaluating(s) = Evaluating(Reactivity!Spent) \cup (IF f.fn = "evaluated" THEN {f.effect} ELSE {})
        BY <1>4, <1>7, <1>8, <2>1, PushFrame
    <3>2. QED
        BY <1>4, <3>1
  <2>3. QED
      BY <1>7, <2>2
<1>10. Tracking(s, trackStack, shouldTrack)
    BY <1>2, <1>3, <1>4, <1>7, OtherTracking
<1> HIDE DEF s
<1>11. CASE c \notin dirty
  <2>1. TopValue(s, dirty)
      BY <1>4, <1>9, <1>11 DEF TopValue
  <2>2. \A x \in active : Current(x)' => Current(x)
      BY <1>1, <1>9, <1>11 DEF Current
  <2>3. queued' \subseteq Reactivity!Effect \ Computed
      BY <1>1, <1>2, <1>11 DEF ReactType
  <2>4. QED
      BY <1>1, <1>2, <1>9, <1>10, <1>11, <2>1, <2>2, <2>3, ResumeKeeps
         DEF Reactivity!NoTracking
<1>12. CASE c \in dirty
  <2>1. Sits(g, s, active, dirty, excused)
      BY <1>1, <1>4, <1>5, <1>9, <1>12 DEF Sits, On
  <2>2. /\ t \in Seq(Frames) /\ Shape(t, active, dirty, excused) /\ t # <<>> /\ Head(t) = g
        /\ RunningIn(t) = Reactivity!Running /\ Pending(t) = Pending(calls)
        /\ Evaluating(t) = Evaluating(calls) \cup {c}
    <3>1. t = <<g>> \o s
        OBVIOUS
    <3> HIDE DEF t
    <3>2. /\ t \in Seq(Frames) /\ Shape(t, active, dirty, excused) /\ t # <<>> /\ Head(t) = g
          /\ RunningIn(t) = RunningIn(s) \cup {} /\ Pending(t) = Pending(s) \cup {}
          /\ Evaluating(t) = Evaluating(s) \cup {c}
        BY <1>5, <1>9, <2>1, <3>1, PushFrame
    <3>3. QED
        BY <1>9, <3>2
  <2>3. Tracking(t, trackStack, shouldTrack)
      BY <1>2, <1>5, <1>9, <1>10, OtherTracking
  <2> HIDE DEF t
  <2>4. /\ deps' = Reactivity!Cleanup(c) /\ view' = [view EXCEPT ![c] = {}]
        /\ excused' = excused \ {c}
        /\ calls' = <<Reactivity!Frame("run", c, {}, MCSteps[c])>> \o t /\ Reactivity!Enable
        /\ UNCHANGED <<kind, Reactivity!data, active, dirty>>
      BY <1>1, <1>12 DEF Reactivity!Starts
  <2>5. queued' = queued
      BY <1>1, <1>12
  <2>6. QED
      BY <1>1, <1>5, <1>12, <2>2, <2>3, <2>4, <2>5, RunBegins
<1>13. QED
    BY <1>11, <1>12

LEMMA TriggerRunsKeeps ==
    ASSUME ReactInv, NEW e \in Reactivity!Effect, Reactivity!TriggerRuns(e)
    PROVE  ReactInv'
<1> DEFINE f == Head(calls)
           s == Tail(calls)
           todo == f.todo \ {e}
           g == [f EXCEPT !.todo = todo]
           r == IF todo = {} THEN s ELSE <<g>> \o s
<1>1. calls # <<>> /\ f.fn = "trigger" /\ e \in f.todo
    BY DEF Reactivity!TriggerRuns, Reactivity!Top
<1>2. ReactType /\ Calls /\ shouldTrack \in BOOLEAN /\ trackStack \in Seq(BOOLEAN)
    BY DEF ReactInv, ReactType
<1>3. \/ e \in Plain /\ Reactivity!Starts(e, r) /\ UNCHANGED queued
      \/ /\ e \in Queued
         /\ queued' = queued \cup {e} /\ calls' = r
         /\ Reactivity!NoTracking
         /\ UNCHANGED <<kind, Reactivity!data, deps, active, dirty, view, excused>>
      \/ /\ e \in Computed
         /\ calls' = (IF e \in dirty THEN <<>> ELSE Reactivity!Trigger({Reactivity!ValueDep(e)})) \o r
         /\ dirty' = dirty \cup {e}
         /\ Reactivity!NoTracking
         /\ UNCHANGED <<kind, Reactivity!data, deps, active, queued, view, excused>>
    BY DEF Reactivity!TriggerRuns
<1>4. /\ f \in Frames /\ s \in Seq(Frames)
      /\ Sits(f, s, active, dirty, excused) /\ Shape(s, active, dirty, excused)
      /\ RunningIn(calls) = RunningIn(s)
      /\ Pending(calls) = Pending(s) \cup f.todo
      /\ Evaluating(calls) = Evaluating(s)
      /\ s = <<>> \/ Head(s).fn \notin {"evaluated", "value"}
    BY <1>1, <1>2, TopOfStack
<1>5. /\ Reactivity!Running = RunningIn(calls)
      /\ (Reactivity!ActiveEffect = Reactivity!None \/ Reactivity!ActiveEffect \in Reactivity!Running)
    BY <1>2, ActiveRuns DEF ReactType
<1>6. Reactivity!Running \subseteq excused
    BY <1>1, <1>4, <1>5 DEF Sits
<1>7. g \in Frames /\ g.fn = "trigger" /\ g.todo = todo
    BY <1>1, <1>4 DEF Frames
<1>8. Tracking(s, trackStack, shouldTrack)
    BY <1>1, PopTracking DEF Saves
<1> HIDE DEF f, s, g
<1>9. /\ r \in Seq(Frames) /\ Shape(r, active, dirty, excused)
      /\ r = <<>> \/ Head(r).fn \notin {"evaluated", "value"}
      /\ RunningIn(r) = Reactivity!Running /\ Evaluating(r) = Evaluating(calls)
      /\ Pending(r) = Pending(s) \cup todo
      /\ Tracking(r, trackStack, shouldTrack)
  <2>1. CASE todo = {}
      BY <1>4, <1>5, <1>8, <2>1
  <2>2. CASE todo # {}
    <3>1. r = <<g>> \o s
        BY <2>2
    <3> HIDE DEF r
    <3>2. Sits(g, s, active, dirty, excused)
        BY <1>1, <1>4, <1>7 DEF Sits
    <3>3. /\ r \in Seq(Frames) /\ Shape(r, active, dirty, excused) /\ Head(r) = g
          /\ RunningIn(r) = RunningIn(s) /\ Evaluating(r) = Evaluating(s)
          /\ Pending(r) = Pending(s) \cup todo
      <4>1. /\ r \in Seq(Frames) /\ Shape(r, active, dirty, excused) /\ Head(r) = g
            /\ RunningIn(r) = RunningIn(s) \cup {} /\ Evaluating(r) = Evaluating(s) \cup {}
            /\ Pending(r) = Pending(s) \cup todo
        <5>1. /\ r \in Seq(Frames) /\ Shape(r, active, dirty, excused) /\ Head(r) = g
              /\ RunningIn(r) = RunningIn(s) \cup (IF g.fn = "run" THEN {g.effect} ELSE {})
              /\ Pending(r) = Pending(s) \cup (IF g.fn = "trigger" THEN g.todo ELSE {})
              /\ Evaluating(r) = Evaluating(s) \cup (IF g.fn = "evaluated" THEN {g.effect} ELSE {})
            BY <1>4, <1>7, <3>1, <3>2, PushFrame
        <5>2. QED
            BY <1>7, <5>1
      <4>2. QED
          BY <4>1
    <3>4. Tracking(r, trackStack, shouldTrack)
        BY <1>2, <1>4, <1>7, <1>8, <3>1, OtherTracking DEF Saves
    <3>5. QED
        BY <1>4, <1>5, <1>7, <3>3, <3>4
  <2>3. QED
      BY <2>1, <2>2
<1>10. Pending(calls) \subseteq Pending(r) \cup {e} /\ Pending(r) \subseteq Pending(calls)
    BY <1>4, <1>9
<1> HIDE DEF r, todo
<1>11. TopValue(r, dirty)
    BY <1>9 DEF TopValue
<1>12. CASE e \in Plain /\ Reactivity!Starts(e, r) /\ UNCHANGED queued
  <2>1. e \in Reactivity!Effect \ Computed
      BY <1>12, Parameters
  <2>2. QED
      BY <1>6, <1>9, <1>10, <1>12, <2>1, StartsKeeps
<1>13. CASE /\ e \in Queued
            /\ queued' = queued \cup {e} /\ calls' = r
            /\ Reactivity!NoTracking
            /\ UNCHANGED <<kind, Reactivity!data, deps, active, dirty, view, excused>>
  <2>1. queued' \subseteq Reactivity!Effect \ Computed
      BY <1>2, <1>13, Parameters DEF ReactType
  <2>2. \A x \in active : Current(x)' => Current(x)
      BY <1>9, <1>10, <1>13 DEF Current
  <2>3. QED
      BY <1>2, <1>9, <1>11, <1>13, <2>1, <2>2, ResumeKeeps DEF Reactivity!NoTracking
<1>14. CASE /\ e \in Computed /\ e \in dirty /\ calls' = r /\ dirty' = dirty
            /\ Reactivity!NoTracking
            /\ UNCHANGED <<kind, Reactivity!data, deps, active, queued, view, excused>>
  <2>1. queued' \subseteq Reactivity!Effect \ Computed
      BY <1>2, <1>14 DEF ReactType
  <2>2. e \in Evaluating(calls) => e \in excused
    <3>1. calls \in Seq(Frames) /\ Head(calls).fn = "trigger"
        BY <1>1, <1>2 DEF ReactType, f
    <3>2. QED
        BY <1>2, <1>5, <1>6, <3>1, EvaluatingRuns DEF Calls
  <2>3. \A x \in active : Current(x)' => Current(x)
      BY <1>9, <1>10, <1>14, <2>2 DEF Current
  <2>4. QED
      BY <1>2, <1>9, <1>11, <1>14, <2>1, <2>3, ResumeKeeps DEF Reactivity!NoTracking
<1>15. CASE /\ e \in Computed /\ e \notin dirty
            /\ calls' = Reactivity!Trigger({Reactivity!ValueDep(e)}) \o r
            /\ dirty' = dirty \cup {e}
            /\ Reactivity!NoTracking
            /\ UNCHANGED <<kind, Reactivity!data, deps, active, queued, view, excused>>
  <2>1. /\ kind' = kind /\ content' = content /\ length' = length /\ deps' = deps
        /\ active' = active /\ queued' = queued /\ view' = view /\ excused' = excused
        /\ shouldTrack' = shouldTrack /\ trackStack' = trackStack
      BY <1>15 DEF Reactivity!data, Reactivity!NoTracking
  <2>2. Shape(r, active, dirty', excused)
      BY <1>9, <1>15, ShapeGrows
  <2>3. RunningIn(r) \subseteq excused
      BY <1>6, <1>9
  <2>4. /\ calls' \in Seq(Frames) /\ Shape(calls', active, dirty', excused)
        /\ calls' = <<>> \/ Head(calls').fn \notin {"evaluated", "value"}
        /\ Evaluating(calls') = Evaluating(r)
        /\ Pending(calls') = Pending(r) \cup Reactivity!Collect({Reactivity!ValueDep(e)})
        /\ \A n \in Nat : Balanced(r, n) => Balanced(calls', n)
      BY <1>9, <1>15, <2>2, <2>3, TriggerOver
  <2>5. ReactType'
    <3>1. \A o : IsObservation(o)' <=> IsObservation(o)
        BY <2>1 DEF IsObservation, Reactivity!Reads
    <3>2. QED
        BY <1>2, <1>15, <2>1, <2>4, <3>1 DEF ReactType
  <2>6. Calls'
    <3>1. Shape(calls', active', dirty', excused') /\ TopValue(calls', dirty')
        BY <2>1, <2>4 DEF TopValue
    <3>2. Len(trackStack) \in Nat
        BY <1>2
    <3>3. QED
        BY <1>9, <2>1, <2>4, <3>1, <3>2 DEF Calls, Tracking
  <2>7. \A o : /\ SureDeps(o)' = SureDeps(o) /\ AllDeps(o)' = AllDeps(o)
               /\ Reactivity!MissedKeys(o)' = Reactivity!MissedKeys(o)
      BY <2>1
         DEF SureDeps, AllDeps, Reactivity!Deps, Reactivity!IterateKey,
             Reactivity!MissedKeys
  <2>8. ASSUME NEW x \in active, Current(x)'
        PROVE  /\ Current(x) /\ x # e /\ x \notin Reactivity!Collect({Reactivity!ValueDep(e)})
               /\ x # Reactivity!ActiveEffect /\ x \in Reactivity!Effect
    <3>1. /\ x \in Reactivity!Effect /\ x # Reactivity!None /\ x \notin Reactivity!Running
          /\ x # Reactivity!ActiveEffect
        BY <1>2, <1>5, <1>6, <2>1, <2>8, Parameters DEF Current, ReactType
    <3>2. e \notin Evaluating(calls)
        BY <1>2, <1>15 DEF Calls, Shape, Sits, Evaluating
    <3>3. x # e
        BY <1>9, <1>15, <2>4, <2>8, <3>2 DEF Current
    <3>4. x \notin Pending(calls) /\ x \notin Reactivity!Collect({Reactivity!ValueDep(e)})
        BY <1>10, <2>4, <2>8, <3>3 DEF Current
    <3>5. Current(x)
        BY <1>9, <1>15, <2>1, <2>4, <2>8, <3>3, <3>4 DEF Current
    <3>6. QED
        BY <3>1, <3>3, <3>4, <3>5
  <2>9. ASSUME NEW x \in active, Current(x)', NEW o \in view[x]
        PROVE  /\ Reactivity!Fresh(o)' \/ Reactivity!MissedKeys(o)'
               /\ \A d \in AllDeps(o)' : <<d, x>> \in deps
    <3>1. /\ Reactivity!Fresh(o) \/ Reactivity!MissedKeys(o)
          /\ \A d \in AllDeps(o) : <<d, x>> \in deps
        BY <2>8, <2>9 DEF ReactInv, Seen
    <3>2. Reactivity!Fresh(o) => Reactivity!Fresh(o)'
      <4>1. CASE o.of = Reactivity!None
          BY <2>1, <4>1 DEF Reactivity!Fresh, Reactivity!Result
      <4>2. CASE o.of # Reactivity!None
        <5>1. o.of # e
          <6>1. SUFFICES ASSUME o.of = e PROVE FALSE
              OBVIOUS
          <6>2. <<Reactivity!ValueDep(e), x>> \in deps
              BY <4>2, <6>1, <2>9 DEF ReactInv, Tracked, SureDeps
          <6>3. QED
              BY <2>8, <2>9, <6>2 DEF Reactivity!Collect
        <5>2. QED
            BY <1>15, <2>1, <4>2, <5>1 DEF Reactivity!Fresh
      <4>3. QED
          BY <4>1, <4>2
    <3>3. QED
        BY <2>7, <3>1, <3>2
  <2>10. Tracked' /\ Seen'
      BY <2>1, <2>7, <2>9 DEF ReactInv, Tracked, Seen
  <2>11. QED
      BY <2>5, <2>6, <2>10 DEF ReactInv
<1>16. QED
  <2>1. <<>> \o r = r
      BY <1>9
  <2>2. e \in dirty => dirty \cup {e} = dirty
      OBVIOUS
  <2>3. QED
      BY <1>3, <1>12, <1>13, <1>14, <1>15, <2>1, <2>2

\* The invariant holds at the start, ...
LEMMA ReactInit == Reactivity!Init => ReactInv
<1> SUFFICES ASSUME Reactivity!Init PROVE ReactInv
    OBVIOUS
<1>1. /\ kind \in Kinds /\ DOMAIN content \subseteq Reactivity!Key
      /\ length = IF kind = "array" THEN Reactivity!Cardinality(DOMAIN content) ELSE 0
      /\ kind = "array" => DOMAIN content = 0..length - 1
      /\ active \subseteq Reactivity!Effect /\ deps = {} /\ dirty = active \cap Computed
      /\ queued = active \ Computed
      /\ shouldTrack = TRUE /\ trackStack = <<>> /\ calls = <<>>
      /\ view = [e \in Reactivity!Effect |-> {}] /\ excused = {}
    BY DEF Reactivity!Init
<1>2. length \in Nat /\ length <= MaxLen
  <2>1. CASE kind = "array"
    <3>1. MaxLen \in Nat /\ IsFiniteSet(Reactivity!Key) /\ Cardinality(Reactivity!Key) = MaxLen
        BY FS_Interval, Parameters DEF Reactivity!Key
    <3>2. /\ Reactivity!Cardinality(DOMAIN content) \in Nat
          /\ Reactivity!Cardinality(DOMAIN content) <= MaxLen
        BY <1>1, <3>1, SameCardinality, FS_Subset, FS_CardinalityType
    <3>3. QED
        BY <1>1, <2>1, <3>2
  <2>2. CASE kind # "array"
      BY <1>1, <2>2, Parameters
  <2>3. QED
      BY <2>1, <2>2
<1>3. ReactType
    BY <1>1, <1>2 DEF ReactType
<1>4. Calls
  <2>1. Balanced(<<>>, 0)
    <3> DEFINE d == [i \in 0..0 |-> 0]
    <3>1. d \in [0..0 -> Nat] /\ d[0] = 0
        OBVIOUS
    <3>2. Len(<<>>) = 0 /\ \A i \in 1..0 : FALSE
        OBVIOUS
    <3>3. QED
        BY <3>1, <3>2 DEF Balanced
  <2>2. QED
      BY <1>1, <2>1 DEF Calls, Shape, TopValue, TracksInTheEnd
<1>5. Tracked /\ Seen
    BY <1>1 DEF Tracked, Seen
<1>6. QED
    BY <1>3, <1>4, <1>5 DEF ReactInv

\* ... through a step of another part, ...
LEMMA ReactStutters == ReactInv /\ UNCHANGED Reactivity!vars => ReactInv'
<1> SUFFICES ASSUME ReactInv, UNCHANGED Reactivity!vars PROVE ReactInv'
    OBVIOUS
<1>1. UNCHANGED <<kind, content, length, deps, active, dirty, queued, shouldTrack, trackStack, calls,
                  view, excused>>
    BY DEF Reactivity!vars
<1>2. ReactType'
    BY <1>1 DEF ReactInv, ReactType, IsObservation, Reactivity!Reads
<1>3. Calls'
    BY <1>1 DEF ReactInv, Calls
<1>4. \A o : /\ SureDeps(o)' = SureDeps(o) /\ AllDeps(o)' = AllDeps(o)
             /\ Reactivity!Fresh(o)' = Reactivity!Fresh(o)
             /\ Reactivity!MissedKeys(o)' = Reactivity!MissedKeys(o)
    BY <1>1
       DEF SureDeps, AllDeps, Reactivity!Deps, Reactivity!IterateKey, Reactivity!Fresh,
           Reactivity!Result, Reactivity!MissedKeys
<1>5. \A x \in active : Current(x)' = Current(x)
    BY <1>1 DEF Current
<1>6. Tracked' /\ Seen'
    BY <1>1, <1>4, <1>5 DEF ReactInv, Tracked, Seen
<1>7. QED
    BY <1>2, <1>3, <1>6 DEF ReactInv

\* ... and through every step.
LEMMA ReactNext == ReactInv /\ [Reactivity!Next]_Reactivity!vars => ReactInv'
BY ClientWritesKeeps, RunWritesKeeps, RunEndsKeeps, MethodSetsLengthKeeps, MethodEndsKeeps,
   ComputedIsCleanKeeps, ComputedIsReadKeeps, TriggerRunsKeeps, QueuedRunsKeeps, StopKeeps,
   RunReadsComputedKeeps, RunReadsKeeps, ReactStutters DEF Reactivity!Next

\* What the run checks follows from it.
LEMMA ReactInvImplies ==
    ReactInv => Reactivity!NoStaleEffect /\ Reactivity!StoppedIsUntracked /\ Reactivity!TrackingRestored
<1> SUFFICES ASSUME ReactInv
             PROVE  Reactivity!NoStaleEffect /\ Reactivity!StoppedIsUntracked /\ Reactivity!TrackingRestored
    OBVIOUS
<1>1. Reactivity!StoppedIsUntracked
    BY DEF ReactInv, ReactType, Reactivity!StoppedIsUntracked
<1>2. Reactivity!TrackingRestored
  <2>1. SUFFICES ASSUME calls = <<>> PROVE shouldTrack /\ trackStack = <<>>
      BY DEF Reactivity!TrackingRestored
  <2>2. Balanced(<<>>, Len(trackStack)) /\ trackStack \in Seq(BOOLEAN)
      BY <2>1 DEF ReactInv, Calls, ReactType
  <2>3. Len(trackStack) = 0
      BY <2>2, NothingSaved
  <2>4. trackStack = <<>>
      BY <2>2, <2>3
  <2>5. QED
      BY <2>4 DEF ReactInv, Calls, TracksInTheEnd
<1>3. Reactivity!NoStaleEffect
  <2>1. SUFFICES ASSUME calls = <<>>, NEW e \in active \ (queued \cup dirty \cup excused)
                 PROVE  \A o \in view[e] : Reactivity!Fresh(o) \/ Reactivity!MissedKeys(o)
      BY DEF Reactivity!NoStaleEffect
  <2>2. Current(e)
      BY <2>1 DEF Current, Pending
  <2>3. QED
      BY <2>1, <2>2 DEF ReactInv, Seen
<1>4. QED
    BY <1>1, <1>2, <1>3

-----------------------------------------------------------------------------
(* The invariant of KeepAlive: it speaks of the runs in which the hooks    *)
(* have run before each render and no instance was taken for another.      *)

\* What the proofs use of the constants.
LEMMA KeepParameters == NoChild \notin Kept /\ Limit \subseteq Nat
BY UpdatesAssumption

\* The instance counts as this module does.
LEMMA KeptCardinality == \A S : KeepAlive!Cardinality(S) = Cardinality(S)
BY DEF KeepAlive!Cardinality, Cardinality

\* What KeepAlive and the renderer know, its instances, and the functions it queues.
Fields == {"tree", "cache", "keys", "current", "pendingKey", "include", "life", "off", "posts",
           "unmounted", "untidy", "revived", "failed"}
Instances(t) == 1..Len(t.life)
Effects ==
    {<<"prune">>, <<"cache">>} \cup {<<hook, i>> : hook \in {"activated", "deactivated"}, i \in Nat}

KeepType(t) ==
    /\ t.tree \in [child : Kept \cup {NoChild}, inst : Nat, keep : BOOLEAN]
    /\ t.cache \in [DOMAIN t.cache -> Instances(t)] /\ DOMAIN t.cache \subseteq Kept
    /\ t.keys \in [DOMAIN t.keys -> Nat] /\ DOMAIN t.keys \subseteq Kept
    /\ t.current \in Kept \cup {NoChild} /\ t.pendingKey \in Kept \cup {NoChild}
    /\ t.life \in Seq({"shown", "hidden", "gone"})
    /\ t.off \in Seq(BOOLEAN) /\ Len(t.off) = Len(t.life)
    /\ t.posts \in Seq(Effects)

\* The instance in the tree is the one that is shown.
Shown(t) ==
    /\ t.tree.inst = 0 <=> t.tree.child = NoChild
    /\ t.tree.inst # 0 => t.tree.inst \in Instances(t) /\ t.life[t.tree.inst] = "shown"
    /\ \A i \in Instances(t) : t.life[i] = "shown" => i = t.tree.inst

\* A cached child is put aside, or is the one in the tree; what is put aside is cached.
Cached(t) ==
    /\ \A c \in DOMAIN t.cache : IF t.cache[c] = t.tree.inst THEN c = t.tree.child
                                 ELSE t.life[t.cache[c]] = "hidden"
    /\ t.tree.keep /\ t.tree.child \in DOMAIN t.cache => t.cache[t.tree.child] = t.tree.inst
    /\ \A c, d \in DOMAIN t.cache : t.cache[c] = t.cache[d] => c = d
    /\ \A i \in Instances(t) : t.life[i] = "hidden" => \E c \in DOMAIN t.cache : t.cache[c] = i

\* Hooks still to come will set isDeactivated.
Hooks(t) ==
    \A i \in Instances(t) :
        /\ t.life[i] = "hidden" => t.off[i] \/ <<"deactivated", i>> \in KeepAlive!Range(t.posts)
        /\ t.life[i] = "shown" => ~t.off[i] \/ <<"activated", i>> \in KeepAlive!Range(t.posts)
        /\ <<"deactivated", i>> \in KeepAlive!Range(t.posts) => t.life[i] # "shown"
        /\ <<"activated", i>> \in KeepAlive!Range(t.posts) => t.life[i] # "hidden"

\* The keys are in the order of their last use, and what is in the cache or will be.
KeysAre(t, cs, n) ==
    /\ DOMAIN t.keys = cs
    /\ \A c \in cs : t.keys[c] < n
    /\ \A c, d \in cs : t.keys[c] = t.keys[d] => c = d
    /\ max > 0 => IsFiniteSet(cs) /\ Cardinality(cs) <= max
Keys(t, n) == KeysAre(t, DOMAIN t.cache \cup ({t.pendingKey} \ {NoChild}), n)

\* What is in the tree is kept if it is included, ...
Keeps(t) ==
    /\ t.current = t.tree.child
    /\ t.tree.keep <=> t.pendingKey # NoChild
    /\ t.pendingKey # NoChild => t.pendingKey = t.tree.child
    /\ t.tree.keep <=> KeepAlive!Included1(t, t.tree.child)
\* ... and so are all in the cache, when the watcher and the hook have run; the hook is
\* the last.
Done(t) ==
    /\ t.posts = <<>> => t.pendingKey \in DOMAIN t.cache \cup {NoChild}
    /\ t.posts # <<>> => t.posts[Len(t.posts)] = <<"cache">>
    /\ <<"prune">> \notin KeepAlive!Range(t.posts) => \A c \in DOMAIN t.cache : KeepAlive!Included1(t, c)

\* All of it, before the n-th render.
Lives(t, n) ==
    Shown(t) /\ Cached(t) /\ Hooks(t) /\ Keys(t, n) /\ Keeps(t) /\ Done(t)

\* ... while KeepAlive is mounted; afterwards no instance is left.
KeepInv ==
    /\ DOMAIN alive = Fields /\ max \in Nat /\ aliveRenders \in Nat
    /\ ~alive.untidy =>
          /\ KeepType(alive) /\ ~alive.revived /\ ~alive.failed
          /\ ~alive.unmounted => Lives(alive, aliveRenders)
          /\ alive.unmounted => alive.posts = <<>> /\ \A i \in Instances(alive) : alive.life[i] = "gone"

\* queuePostRenderEffect: what it changes.
LEMMA QueueIs ==
    ASSUME NEW t, DOMAIN t = Fields, NEW e
    PROVE  LET q == KeepAlive!Queue(t, e) IN
           /\ DOMAIN q = Fields /\ \A f \in Fields \ {"posts"} : q[f] = t[f]
           /\ q.posts = IF e \in KeepAlive!Range(t.posts) THEN t.posts ELSE Append(t.posts, e)
BY DEF KeepAlive!Queue, Fields

\* A sequence with one element more at the end,
LEMMA AppendRange ==
    ASSUME NEW S, NEW s \in Seq(S), NEW e
    PROVE  /\ KeepAlive!Range(Append(s, e)) = KeepAlive!Range(s) \cup {e}
           /\ Append(s, e)[Len(Append(s, e))] = e /\ Append(s, e) # <<>>
<1>1. /\ DOMAIN Append(s, e) = 1..Len(s) + 1 /\ DOMAIN s = 1..Len(s) /\ Len(s) \in Nat
      /\ Append(s, e)[Len(s) + 1] = e /\ \A i \in 1..Len(s) : Append(s, e)[i] = s[i]
      /\ Len(Append(s, e)) = Len(s) + 1
    OBVIOUS
<1>2. \A i \in 1..Len(s) + 1 : i \in 1..Len(s) \/ i = Len(s) + 1
    BY <1>1
<1>3. QED
    BY <1>1, <1>2 DEF KeepAlive!Range

\* and without its first.
LEMMA TailRange ==
    ASSUME NEW S, NEW s \in Seq(S), s # <<>>
    PROVE  /\ KeepAlive!Range(s) = KeepAlive!Range(Tail(s)) \cup {Head(s)} /\ Tail(s) \in Seq(S)
           /\ Head(s) \in S
           /\ Tail(s) # <<>> => Tail(s)[Len(Tail(s))] = s[Len(s)]
           /\ Tail(s) = <<>> => Head(s) = s[Len(s)]
<1>1. /\ DOMAIN Tail(s) = 1..Len(s) - 1 /\ DOMAIN s = 1..Len(s) /\ Len(s) \in Nat /\ Len(s) > 0
      /\ Head(s) = s[1] /\ \A i \in 1..Len(s) - 1 : Tail(s)[i] = s[i + 1]
      /\ Len(Tail(s)) = Len(s) - 1 /\ Tail(s) \in Seq(S) /\ Head(s) \in S
    OBVIOUS
<1>2. \A i \in 1..Len(s) : i = 1 \/ (i - 1 \in 1..Len(s) - 1 /\ i = (i - 1) + 1)
    BY <1>1
<1>3. KeepAlive!Range(s) \subseteq KeepAlive!Range(Tail(s)) \cup {Head(s)}
  <2>1. SUFFICES ASSUME NEW i \in 1..Len(s) PROVE s[i] \in KeepAlive!Range(Tail(s)) \cup {Head(s)}
      BY <1>1 DEF KeepAlive!Range
  <2>2. CASE i = 1
      BY <1>1, <2>2
  <2>3. CASE i - 1 \in 1..Len(s) - 1 /\ i = (i - 1) + 1
    <3>1. Tail(s)[i - 1] = s[i]
        BY <1>1, <2>3
    <3>2. QED
        BY <1>1, <2>3, <3>1 DEF KeepAlive!Range
  <2>4. QED
      BY <1>2, <2>2, <2>3
<1>4. KeepAlive!Range(Tail(s)) \cup {Head(s)} \subseteq KeepAlive!Range(s)
    BY <1>1 DEF KeepAlive!Range
<1>5. Tail(s) # <<>> => Tail(s)[Len(Tail(s))] = s[Len(s)]
    BY <1>1
<1>6. Tail(s) = <<>> => Head(s) = s[Len(s)]
  <2>1. SUFFICES ASSUME Tail(s) = <<>> PROVE Head(s) = s[Len(s)]
      OBVIOUS
  <2>2. Len(<<>>) = 0
      OBVIOUS
  <2>3. Len(s) = 1
    <3>1. Len(Tail(s)) = Len(<<>>)
        BY <2>1, Zenon
    <3>2. Len(s) - 1 = 0 /\ Len(s) \in Nat
        BY <1>1, <2>2, <3>1
    <3>3. QED
        BY <3>2
  <2>4. QED
      BY <1>1, <2>3
<1>7. QED
    BY <1>1, <1>3, <1>4, <1>5, <1>6

\* Nothing is in the empty sequence.
LEMMA EmptyRange == KeepAlive!Range(<<>>) = {}
BY DEF KeepAlive!Range

\* What pruneCacheEntry does to the records of a tidy KeepAlive.
LEMMA PruneIs ==
    ASSUME NEW t, DOMAIN t = Fields, KeepType(t), NEW cs
    PROVE  LET p == KeepAlive!PruneCacheEntries(t, cs)
               same == {c \in cs : KeepAlive!TypeOf(c) = KeepAlive!TypeOf(t.current)}
               gone == {t.cache[c] : c \in cs \ same}
           IN  /\ DOMAIN p = Fields
               /\ \A f \in Fields \ {"cache", "keys", "life", "tree", "untidy"} : p[f] = t[f]
               /\ p.tree = [t.tree EXCEPT !.keep = t.tree.keep /\ same = {}]
               /\ DOMAIN p.cache = DOMAIN t.cache \ cs
               /\ p.cache = [c \in DOMAIN p.cache |-> t.cache[c]]
               /\ DOMAIN p.keys = DOMAIN t.keys \ cs
               /\ p.keys = [c \in DOMAIN p.keys |-> t.keys[c]]
               /\ p.life = [i \in Instances(t) |-> IF i \in gone THEN "gone" ELSE t.life[i]]
               /\ p.untidy <=> t.untidy \/ \E c \in same : t.cache[c] # t.tree.inst
<1> DEFINE same == {c \in cs : KeepAlive!TypeOf(c) = KeepAlive!TypeOf(t.current)}
           gone == {t.cache[c] : c \in cs \ same}
           u == [t EXCEPT !.life = [i \in DOMAIN @ |-> IF i \in gone THEN "gone" ELSE @[i]],
                          !.tree.keep = @ /\ same = {},
                          !.untidy = @ \/ \E c \in same : t.cache[c] # t.tree.inst]
           p == KeepAlive!ForgetsEntries(u, cs)
<1>1. p = KeepAlive!PruneCacheEntries(t, cs)
    BY DEF KeepAlive!PruneCacheEntries
<1>2. /\ DOMAIN u = Fields
      /\ \A f \in Fields \ {"life", "tree", "untidy"} : u[f] = t[f]
      /\ u.tree = [t.tree EXCEPT !.keep = t.tree.keep /\ same = {}]
      /\ u.life = [i \in DOMAIN t.life |-> IF i \in gone THEN "gone" ELSE t.life[i]]
      /\ u.untidy = (t.untidy \/ \E c \in same : t.cache[c] # t.tree.inst)
    BY DEF Fields
<1> HIDE DEF u, gone, same
<1>3. /\ DOMAIN p = Fields
      /\ \A f \in Fields \ {"cache", "keys"} : p[f] = u[f]
      /\ p.cache = KeepAlive!Restrict(u.cache, DOMAIN u.cache \ cs)
      /\ p.keys = KeepAlive!Restrict(u.keys, DOMAIN u.keys \ cs)
    BY <1>2 DEF KeepAlive!ForgetsEntries, Fields
<1>4. u.cache = t.cache /\ u.keys = t.keys
    BY <1>2 DEF Fields
<1>5. /\ DOMAIN p.cache = DOMAIN t.cache \ cs /\ p.cache = [c \in DOMAIN p.cache |-> t.cache[c]]
      /\ DOMAIN p.keys = DOMAIN t.keys \ cs /\ p.keys = [c \in DOMAIN p.keys |-> t.keys[c]]
    BY <1>3, <1>4 DEF KeepAlive!Restrict
<1>6. DOMAIN t.life = Instances(t)
    BY DEF KeepType, Instances
<1>7. /\ p.tree = u.tree /\ p.life = u.life /\ p.untidy = u.untidy
      /\ \A f \in Fields \ {"cache", "keys", "life", "tree", "untidy"} : p[f] = t[f]
    BY <1>2, <1>3 DEF Fields
<1>8. QED
    BY <1>1, <1>2, <1>3, <1>5, <1>6, <1>7 DEF same, gone

\* What a render finds, and what it leaves before the tree is patched: no hook but the
\* watcher of the names is to come.
Ready(t) ==
    /\ DOMAIN t = Fields /\ KeepType(t) /\ Shown(t) /\ Cached(t)
    /\ ~t.untidy /\ ~t.revived /\ ~t.failed /\ ~t.unmounted
    /\ t.posts \in {<<>>, <<<<"prune">>>>}
    /\ \A i \in Instances(t) : /\ t.life[i] = "hidden" => t.off[i]
                               /\ t.life[i] = "shown" => ~t.off[i]
    /\ t.tree.keep <=> t.tree.child \in DOMAIN t.cache
    /\ <<"prune">> \notin KeepAlive!Range(t.posts) => \A c \in DOMAIN t.cache : KeepAlive!Included1(t, c)

\* The names and what a hurried render does, before the render function.
Told(include) == IF include = alive.include THEN alive
                 ELSE KeepAlive!Queue([alive EXCEPT !.include = include], <<"prune">>)
Begun(include) == [Told(include) EXCEPT !.untidy = @ \/ alive.posts # <<>>]

\* An orderly render finds the hooks run.
LEMMA ReadyToRender ==
    ASSUME KeepInv, ~alive.unmounted, NEW include, ~Begun(include).untidy
    PROVE  /\ Ready(Begun(include)) /\ Begun(include).current = Begun(include).tree.child
           /\ KeysAre(Begun(include), DOMAIN Begun(include).cache, aliveRenders)
<1> DEFINE given == Told(include)
           asked == Begun(include)
<1> DEFINE u == [alive EXCEPT !.include = include]
<1>1. DOMAIN alive = Fields
    BY DEF KeepInv
<1>2. DOMAIN u = Fields /\ u.include = include /\ \A f \in Fields \ {"include"} : u[f] = alive[f]
    BY <1>1 DEF Fields
<1> HIDE DEF u
<1>3. /\ DOMAIN given = Fields /\ \A f \in Fields \ {"include", "posts"} : given[f] = alive[f]
      /\ given.include = include
      /\ include = alive.include => given.posts = alive.posts
      /\ include # alive.include =>
            given.posts = IF <<"prune">> \in KeepAlive!Range(alive.posts) THEN alive.posts
                          ELSE Append(alive.posts, <<"prune">>)
  <2>1. CASE include = alive.include
      BY <1>1, <2>1 DEF Told
  <2>2. CASE include # alive.include
    <3>1. given = KeepAlive!Queue(u, <<"prune">>)
        BY <2>2 DEF u, Told
    <3>2. /\ DOMAIN given = Fields /\ \A f \in Fields \ {"posts"} : given[f] = u[f]
          /\ given.posts = IF <<"prune">> \in KeepAlive!Range(u.posts) THEN u.posts
                          ELSE Append(u.posts, <<"prune">>)
        BY <1>2, <3>1, QueueIs
    <3>3. u.posts = alive.posts
        BY <1>2 DEF Fields
    <3>4. QED
        BY <1>2, <2>2, <3>2, <3>3 DEF Fields
  <2>3. QED
      BY <2>1, <2>2
<1>4. /\ DOMAIN asked = Fields /\ \A f \in Fields \ {"untidy"} : asked[f] = given[f]
      /\ asked.untidy = (given.untidy \/ alive.posts # <<>>)
    BY <1>3 DEF Fields, Begun
<1> HIDE DEF given, asked
<1>5. /\ asked.tree = alive.tree /\ asked.cache = alive.cache /\ asked.keys = alive.keys
      /\ asked.life = alive.life
      /\ asked.off = alive.off /\ asked.current = alive.current
      /\ asked.pendingKey = alive.pendingKey
      /\ (asked.revived <=> alive.revived) /\ (asked.failed <=> alive.failed)
      /\ (asked.unmounted <=> alive.unmounted) /\ asked.include = include
      /\ asked.posts = given.posts
    BY <1>3, <1>4 DEF Fields
<1>6. ~alive.untidy /\ alive.posts = <<>>
    BY <1>3, <1>4 DEF Fields, asked
<1>7. KeepType(alive) /\ ~alive.revived /\ ~alive.failed /\ Lives(alive, aliveRenders)
    BY <1>6 DEF KeepInv
<1>8. asked.posts = IF include = alive.include THEN <<>> ELSE <<<<"prune">>>>
    BY <1>3, <1>5, <1>6, EmptyRange
<1>9. KeepType(asked)
  <2>1. asked.posts \in Seq(Effects)
    <3>1. <<"prune">> \in Effects
        BY DEF Effects
    <3>2. <<>> \in Seq(Effects) /\ <<<<"prune">>>> \in Seq(Effects)
        BY <3>1
    <3>3. asked.posts = <<>> \/ asked.posts = <<<<"prune">>>>
        BY <1>8
    <3>4. QED
        BY <3>2, <3>3
  <2>2. QED
      BY <1>5, <1>7, <2>1 DEF KeepType, Instances
<1>10. Shown(asked) /\ Cached(asked)
    BY <1>5, <1>7 DEF Lives, Shown, Cached, Instances
<1>11. \A i \in Instances(asked) : /\ asked.life[i] = "hidden" => asked.off[i]
                                   /\ asked.life[i] = "shown" => ~asked.off[i]
    BY <1>5, <1>6, <1>7, EmptyRange DEF Lives, Hooks, Instances
<1>12. alive.pendingKey \in DOMAIN alive.cache \cup {NoChild}
    BY <1>6, <1>7 DEF Lives, Done
<1>13. \A c \in DOMAIN alive.cache : KeepAlive!Included1(alive, c)
    BY <1>6, <1>7, EmptyRange DEF Lives, Done
<1>14. asked.tree.keep <=> asked.tree.child \in DOMAIN asked.cache
    BY <1>5, <1>7, <1>12, <1>13 DEF Lives, Keeps
<1>15. <<"prune">> \notin KeepAlive!Range(asked.posts) => \A c \in DOMAIN asked.cache : KeepAlive!Included1(asked, c)
  <2>1. include # alive.include => <<"prune">> \in KeepAlive!Range(asked.posts)
      BY <1>8 DEF KeepAlive!Range
  <2>2. QED
      BY <1>5, <1>13, <2>1 DEF KeepAlive!Included1
<1>16. KeysAre(asked, DOMAIN asked.cache, aliveRenders)
  <2>1. DOMAIN alive.cache \cup ({alive.pendingKey} \ {NoChild}) = DOMAIN alive.cache
      BY <1>12
  <2>2. KeysAre(alive, DOMAIN alive.cache, aliveRenders)
      BY <1>7, <2>1 DEF Lives, Keys
  <2>3. QED
      BY <1>5, <2>2 DEF KeysAre
<1>17. QED
    BY <1>4, <1>5, <1>7, <1>8, <1>9, <1>10, <1>11, <1>14, <1>15, <1>16
       DEF Ready, Lives, Keeps, asked

\* FreshestKey: a key more, or one that moves to the end.
LEMMA FreshKeeps ==
    ASSUME NEW t, Ready(t), KeysAre(t, DOMAIN t.cache, aliveRenders), aliveRenders \in Nat,
           max \in Nat,
           NEW child \in Kept, NEW f, f = KeepAlive!FreshestKey(t, child)
    PROVE  /\ DOMAIN f = Fields /\ \A x \in Fields \ {"keys"} : f[x] = t[x]
           /\ Ready(f) /\ f.keys \in [DOMAIN f.keys -> Nat]
           /\ DOMAIN f.keys = DOMAIN t.cache \cup {child} /\ f.keys[child] = aliveRenders
           /\ \A c \in DOMAIN t.cache \ {child} : f.keys[c] < aliveRenders /\ f.keys[c] = t.keys[c]
           /\ \A c, d \in DOMAIN f.keys : f.keys[c] = f.keys[d] => c = d
           /\ max > 0 => /\ IsFiniteSet(DOMAIN f.keys) /\ Cardinality(DOMAIN f.keys) \in Nat
                         /\ Cardinality(DOMAIN f.keys) <= max + 1
           /\ max > 0 /\ child \in DOMAIN t.cache => Cardinality(DOMAIN f.keys) <= max
<1>1. DOMAIN t = Fields /\ KeepType(t) /\ DOMAIN t.keys = DOMAIN t.cache
    BY DEF Ready, KeysAre
<1>2. /\ DOMAIN f = Fields /\ \A x \in Fields \ {"keys"} : f[x] = t[x]
      /\ f.keys = [c \in DOMAIN t.keys \cup {child} |-> IF c = child THEN aliveRenders ELSE t.keys[c]]
    BY <1>1 DEF KeepAlive!FreshestKey, KeepAlive!Put, Fields
<1>3. /\ DOMAIN f.keys = DOMAIN t.cache \cup {child} /\ f.keys[child] = aliveRenders
      /\ \A c \in DOMAIN t.cache \ {child} : f.keys[c] = t.keys[c]
    BY <1>1, <1>2
<1>4. /\ f.tree = t.tree /\ f.cache = t.cache /\ f.current = t.current
      /\ f.pendingKey = t.pendingKey
      /\ f.include = t.include /\ f.life = t.life /\ f.off = t.off /\ f.posts = t.posts
      /\ (f.unmounted <=> t.unmounted) /\ (f.untidy <=> t.untidy) /\ (f.revived <=> t.revived)
      /\ (f.failed <=> t.failed)
    BY <1>2 DEF Fields
<1>5. f.keys \in [DOMAIN f.keys -> Nat] /\ DOMAIN f.keys \subseteq Kept
    BY <1>1, <1>2, <1>3 DEF KeepType
<1>6. KeepType(f)
    BY <1>1, <1>4, <1>5 DEF KeepType, Instances
<1>7. Shown(f) /\ Cached(f)
    BY <1>4 DEF Ready, Shown, Cached, Instances
<1>8. Ready(f)
    BY <1>2, <1>4, <1>6, <1>7 DEF Ready, Instances, KeepAlive!Included1
<1>9. /\ \A c \in DOMAIN t.cache : t.keys[c] < aliveRenders /\ t.keys[c] \in Nat
      /\ \A c, d \in DOMAIN t.cache : t.keys[c] = t.keys[d] => c = d
    BY <1>1 DEF KeysAre, KeepType
<1>10. /\ \A c \in DOMAIN t.cache \ {child} : f.keys[c] < aliveRenders
       /\ \A c, d \in DOMAIN f.keys : f.keys[c] = f.keys[d] => c = d
    BY <1>3, <1>9
<1>11. ASSUME max > 0
       PROVE  /\ IsFiniteSet(DOMAIN f.keys) /\ Cardinality(DOMAIN f.keys) \in Nat
              /\ Cardinality(DOMAIN f.keys) <= max + 1
              /\ child \in DOMAIN t.cache => Cardinality(DOMAIN f.keys) <= max
  <2>1. IsFiniteSet(DOMAIN t.cache) /\ Cardinality(DOMAIN t.cache) <= max
      BY <1>11 DEF KeysAre
  <2>2. IsFiniteSet(DOMAIN t.cache \cup {child})
      BY <2>1, FS_AddElement
  <2>3. Cardinality(DOMAIN t.cache \cup {child}) =
            IF child \in DOMAIN t.cache THEN Cardinality(DOMAIN t.cache)
            ELSE Cardinality(DOMAIN t.cache) + 1
      BY <2>1, FS_AddElement
  <2>4. Cardinality(DOMAIN t.cache) \in Nat
      BY <2>1, FS_CardinalityType
  <2>5. QED
      BY <1>3, <2>1, <2>2, <2>3, <2>4
<1>12. QED
    BY <1>2, <1>3, <1>5, <1>8, <1>10, <1>11

\* The oldest of some keys.
LEMMA OldestIs ==
    ASSUME NEW keys, keys \in [DOMAIN keys -> Nat], DOMAIN keys # {}
    PROVE  KeepAlive!Oldest(keys) \in DOMAIN keys /\ \A d \in DOMAIN keys : keys[KeepAlive!Oldest(keys)] <= keys[d]
<1> DEFINE T == {keys[c] : c \in DOMAIN keys}
<1>1. T \subseteq Nat /\ T # {}
    OBVIOUS
<1>2. PICK x \in T : \A y \in T : x <= y
    BY <1>1, Least
<1>3. \E c \in DOMAIN keys : \A d \in DOMAIN keys : keys[c] <= keys[d]
    BY <1>2
<1>4. QED
    BY <1>3 DEF KeepAlive!Oldest

\* Some instances more that are gone.
LEMMA LifeIs ==
    ASSUME NEW s \in Seq({"shown", "hidden", "gone"}), NEW gone, NEW q,
           q = [i \in 1..Len(s) |-> IF i \in gone THEN "gone" ELSE s[i]]
    PROVE  q \in Seq({"shown", "hidden", "gone"}) /\ Len(q) = Len(s)
<1>1. \A i \in 1..Len(s) : s[i] \in {"shown", "hidden", "gone"}
    OBVIOUS
<1>2. q \in [1..Len(s) -> {"shown", "hidden", "gone"}]
    BY <1>1
<1>3. QED
    BY <1>2, Len(s) \in Nat

\* What pruneCacheEntry leaves, and what it changes.
Pruned(t, cs, p) ==
    /\ DOMAIN p = Fields /\ KeepType(p) /\ Shown(p) /\ Cached(p) /\ ~t.untidy
    /\ \A f \in Fields \ {"cache", "keys", "life", "tree", "untidy"} : p[f] = t[f]
    /\ p.tree.child = t.tree.child /\ p.tree.inst = t.tree.inst
    /\ p.tree.keep <=> t.tree.keep /\ t.tree.child \notin cs
    /\ DOMAIN p.cache = DOMAIN t.cache \ cs
    /\ \A c \in DOMAIN p.cache : p.cache[c] = t.cache[c]
    /\ DOMAIN p.keys = DOMAIN t.keys \ cs
    /\ \A c \in DOMAIN p.keys : p.keys[c] = t.keys[c]
    /\ Len(p.life) = Len(t.life)
    /\ \A i \in Instances(t) : p.life[i] \in {t.life[i], "gone"}

\* pruneCacheEntry keeps the rest of the cache as it was, and what is in the tree.
LEMMA PruneKeeps ==
    ASSUME NEW t, DOMAIN t = Fields, KeepType(t), Shown(t), Cached(t), t.current = t.tree.child,
           NEW cs, cs \subseteq DOMAIN t.cache, NEW p, p = KeepAlive!PruneCacheEntries(t, cs),
           ~p.untidy
    PROVE  Pruned(t, cs, p)
<1> DEFINE same == {c \in cs : KeepAlive!TypeOf(c) = KeepAlive!TypeOf(t.current)}
           gone == {t.cache[c] : c \in cs \ same}
<1>1. /\ DOMAIN p = Fields
      /\ \A f \in Fields \ {"cache", "keys", "life", "tree", "untidy"} : p[f] = t[f]
      /\ p.tree = [t.tree EXCEPT !.keep = t.tree.keep /\ same = {}]
      /\ DOMAIN p.cache = DOMAIN t.cache \ cs
      /\ p.cache = [c \in DOMAIN p.cache |-> t.cache[c]]
      /\ DOMAIN p.keys = DOMAIN t.keys \ cs
      /\ p.keys = [c \in DOMAIN p.keys |-> t.keys[c]]
      /\ p.life = [i \in Instances(t) |-> IF i \in gone THEN "gone" ELSE t.life[i]]
      /\ p.untidy <=> t.untidy \/ \E c \in same : t.cache[c] # t.tree.inst
    BY PruneIs
<1>2. same \subseteq cs /\ (t.tree.child \in cs => t.tree.child \in same)
    OBVIOUS
<1> HIDE DEF same
<1>3. \A c \in same : t.cache[c] = t.tree.inst /\ c = t.tree.child
    BY <1>1, <1>2 DEF Cached
<1>4. same = {} <=> t.tree.child \notin cs
    BY <1>2, <1>3
<1>5. \A i \in gone : i \in Instances(t) /\ t.life[i] = "hidden"
  <2>1. SUFFICES ASSUME NEW c \in cs \ same
                 PROVE  t.cache[c] \in Instances(t) /\ t.life[t.cache[c]] = "hidden"
      OBVIOUS
  <2>2. t.cache[c] \in Instances(t)
      BY DEF KeepType
  <2>3. t.cache[c] # t.tree.inst
      BY <1>2 DEF Cached
  <2>4. QED
      BY <2>2, <2>3 DEF Cached
<1>6. p.life \in Seq({"shown", "hidden", "gone"}) /\ Len(p.life) = Len(t.life)
    BY <1>1, LifeIs DEF KeepType, Instances
<1>7. \A i \in Instances(t) : p.life[i] = IF i \in gone THEN "gone" ELSE t.life[i]
    BY <1>1
<1>8. Instances(p) = Instances(t)
    BY <1>6 DEF Instances
<1>9. p.tree \in [child : Kept \cup {NoChild}, inst : Nat, keep : BOOLEAN]
      /\ p.tree.child = t.tree.child /\ p.tree.inst = t.tree.inst
      /\ (p.tree.keep <=> t.tree.keep /\ t.tree.child \notin cs)
    BY <1>1, <1>4 DEF KeepType
<1>10. /\ \A c \in DOMAIN p.cache : c \in DOMAIN t.cache /\ c \notin cs /\ p.cache[c] = t.cache[c]
       /\ \A c \in DOMAIN p.keys : c \in DOMAIN t.keys /\ c \notin cs /\ p.keys[c] = t.keys[c]
    BY <1>1
<1>11. /\ p.off = t.off /\ p.posts = t.posts /\ p.current = t.current
       /\ p.pendingKey = t.pendingKey
    BY <1>1 DEF Fields
<1>12. KeepType(p)
  <2>1. p.cache \in [DOMAIN p.cache -> Instances(p)] /\ DOMAIN p.cache \subseteq Kept
    <3>1. t.cache \in [DOMAIN t.cache -> Instances(p)] /\ DOMAIN t.cache \subseteq Kept
        BY <1>8 DEF KeepType
    <3>2. /\ DOMAIN p.cache \subseteq DOMAIN t.cache
          /\ p.cache = [c \in DOMAIN p.cache |-> t.cache[c]]
        BY <1>1
    <3>3. \A c \in DOMAIN p.cache : t.cache[c] \in Instances(p)
        BY <3>1, <3>2
    <3>4. QED
        BY <3>1, <3>2, <3>3
  <2>2. p.keys \in [DOMAIN p.keys -> Nat] /\ DOMAIN p.keys \subseteq Kept
    <3>1. t.keys \in [DOMAIN t.keys -> Nat] /\ DOMAIN t.keys \subseteq Kept
        BY DEF KeepType
    <3>2. DOMAIN p.keys \subseteq DOMAIN t.keys /\ p.keys = [c \in DOMAIN p.keys |-> t.keys[c]]
        BY <1>1
    <3>3. \A c \in DOMAIN p.keys : t.keys[c] \in Nat
        BY <3>1, <3>2
    <3>4. QED
        BY <3>1, <3>2, <3>3
  <2>3. QED
      BY <1>6, <1>9, <1>11, <2>1, <2>2 DEF KeepType
<1>13. Shown(p)
    BY <1>5, <1>7, <1>8, <1>9 DEF Shown
<1>14. Cached(p)
  <2>1. \A c, d \in DOMAIN p.cache : p.cache[c] = p.cache[d] => c = d
      BY <1>10 DEF Cached
  <2>2. p.tree.keep /\ p.tree.child \in DOMAIN p.cache => p.cache[p.tree.child] = p.tree.inst
      BY <1>9, <1>10 DEF Cached
  <2>3. ASSUME NEW c \in DOMAIN p.cache
        PROVE  IF p.cache[c] = p.tree.inst THEN c = p.tree.child ELSE p.life[p.cache[c]] = "hidden"
    <3>1. CASE p.cache[c] = p.tree.inst
        BY <1>9, <1>10, <3>1 DEF Cached
    <3>2. CASE p.cache[c] # p.tree.inst
      <4>1. t.cache[c] \in Instances(t) /\ t.life[t.cache[c]] = "hidden"
          BY <1>9, <1>10, <3>2 DEF Cached, KeepType
      <4>2. t.cache[c] \notin gone
          BY <1>10 DEF Cached
      <4>3. QED
          BY <1>7, <1>10, <3>2, <4>1, <4>2
    <3>3. QED
        BY <3>1, <3>2
  <2>4. ASSUME NEW i \in Instances(p), p.life[i] = "hidden"
        PROVE  \E c \in DOMAIN p.cache : p.cache[c] = i
    <3>1. i \in Instances(t) /\ i \notin gone /\ t.life[i] = "hidden"
        BY <1>7, <1>8, <2>4
    <3>2. PICK c \in DOMAIN t.cache : t.cache[c] = i
        BY <3>1 DEF Cached
    <3>3. c \notin same
      <4>1. c \in same => t.tree.inst = i
          BY <1>3, <3>2
      <4>2. t.tree.inst = i => t.tree.inst # 0
          BY <3>1 DEF Instances
      <4>3. QED
          BY <3>1, <4>1, <4>2 DEF Shown
    <3>4. c \notin cs
        BY <3>1, <3>2, <3>3
    <3>5. QED
        BY <1>1, <1>10, <3>2, <3>4
  <2>5. QED
      BY <2>1, <2>2, <2>3, <2>4 DEF Cached
<1>15. QED
    BY <1>1, <1>6, <1>7, <1>9, <1>10, <1>12, <1>13, <1>14 DEF Pruned

\* What no render leaves out, of what is tidy or not.
LEMMA PruneFields ==
    ASSUME NEW t, DOMAIN t = Fields, NEW cs, NEW p, p = KeepAlive!PruneCacheEntries(t, cs)
    PROVE  DOMAIN p = Fields /\ (t.untidy => p.untidy) /\ p.failed = t.failed
BY DEF KeepAlive!PruneCacheEntries, KeepAlive!ForgetsEntries, Fields

\* AddKey: the oldest key over the limit is in the cache, and goes.
LEMMA AddKeeps ==
    ASSUME NEW t, Ready(t), t.current = t.tree.child, KeysAre(t, DOMAIN t.cache, aliveRenders),
           aliveRenders \in Nat, max \in Nat, NEW child \in Kept, child \notin DOMAIN t.cache,
           NEW r, r = KeepAlive!AddKey(t, child), ~r.untidy
    PROVE  /\ Ready(r) /\ r.include = t.include /\ r.posts = t.posts
           /\ r.tree.child = t.tree.child /\ r.tree.inst = t.tree.inst
           /\ KeysAre(r, DOMAIN r.cache \cup {child}, aliveRenders + 1)
           /\ child \notin DOMAIN r.cache
<1> DEFINE f == KeepAlive!FreshestKey(t, child)
           o == KeepAlive!Oldest(f.keys)
<1>1. /\ DOMAIN f = Fields /\ \A x \in Fields \ {"keys"} : f[x] = t[x]
      /\ Ready(f) /\ f.keys \in [DOMAIN f.keys -> Nat]
      /\ DOMAIN f.keys = DOMAIN t.cache \cup {child} /\ f.keys[child] = aliveRenders
      /\ \A c \in DOMAIN t.cache \ {child} : f.keys[c] < aliveRenders /\ f.keys[c] = t.keys[c]
      /\ \A c, d \in DOMAIN f.keys : f.keys[c] = f.keys[d] => c = d
      /\ max > 0 => /\ IsFiniteSet(DOMAIN f.keys) /\ Cardinality(DOMAIN f.keys) \in Nat
                    /\ Cardinality(DOMAIN f.keys) <= max + 1
    BY FreshKeeps
<1>2. child \notin DOMAIN t.keys
    BY DEF KeysAre
<1> HIDE DEF f, o
<1>3. \A c \in DOMAIN f.keys : f.keys[c] < aliveRenders + 1
    BY <1>1
<1>4. f.cache = t.cache /\ f.tree = t.tree /\ f.include = t.include /\ f.posts = t.posts
      /\ f.current = t.current
    BY <1>1 DEF Fields
<1>5. CASE ~KeepAlive!OverLimit(f)
  <2>1. r = f
      BY <1>2, <1>5 DEF KeepAlive!AddKey, f
  <2>2. max > 0 => Cardinality(DOMAIN f.keys) <= max
      BY <1>1, <1>5, KeptCardinality DEF KeepAlive!OverLimit
  <2>3. QED
      BY <1>1, <1>3, <1>4, <2>1, <2>2 DEF KeysAre
<1>6. CASE KeepAlive!OverLimit(f)
  <2>1. max > 0 /\ Cardinality(DOMAIN f.keys) = max + 1 /\ IsFiniteSet(DOMAIN f.keys)
      BY <1>1, <1>6, KeptCardinality DEF KeepAlive!OverLimit
  <2>2. o \in DOMAIN f.keys /\ \A d \in DOMAIN f.keys : f.keys[o] <= f.keys[d]
      BY <1>1, OldestIs DEF o
  <2>3. o # child
    <3>1. SUFFICES ASSUME o = child PROVE FALSE
        OBVIOUS
    <3>2. DOMAIN f.keys = {child}
        BY <1>1, <2>2, <3>1
    <3>3. Cardinality(DOMAIN f.keys) = 1
        BY <3>2, FS_Singleton
    <3>4. QED
        BY <2>1, <3>3
  <2>4. o \in DOMAIN t.cache
      BY <1>1, <2>2, <2>3
  <2>5. r = KeepAlive!PruneCacheEntries(f, {o})
      BY <1>2, <1>6, <2>4 DEF KeepAlive!AddKey, f, o
  <2>6. DOMAIN f = Fields /\ KeepType(f) /\ Shown(f) /\ Cached(f) /\ f.current = f.tree.child
        /\ {o} \subseteq DOMAIN f.cache
      BY <1>1, <1>4, <2>4 DEF Ready
  <2>7. /\ DOMAIN r = Fields /\ KeepType(r) /\ Shown(r) /\ Cached(r)
        /\ \A x \in Fields \ {"cache", "keys", "life", "tree", "untidy"} : r[x] = f[x]
        /\ r.tree.child = f.tree.child /\ r.tree.inst = f.tree.inst
        /\ r.tree.keep <=> f.tree.keep /\ f.tree.child \notin {o}
        /\ DOMAIN r.cache = DOMAIN f.cache \ {o}
        /\ DOMAIN r.keys = DOMAIN f.keys \ {o}
        /\ \A c \in DOMAIN r.keys : r.keys[c] = f.keys[c]
        /\ Len(r.life) = Len(f.life)
        /\ \A i \in Instances(f) : r.life[i] \in {f.life[i], "gone"}
    <3>1. ~r.untidy
        OBVIOUS
    <3>2. Pruned(f, {o}, r)
        BY <2>5, <2>6, <3>1, PruneKeeps
    <3>3. QED
        BY <3>2 DEF Pruned
  <2>8. /\ r.include = f.include /\ r.posts = f.posts /\ r.off = f.off
        /\ (r.unmounted <=> f.unmounted) /\ (r.revived <=> f.revived) /\ (r.failed <=> f.failed)
      BY <2>7 DEF Fields
  <2>9. \A i \in Instances(r) : /\ r.life[i] = "hidden" => r.off[i]
                                /\ r.life[i] = "shown" => ~r.off[i]
    <3>1. Instances(r) = Instances(f)
        BY <2>7 DEF Instances
    <3>2. \A i \in Instances(f) : /\ f.life[i] = "hidden" => f.off[i]
                                  /\ f.life[i] = "shown" => ~f.off[i]
        BY <1>1 DEF Ready
    <3>3. QED
        BY <2>7, <2>8, <3>1, <3>2
  <2>10. r.tree.keep <=> r.tree.child \in DOMAIN r.cache
      BY <1>1, <2>7 DEF Ready
  <2>11. <<"prune">> \notin KeepAlive!Range(r.posts) => \A c \in DOMAIN r.cache : KeepAlive!Included1(r, c)
      BY <1>1, <2>7, <2>8 DEF Ready, KeepAlive!Included1
  <2>12. Ready(r)
      BY <1>1, <2>7, <2>8, <2>9, <2>10, <2>11 DEF Ready
  <2>13. DOMAIN r.keys = DOMAIN r.cache \cup {child}
      BY <1>1, <1>4, <2>3, <2>7
  <2>14. IsFiniteSet(DOMAIN r.keys) /\ Cardinality(DOMAIN r.keys) <= max
    <3>1. IsFiniteSet(DOMAIN f.keys \ {o})
              /\ Cardinality(DOMAIN f.keys \ {o}) = Cardinality(DOMAIN f.keys) - 1
        BY <2>1, <2>2, FS_RemoveElement
    <3>2. QED
        BY <2>1, <2>7, <3>1
  <2>15. KeysAre(r, DOMAIN r.cache \cup {child}, aliveRenders + 1)
    <3>1. \A c \in DOMAIN r.keys : c \in DOMAIN f.keys /\ r.keys[c] = f.keys[c]
        BY <2>7
    <3>2. QED
        BY <1>1, <1>3, <2>13, <2>14, <3>1 DEF KeysAre
  <2>16. child \notin DOMAIN r.cache
      BY <1>4, <2>7
  <2>17. QED
      BY <1>4, <2>7, <2>8, <2>12, <2>15, <2>16
<1>7. QED
    BY <1>5, <1>6

\* The functions that are queued differ.
LEMMA HooksDiffer ==
    ASSUME NEW i, NEW j
    PROVE  /\ <<"deactivated", i>> # <<"activated", j>>
           /\ <<"deactivated", i>> # <<"prune">> /\ <<"activated", i>> # <<"prune">>
           /\ <<"deactivated", i>> # <<"cache">> /\ <<"activated", i>> # <<"cache">>
           /\ <<"prune">> # <<"cache">>
           /\ <<"deactivated", i>> = <<"deactivated", j>> => i = j
           /\ <<"activated", i>> = <<"activated", j>> => i = j
<1>1. "deactivated" # "activated" /\ "prune" # "cache"
    OBVIOUS
<1>2. /\ \A e : Len(<<e>>) = 1
      /\ \A e, x : Len(<<e, x>>) = 2
    OBVIOUS
<1>3. <<"deactivated", i>> # <<"prune">> /\ <<"activated", i>> # <<"prune">>
      /\ <<"deactivated", i>> # <<"cache">> /\ <<"activated", i>> # <<"cache">>
    BY <1>2
<1>4. QED
    BY <1>1, <1>3

\* What queuePostRenderEffect changes.
IsQueued(t, e, q) ==
    /\ DOMAIN q = Fields /\ \A f \in Fields \ {"posts"} : q[f] = t[f]
    /\ q.posts \in Seq(Effects) /\ KeepAlive!Range(q.posts) = KeepAlive!Range(t.posts) \cup {e}
    /\ q.posts # <<>>

\* queuePostRenderEffect of a hook, with the type of what is queued.
LEMMA QueueKeeps ==
    ASSUME NEW t, DOMAIN t = Fields, t.posts \in Seq(Effects), NEW e \in Effects, NEW q,
           q = KeepAlive!Queue(t, e)
    PROVE  IsQueued(t, e, q)
<1>1. /\ DOMAIN q = Fields /\ \A f \in Fields \ {"posts"} : q[f] = t[f]
      /\ q.posts = IF e \in KeepAlive!Range(t.posts) THEN t.posts ELSE Append(t.posts, e)
    BY QueueIs
<1>2. CASE e \in KeepAlive!Range(t.posts)
    BY <1>1, <1>2, EmptyRange DEF IsQueued
<1>3. CASE e \notin KeepAlive!Range(t.posts)
    BY <1>1, <1>3, AppendRange DEF IsQueued
<1>4. QED
    BY <1>1, <1>2, <1>3 DEF IsQueued

\* What is left when the old child has gone from the tree.
Left(t) ==
    /\ DOMAIN t = Fields /\ KeepType(t)
    /\ \A i \in Instances(t) : t.life[i] # "shown"
    /\ \A c \in DOMAIN t.cache : t.life[t.cache[c]] = "hidden"
    /\ \A c, d \in DOMAIN t.cache : t.cache[c] = t.cache[d] => c = d
    /\ \A i \in Instances(t) : t.life[i] = "hidden" => \E c \in DOMAIN t.cache : t.cache[c] = i
    /\ \A i \in Instances(t) :
           t.life[i] = "hidden" => t.off[i] \/ <<"deactivated", i>> \in KeepAlive!Range(t.posts)
    /\ \A i \in Nat : <<"activated", i>> \notin KeepAlive!Range(t.posts)
    /\ \A i \in Nat : <<"deactivated", i>> \in KeepAlive!Range(t.posts) => i \in Instances(t)

\* The old child is put aside or unmounted.
LEMMA LeavesKeeps ==
    ASSUME NEW t, Ready(t), NEW l, l = KeepAlive!Leaves(t)
    PROVE  /\ Left(l) /\ \A f \in Fields \ {"life", "posts"} : l[f] = t[f]
           /\ Len(l.life) = Len(t.life)
           /\ \A i \in Instances(t) \ {t.tree.inst} : /\ l.life[i] = t.life[i]
                                                      /\ <<"deactivated", i>> \notin KeepAlive!Range(l.posts)
           /\ <<"prune">> \in KeepAlive!Range(l.posts) <=> <<"prune">> \in KeepAlive!Range(t.posts)
           /\ <<"cache">> \notin KeepAlive!Range(l.posts)
<1> DEFINE n == t.tree.inst
<1>1. DOMAIN t = Fields /\ KeepType(t) /\ Shown(t) /\ Cached(t)
      /\ (t.tree.keep <=> t.tree.child \in DOMAIN t.cache)
    BY DEF Ready
<1>2. /\ \A i : <<"activated", i>> \notin KeepAlive!Range(t.posts) /\ <<"deactivated", i>> \notin KeepAlive!Range(t.posts)
      /\ <<"cache">> \notin KeepAlive!Range(t.posts)
  <2>1. KeepAlive!Range(t.posts) \subseteq {<<"prune">>}
    <3>1. CASE t.posts = <<>>
        BY <3>1, EmptyRange
    <3>2. CASE t.posts = <<<<"prune">>>>
        BY <3>2 DEF KeepAlive!Range
    <3>3. QED
        BY <3>1, <3>2 DEF Ready
  <2>2. QED
      BY <2>1, HooksDiffer
<1>3. CASE n = 0
  <2>1. l = t
      BY <1>3 DEF KeepAlive!Leaves
  <2>2. \A i \in Instances(t) : t.life[i] # "shown"
      BY <1>1, <1>3 DEF Shown, Instances
  <2>3. \A c \in DOMAIN t.cache : t.life[t.cache[c]] = "hidden"
    <3>1. \A c \in DOMAIN t.cache : t.cache[c] # n
        BY <1>1, <1>3 DEF KeepType, Instances
    <3>2. QED
        BY <1>1, <3>1 DEF Cached
  <2>4. Left(l)
    <3>1. \A c, d \in DOMAIN t.cache : t.cache[c] = t.cache[d] => c = d
        BY <1>1 DEF Cached
    <3>2. \A i \in Instances(t) : t.life[i] = "hidden" => \E c \in DOMAIN t.cache : t.cache[c] = i
        BY <1>1 DEF Cached
    <3>3. \A i \in Instances(t) : t.life[i] = "hidden" => t.off[i]
        BY DEF Ready
    <3>4. QED
        BY <1>1, <1>2, <2>1, <2>2, <2>3, <3>1, <3>2, <3>3 DEF Left
  <2>5. QED
      BY <1>2, <2>1, <2>4
<1>4. CASE n # 0
  <2> DEFINE w == IF t.tree.keep THEN "hidden" ELSE "gone"
             u == [t EXCEPT !.life[n] = w]
  <2>1. n \in Instances(t) /\ t.life[n] = "shown" /\ \A i \in Instances(t) : t.life[i] = "shown" => i = n
      BY <1>1, <1>4 DEF Shown
  <2>2. /\ DOMAIN u = Fields /\ \A f \in Fields \ {"life"} : u[f] = t[f]
        /\ u.life = [t.life EXCEPT ![n] = w]
      BY <1>1 DEF Fields
  <2> HIDE DEF u, w
  <2>3. /\ t.tree.keep => l = KeepAlive!Queue(u, <<"deactivated", n>>)
        /\ ~t.tree.keep => l = u
    <3>1. CASE t.tree.keep
        BY <1>4, <3>1 DEF KeepAlive!Leaves, u, w
    <3>2. CASE ~t.tree.keep
        BY <1>4, <3>2 DEF KeepAlive!Leaves, KeepAlive!Unmount, u, w
    <3>3. QED
        BY <3>1, <3>2
  <2>4. u.posts = t.posts /\ u.posts \in Seq(Effects) /\ <<"deactivated", n>> \in Effects
      BY <1>1, <2>1, <2>2 DEF Fields, KeepType, Effects, Instances
  <2>5. /\ DOMAIN l = Fields /\ \A f \in Fields \ {"posts"} : l[f] = u[f]
        /\ l.posts \in Seq(Effects)
        /\ KeepAlive!Range(l.posts) = KeepAlive!Range(t.posts) \cup (IF t.tree.keep THEN {<<"deactivated", n>>} ELSE {})
    <3>1. CASE t.tree.keep
      <4>1. l = KeepAlive!Queue(u, <<"deactivated", n>>) /\ DOMAIN u = Fields
          BY <2>2, <2>3, <3>1
      <4>2. /\ DOMAIN l = Fields /\ \A f \in Fields \ {"posts"} : l[f] = u[f]
            /\ l.posts \in Seq(Effects)
            /\ KeepAlive!Range(l.posts) = KeepAlive!Range(u.posts) \cup {<<"deactivated", n>>}
        <5>1. IsQueued(u, <<"deactivated", n>>, l)
            BY <2>4, <4>1, QueueKeeps
        <5>2. QED
            BY <5>1 DEF IsQueued
      <4>3. QED
          BY <2>4, <3>1, <4>2
    <3>2. CASE ~t.tree.keep
        BY <2>2, <2>3, <2>4, <3>2
    <3>3. QED
        BY <3>1, <3>2
  <2>6. /\ l.tree = t.tree /\ l.cache = t.cache /\ l.keys = t.keys /\ l.current = t.current
        /\ l.pendingKey = t.pendingKey /\ l.off = t.off /\ l.life = [t.life EXCEPT ![n] = w]
        /\ \A f \in Fields \ {"life", "posts"} : l[f] = t[f]
      BY <2>2, <2>5 DEF Fields
  <2>7. /\ l.life \in Seq({"shown", "hidden", "gone"}) /\ Len(l.life) = Len(t.life)
        /\ \A i \in Instances(t) : l.life[i] = IF i = n THEN w ELSE t.life[i]
    <3>1. t.life \in Seq({"shown", "hidden", "gone"}) /\ w \in {"shown", "hidden", "gone"}
        BY <1>1 DEF KeepType, w
    <3>2. QED
        BY <2>1, <2>6, <3>1 DEF Instances
  <2>8. Instances(l) = Instances(t)
      BY <2>7 DEF Instances
  <2>9. KeepType(l)
      BY <1>1, <2>5, <2>6, <2>7, <2>8 DEF KeepType
  <2>10. \A i \in Instances(l) : l.life[i] # "shown"
      BY <2>1, <2>7, <2>8 DEF w
  <2>11. \A i : /\ <<"activated", i>> \notin KeepAlive!Range(l.posts)
                /\ <<"deactivated", i>> \in KeepAlive!Range(l.posts) <=> t.tree.keep /\ i = n
      BY <1>2, <2>5, HooksDiffer
  <2>12. \A c \in DOMAIN l.cache : l.life[l.cache[c]] = "hidden"
    <3>1. SUFFICES ASSUME NEW c \in DOMAIN t.cache PROVE l.life[t.cache[c]] = "hidden"
        BY <2>6
    <3>2. t.cache[c] \in Instances(t)
        BY <1>1 DEF KeepType
    <3>3. CASE t.cache[c] = n
      <4>1. t.tree.keep
          BY <1>1, <3>3 DEF Cached
      <4>2. QED
          BY <2>7, <3>2, <3>3, <4>1 DEF w
    <3>4. CASE t.cache[c] # n
        BY <1>1, <2>7, <3>2, <3>4 DEF Cached
    <3>5. QED
        BY <3>3, <3>4
  <2>13. ASSUME NEW i \in Instances(l), l.life[i] = "hidden"
         PROVE  /\ \E c \in DOMAIN l.cache : l.cache[c] = i
                /\ l.off[i] \/ <<"deactivated", i>> \in KeepAlive!Range(l.posts)
    <3>1. CASE i = n
      <4>1. t.tree.keep
          BY <2>7, <2>8, <2>13, <3>1 DEF w
      <4>2. t.tree.child \in DOMAIN t.cache /\ t.cache[t.tree.child] = n
          BY <1>1, <4>1 DEF Cached
      <4>3. QED
        <5>1. <<"deactivated", i>> \in KeepAlive!Range(l.posts)
            BY <2>11, <3>1, <4>1
        <5>2. t.tree.child \in DOMAIN l.cache /\ l.cache[t.tree.child] = i
            BY <2>6, <3>1, <4>2
        <5>3. QED
            BY <5>1, <5>2
    <3>2. CASE i # n
      <4>1. t.life[i] = "hidden" /\ i \in Instances(t)
          BY <2>7, <2>8, <2>13, <3>2
      <4>2. QED
          BY <1>1, <2>6, <4>1 DEF Ready, Cached
    <3>3. QED
        BY <3>1, <3>2
  <2>14. \A c, d \in DOMAIN l.cache : l.cache[c] = l.cache[d] => c = d
      BY <1>1, <2>6 DEF Cached
  <2>15. Left(l)
      BY <2>1, <2>5, <2>8, <2>9, <2>10, <2>11, <2>12, <2>13, <2>14 DEF Left
  <2>16. /\ <<"prune">> \in KeepAlive!Range(l.posts) <=> <<"prune">> \in KeepAlive!Range(t.posts)
         /\ <<"cache">> \notin KeepAlive!Range(l.posts)
      BY <1>2, <2>5, HooksDiffer
  <2>17. QED
      BY <2>6, <2>7, <2>11, <2>15, <2>16
<1>5. QED
    BY <1>3, <1>4

\* What the render function hands to the patch.
Asked(t, child, keep, kept) ==
    /\ Ready(t) /\ t.current = child
    /\ keep \in BOOLEAN /\ (keep <=> t.pendingKey # NoChild) /\ (keep => t.pendingKey = child)
    /\ keep <=> KeepAlive!Included1(t, child)
    /\ kept = IF keep /\ child \in DOMAIN t.cache THEN t.cache[child] ELSE 0

\* The tree after the patch.
Patched(t, child, keep, q) ==
    /\ DOMAIN q = Fields /\ KeepType(q) /\ Shown(q) /\ Cached(q) /\ Hooks(q)
    /\ \A f \in Fields \ {"tree", "life", "off", "posts", "revived"} : q[f] = t[f]
    /\ q.tree.child = child /\ (q.tree.keep <=> keep) /\ (q.revived <=> t.revived)
    /\ <<"prune">> \in KeepAlive!Range(q.posts) <=> <<"prune">> \in KeepAlive!Range(t.posts)
    /\ <<"cache">> \notin KeepAlive!Range(q.posts)

\* What Append adds, and what it leaves.
Longer(S, s, e, a) ==
    /\ a \in Seq(S) /\ Len(a) = Len(s) + 1 /\ Len(s) \in Nat
    /\ a[Len(s) + 1] = e /\ \A i \in 1..Len(s) : a[i] = s[i]
LEMMA AppendIs ==
    ASSUME NEW S, NEW s, s \in Seq(S), NEW e \in S
    PROVE  Longer(S, s, e, Append(s, e))
BY DEF Longer

\* The old child is put aside or unmounted, and the new one activated or mounted.
LEMMA EntersKeeps ==
    ASSUME NEW t, NEW child \in Kept \cup {NoChild}, NEW keep, NEW kept,
           Asked(t, child, keep, kept),
           child # t.tree.child, NEW q, q = KeepAlive!Enters(KeepAlive!Leaves(t), child, keep, kept)
    PROVE  Patched(t, child, keep, q)
<1> DEFINE l == KeepAlive!Leaves(t)
<1>1. /\ Left(l) /\ \A f \in Fields \ {"life", "posts"} : l[f] = t[f]
      /\ Len(l.life) = Len(t.life)
      /\ \A i \in Instances(t) \ {t.tree.inst} : /\ l.life[i] = t.life[i]
                                                 /\ <<"deactivated", i>> \notin KeepAlive!Range(l.posts)
      /\ <<"prune">> \in KeepAlive!Range(l.posts) <=> <<"prune">> \in KeepAlive!Range(t.posts)
      /\ <<"cache">> \notin KeepAlive!Range(l.posts)
    BY LeavesKeeps DEF Asked
<1> HIDE DEF l
<1>2. /\ l.cache = t.cache /\ l.off = t.off /\ l.keys = t.keys /\ l.current = t.current
      /\ l.pendingKey = t.pendingKey /\ (l.revived <=> t.revived)
    BY <1>1 DEF Fields
<1>3. /\ DOMAIN l = Fields /\ KeepType(l) /\ l.posts \in Seq(Effects)
      /\ \A i \in Nat : <<"activated", i>> \notin KeepAlive!Range(l.posts)
      /\ \A i \in Nat : <<"deactivated", i>> \in KeepAlive!Range(l.posts) => i \in Instances(l)
    BY <1>1 DEF Left, KeepType
<1>4. CASE child = NoChild
  <2>1. q = [l EXCEPT !.tree = KeepAlive!VNode(NoChild, 0, FALSE)] /\ ~keep
      BY <1>4 DEF KeepAlive!Enters, l, Asked, KeepAlive!Included1
  <2>2. DOMAIN q = Fields /\ q.tree = KeepAlive!VNode(NoChild, 0, FALSE) /\ \A f \in Fields \ {"tree"} : q[f] = l[f]
      BY <1>3, <2>1 DEF Fields
  <2>3. /\ q.cache = l.cache /\ q.off = l.off /\ q.keys = l.keys /\ q.current = l.current
        /\ q.pendingKey = l.pendingKey /\ (q.revived <=> l.revived) /\ q.life = l.life
        /\ q.posts = l.posts
      BY <2>2 DEF Fields
  <2>4. q.tree.child = NoChild /\ q.tree.inst = 0 /\ ~q.tree.keep
      BY <2>2 DEF KeepAlive!VNode
  <2>5. KeepType(q)
      BY <1>3, <2>2, <2>3 DEF KeepType, Instances, KeepAlive!VNode
  <2>6. Shown(q)
      BY <1>1, <2>3, <2>4 DEF Shown, Left, Instances
  <2>7. Cached(q)
    <3>1. \A c \in DOMAIN l.cache : l.cache[c] # 0
        BY <1>3 DEF KeepType, Instances
    <3>2. QED
        BY <1>1, <2>3, <2>4, <3>1 DEF Cached, Left, Instances
  <2>8. Hooks(q)
    <3>1. SUFFICES ASSUME NEW i \in Instances(l)
                   PROVE  /\ l.life[i] # "shown"
                          /\ <<"activated", i>> \notin KeepAlive!Range(l.posts)
                          /\ l.life[i] = "hidden" => l.off[i] \/ <<"deactivated", i>> \in KeepAlive!Range(l.posts)
        BY <2>3 DEF Hooks, Instances
    <3>2. i \in Nat
        BY DEF Instances
    <3>3. QED
        BY <1>1, <1>3, <3>2 DEF Left
  <2>9. QED
      BY <1>1, <1>2, <1>4, <2>1, <2>2, <2>3, <2>4, <2>5, <2>6, <2>7, <2>8
         DEF Patched, Fields
<1>5. CASE child # NoChild /\ kept # 0
  <2> DEFINE u == [l EXCEPT !.tree = KeepAlive!VNode(child, kept, keep), !.life[kept] = "shown",
                            !.revived = @ \/ l.life[kept] = "gone"]
  <2>1. keep /\ child \in DOMAIN t.cache /\ kept = t.cache[child]
      BY <1>5 DEF Asked
  <2>2. kept \in Instances(l) /\ l.life[kept] = "hidden"
      BY <1>1, <1>2, <1>3, <2>1 DEF Left, KeepType
  <2>3. kept # t.tree.inst /\ Instances(t) = Instances(l)
      BY <1>1, <2>1 DEF Asked, Ready, Cached, Instances
  <2>4. q = KeepAlive!Queue(u, <<"activated", kept>>)
      BY <1>5 DEF KeepAlive!Enters, l
  <2>5. /\ DOMAIN u = Fields /\ \A f \in Fields \ {"tree", "life", "revived"} : u[f] = l[f]
        /\ u.tree = KeepAlive!VNode(child, kept, keep)
        /\ u.life = [l.life EXCEPT ![kept] = "shown"]
        /\ u.revived = (l.revived \/ l.life[kept] = "gone")
      BY <1>3 DEF Fields
  <2> HIDE DEF u
  <2>6. IsQueued(u, <<"activated", kept>>, q)
    <3>1. u.posts \in Seq(Effects)
        BY <1>3, <2>5 DEF Fields
    <3>2. <<"activated", kept>> \in Effects
        BY <2>2 DEF Effects, Instances
    <3>3. QED
        BY <2>4, <2>5, <3>1, <3>2, QueueKeeps
  <2>7. /\ DOMAIN q = Fields /\ \A f \in Fields \ {"tree", "life", "revived", "posts"} : q[f] = l[f]
        /\ q.tree = KeepAlive!VNode(child, kept, keep)
        /\ q.life = [l.life EXCEPT ![kept] = "shown"]
        /\ (q.revived <=> l.revived)
        /\ q.posts \in Seq(Effects)
        /\ KeepAlive!Range(q.posts) = KeepAlive!Range(l.posts) \cup {<<"activated", kept>>}
      BY <2>2, <2>5, <2>6 DEF Fields, IsQueued
  <2>8. /\ q.cache = l.cache /\ q.off = l.off /\ q.keys = l.keys /\ q.current = l.current
        /\ q.pendingKey = l.pendingKey
        /\ q.tree.child = child /\ q.tree.inst = kept /\ q.tree.keep = keep
      BY <2>7 DEF Fields, KeepAlive!VNode
  <2>9. /\ q.life \in Seq({"shown", "hidden", "gone"}) /\ Len(q.life) = Len(l.life)
        /\ \A i \in Instances(l) : q.life[i] = IF i = kept THEN "shown" ELSE l.life[i]
    <3>1. l.life \in Seq({"shown", "hidden", "gone"})
        BY <1>3 DEF KeepType
    <3>2. QED
        BY <2>2, <2>7, <3>1 DEF Instances
  <2>10. Instances(q) = Instances(l)
      BY <2>9 DEF Instances
  <2>11. KeepType(q)
    <3>1. q.tree \in [child : Kept \cup {NoChild}, inst : Nat, keep : BOOLEAN]
      <4>1. keep \in BOOLEAN /\ kept \in Nat
          BY <2>2 DEF Instances, Asked
      <4>2. QED
          BY <2>7, <4>1 DEF KeepAlive!VNode
    <3>2. QED
        BY <1>3, <2>7, <2>8, <2>9, <2>10, <3>1 DEF KeepType
  <2>12. Shown(q)
    <3>1. kept # 0
        BY <1>5
    <3>2. QED
        BY <1>1, <1>5, <2>2, <2>8, <2>9, <2>10 DEF Shown, Left
  <2>13. Cached(q)
    <3>1. \A c, d \in DOMAIN q.cache : q.cache[c] = q.cache[d] => c = d
        BY <1>1, <2>8 DEF Left
    <3>2. q.cache[child] = q.tree.inst /\ child \in DOMAIN q.cache
        BY <1>2, <2>1, <2>8
    <3>3. ASSUME NEW c \in DOMAIN q.cache, q.cache[c] # q.tree.inst PROVE q.life[q.cache[c]] = "hidden"
      <4>1. l.cache[c] \in Instances(l) /\ l.life[l.cache[c]] = "hidden"
          BY <1>1, <1>3, <2>8 DEF Left, KeepType
      <4>2. QED
          BY <2>8, <2>9, <3>3, <4>1
    <3>4. ASSUME NEW i \in Instances(q), q.life[i] = "hidden" PROVE \E c \in DOMAIN q.cache : q.cache[c] = i
      <4>1. l.life[i] = "hidden" /\ i \in Instances(l)
          BY <2>9, <2>10, <3>4
      <4>2. QED
          BY <1>1, <2>8, <4>1 DEF Left
    <3>5. QED
        BY <2>8, <3>1, <3>2, <3>3, <3>4 DEF Cached
  <2>14. /\ \A i \in Nat : <<"activated", i>> \in KeepAlive!Range(q.posts) <=> i = kept
         /\ \A i \in Nat : <<"deactivated", i>> \in KeepAlive!Range(q.posts)
                          <=> <<"deactivated", i>> \in KeepAlive!Range(l.posts)
         /\ <<"prune">> \in KeepAlive!Range(q.posts) <=> <<"prune">> \in KeepAlive!Range(l.posts)
         /\ <<"cache">> \notin KeepAlive!Range(q.posts)
      BY <1>1, <1>3, <2>7, HooksDiffer
  <2>15. Hooks(q)
    <3>1. SUFFICES ASSUME NEW i \in Instances(l)
                   PROVE  /\ q.life[i] = "hidden" => q.off[i] \/ <<"deactivated", i>> \in KeepAlive!Range(q.posts)
                          /\ q.life[i] = "shown" => ~q.off[i] \/ <<"activated", i>> \in KeepAlive!Range(q.posts)
                          /\ <<"deactivated", i>> \in KeepAlive!Range(q.posts) => q.life[i] # "shown"
                          /\ <<"activated", i>> \in KeepAlive!Range(q.posts) => q.life[i] # "hidden"
        BY <2>10 DEF Hooks
    <3>2. i \in Nat
        BY DEF Instances
    <3>3. CASE i = kept
      <4>1. <<"deactivated", kept>> \notin KeepAlive!Range(l.posts)
          BY <1>1, <2>2, <2>3
      <4>2. QED
          BY <2>2, <2>9, <2>14, <3>2, <3>3, <4>1
    <3>4. CASE i # kept
      <4>1. /\ l.life[i] # "shown"
            /\ l.life[i] = "hidden" => l.off[i] \/ <<"deactivated", i>> \in KeepAlive!Range(l.posts)
          BY <1>1 DEF Left
      <4>2. QED
          BY <2>8, <2>9, <2>14, <3>2, <3>4, <4>1
    <3>5. QED
        BY <3>3, <3>4
  <2>16. \A f \in Fields \ {"tree", "life", "off", "posts", "revived"} : q[f] = t[f]
      BY <1>1, <2>7
  <2>17. q.tree.child = child /\ (q.tree.keep <=> keep) /\ (q.revived <=> t.revived)
      BY <1>2, <2>7, <2>8
  <2>18. QED
      BY <1>1, <2>7, <2>11, <2>12, <2>13, <2>14, <2>15, <2>16, <2>17 DEF Patched
<1>6. CASE child # NoChild /\ kept = 0
  <2> DEFINE n == Len(l.life) + 1
  <2>1. q = [l EXCEPT !.tree = KeepAlive!VNode(child, n, keep), !.life = Append(@, "shown"), !.off = Append(@, FALSE)]
      BY <1>6 DEF KeepAlive!Enters, l
  <2>2. /\ DOMAIN q = Fields /\ \A f \in Fields \ {"tree", "life", "off"} : q[f] = l[f]
        /\ q.tree = KeepAlive!VNode(child, n, keep) /\ q.life = Append(l.life, "shown")
        /\ q.off = Append(l.off, FALSE)
      BY <1>3, <2>1 DEF Fields
  <2>3. /\ q.cache = l.cache /\ q.posts = l.posts /\ q.keys = l.keys /\ q.current = l.current
        /\ q.pendingKey = l.pendingKey /\ (q.revived <=> l.revived)
        /\ q.tree.child = child /\ q.tree.inst = n /\ q.tree.keep = keep
    <3> HIDE DEF n
    <3>1. q.tree.child = child /\ q.tree.inst = n /\ q.tree.keep = keep
        BY <2>2 DEF KeepAlive!VNode
    <3>2. QED
        BY <2>2, <3>1 DEF Fields
  <2>4. /\ q.life \in Seq({"shown", "hidden", "gone"}) /\ Len(q.life) = n /\ q.life[n] = "shown"
        /\ q.off \in Seq(BOOLEAN) /\ Len(q.off) = n /\ q.off[n] = FALSE
        /\ \A i \in Instances(l) : q.life[i] = l.life[i] /\ q.off[i] = l.off[i]
        /\ n \in Nat /\ n > 0
    <3>1. /\ l.life \in Seq({"shown", "hidden", "gone"}) /\ l.off \in Seq(BOOLEAN)
          /\ Len(l.off) = Len(l.life)
        BY <1>3 DEF KeepType
    <3>2. /\ q.life \in Seq({"shown", "hidden", "gone"}) /\ Len(q.life) = n
          /\ q.life[n] = "shown"
          /\ \A i \in Instances(l) : q.life[i] = l.life[i]
          /\ n \in Nat /\ n > 0
        BY <2>2, <3>1, AppendIs DEF Longer, Instances
    <3>3. /\ q.off \in Seq(BOOLEAN) /\ Len(q.off) = n /\ q.off[n] = FALSE
          /\ \A i \in Instances(l) : q.off[i] = l.off[i]
      <4>1. FALSE \in BOOLEAN
          OBVIOUS
      <4>2. Longer(BOOLEAN, l.off, FALSE, q.off)
          BY <2>2, <3>1, <4>1, AppendIs
      <4>3. QED
          BY <3>1, <4>2 DEF Instances, Longer
    <3>4. QED
        BY <3>2, <3>3
  <2>5. Instances(q) = Instances(l) \cup {n} /\ n \notin Instances(l) /\ \A i \in Instances(l) : i \in Nat /\ i # 0
      BY <2>4 DEF Instances
  <2> HIDE DEF n
  <2>6. KeepType(q)
    <3>1. q.tree \in [child : Kept \cup {NoChild}, inst : Nat, keep : BOOLEAN]
        BY <2>2, <2>4 DEF KeepAlive!VNode, Asked
    <3>2. q.cache \in [DOMAIN q.cache -> Instances(q)] /\ DOMAIN q.cache \subseteq Kept
        BY <1>3, <2>3, <2>5 DEF KeepType
    <3>3. QED
        BY <1>3, <2>3, <2>4, <3>1, <3>2 DEF KeepType
  <2>7. Shown(q)
      BY <1>1, <1>6, <2>3, <2>4, <2>5 DEF Shown, Left
  <2>8. \A c \in DOMAIN q.cache : q.cache[c] \in Instances(l) /\ q.cache[c] # n /\ q.life[q.cache[c]] = "hidden"
    <3>1. \A c \in DOMAIN l.cache : l.cache[c] \in Instances(l) /\ l.life[l.cache[c]] = "hidden"
        BY <1>1, <1>3 DEF Left, KeepType
    <3>2. QED
        BY <2>3, <2>4, <2>5, <3>1
  <2>9. Cached(q)
    <3>1. \A c, d \in DOMAIN q.cache : q.cache[c] = q.cache[d] => c = d
        BY <1>1, <2>3 DEF Left
    <3>2. ~(q.tree.keep /\ q.tree.child \in DOMAIN q.cache)
      <4>1. keep /\ child \in DOMAIN t.cache => kept \in Instances(t)
          BY DEF Asked, Ready, KeepType
      <4>2. QED
          BY <1>2, <1>6, <2>3, <4>1 DEF Instances
    <3>3. ASSUME NEW i \in Instances(q), q.life[i] = "hidden" PROVE \E c \in DOMAIN q.cache : q.cache[c] = i
      <4>1. l.life[i] = "hidden" /\ i \in Instances(l)
          BY <2>4, <2>5, <3>3
      <4>2. QED
          BY <1>1, <2>3, <4>1 DEF Left
    <3>4. QED
        BY <2>3, <2>8, <3>1, <3>2, <3>3 DEF Cached
  <2>10. Hooks(q)
    <3>1. SUFFICES ASSUME NEW i \in Instances(q)
                   PROVE  /\ q.life[i] = "hidden" => q.off[i] \/ <<"deactivated", i>> \in KeepAlive!Range(q.posts)
                          /\ q.life[i] = "shown" => ~q.off[i] \/ <<"activated", i>> \in KeepAlive!Range(q.posts)
                          /\ <<"deactivated", i>> \in KeepAlive!Range(q.posts) => q.life[i] # "shown"
                          /\ <<"activated", i>> \in KeepAlive!Range(q.posts) => q.life[i] # "hidden"
        BY DEF Hooks
    <3>2. i \in Nat /\ <<"activated", i>> \notin KeepAlive!Range(q.posts)
        BY <1>3, <2>3, <2>4, <2>5
    <3>3. CASE i = n
      <4>1. <<"deactivated", n>> \notin KeepAlive!Range(q.posts)
          BY <1>3, <2>3, <2>4, <2>5
      <4>2. QED
          BY <2>4, <3>2, <3>3, <4>1
    <3>4. CASE i \in Instances(l)
      <4>1. /\ l.life[i] # "shown"
            /\ l.life[i] = "hidden" => l.off[i] \/ <<"deactivated", i>> \in KeepAlive!Range(l.posts)
          BY <1>1, <3>4 DEF Left
      <4>2. QED
          BY <2>3, <2>4, <3>2, <3>4, <4>1
    <3>5. QED
        BY <2>5, <3>3, <3>4
  <2>11. QED
      BY <1>1, <1>2, <2>2, <2>3, <2>6, <2>7, <2>9, <2>10 DEF Patched, Fields
<1>7. QED
    BY <1>4, <1>5, <1>6

\* A fresh key changes the keys.
LEMMA FreshFields ==
    ASSUME NEW t, DOMAIN t = Fields, NEW key, NEW f, f = KeepAlive!FreshestKey(t, key)
    PROVE  DOMAIN f = Fields /\ f.untidy = t.untidy /\ f.failed = t.failed
BY DEF KeepAlive!FreshestKey, Fields

\* ... and AddKey leaves untidy what was.
LEMMA AddFields ==
    ASSUME NEW t, DOMAIN t = Fields, NEW key, NEW r, r = KeepAlive!AddKey(t, key)
    PROVE  DOMAIN r = Fields /\ (t.untidy => r.untidy)
<1> DEFINE f == IF key \in DOMAIN t.keys THEN t ELSE KeepAlive!FreshestKey(t, key)
<1>1. DOMAIN f = Fields /\ f.untidy = t.untidy
    BY FreshFields
<1> HIDE DEF f
<1>2. \/ r = f \/ r = [f EXCEPT !.failed = TRUE]
      \/ r = KeepAlive!PruneCacheEntries(f, {KeepAlive!Oldest(f.keys)})
    BY DEF KeepAlive!AddKey, f
<1>3. CASE r = f
    BY <1>1, <1>3
<1>4. CASE r = [f EXCEPT !.failed = TRUE]
    BY <1>1, <1>4 DEF Fields
<1>5. CASE r = KeepAlive!PruneCacheEntries(f, {KeepAlive!Oldest(f.keys)})
    BY <1>1, <1>5, PruneFields
<1>6. QED
    BY <1>2, <1>3, <1>4, <1>5

\* What the patch leaves alone.
Untouched(t, q) ==
    DOMAIN q = Fields /\ \A f \in Fields \ {"tree", "life", "off", "posts", "revived"} : q[f] = t[f]

\* patch changes the tree, the instances and the queue:
LEMMA LeavesFields ==
    ASSUME NEW t, DOMAIN t = Fields
    PROVE  Untouched(t, KeepAlive!Leaves(t))
<1> DEFINE i == t.tree.inst
           u == [t EXCEPT !.life[i] = "hidden"]
<1>1. Untouched(t, t) /\ Untouched(t, KeepAlive!Unmount(t, i))
    BY DEF Untouched, KeepAlive!Unmount, Fields
<1>2. DOMAIN u = Fields /\ Untouched(t, u)
    BY DEF Untouched, Fields
<1>3. KeepAlive!Leaves(t) \in {t, KeepAlive!Unmount(t, i), KeepAlive!Queue(u, <<"deactivated", i>>)}
    BY DEF KeepAlive!Leaves
<1> HIDE DEF u
<1>4. Untouched(t, KeepAlive!Queue(u, <<"deactivated", i>>))
    BY <1>2, QueueIs DEF Untouched
<1>5. QED
    BY <1>1, <1>3, <1>4

\* the rest it leaves alone, tidy or not.
LEMMA PatchFields ==
    ASSUME NEW t, DOMAIN t = Fields, NEW child, NEW keep, NEW kept
    PROVE  Untouched(t, KeepAlive!Patch(t, child, keep, kept))
<1>1. CASE child = t.tree.child
  <2>1. KeepAlive!Patch(t, child, keep, kept) = [t EXCEPT !.tree.keep = keep]
      BY <1>1 DEF KeepAlive!Patch
  <2>2. QED
      BY <2>1 DEF Untouched, Fields
<1>2. CASE child # t.tree.child
  <2> DEFINE l == KeepAlive!Leaves(t)
             u == [l EXCEPT !.tree = KeepAlive!VNode(child, kept, keep), !.life[kept] = "shown",
                            !.revived = @ \/ l.life[kept] = "gone"]
             m == [l EXCEPT !.tree = KeepAlive!VNode(child, Len(l.life) + 1, keep),
                            !.life = Append(@, "shown"), !.off = Append(@, FALSE)]
             o == [l EXCEPT !.tree = KeepAlive!VNode(NoChild, 0, FALSE)]
  <2>1. KeepAlive!Patch(t, child, keep, kept) \in {o, m, KeepAlive!Queue(u, <<"activated", kept>>)}
      BY <1>2 DEF KeepAlive!Patch, KeepAlive!Enters
  <2>2. Untouched(t, l)
      BY LeavesFields
  <2> HIDE DEF l
  <2>3. DOMAIN u = Fields /\ Untouched(t, u)
      BY <2>2 DEF Untouched, Fields
  <2>4. Untouched(t, o) /\ Untouched(t, m)
      BY <2>2 DEF Untouched, Fields
  <2> HIDE DEF u, m, o
  <2>5. Untouched(t, KeepAlive!Queue(u, <<"activated", kept>>))
      BY <2>3, QueueIs DEF Untouched
  <2>6. QED
      BY <2>1, <2>4, <2>5
<1>3. QED
    BY <1>1, <1>2

\* The same child stays; another one takes its place.
LEMMA PatchKeeps ==
    ASSUME NEW t, NEW child \in Kept \cup {NoChild}, NEW keep, NEW kept,
           Asked(t, child, keep, kept),
           NEW q, q = KeepAlive!Patch(t, child, keep, kept)
    PROVE  Patched(t, child, keep, q)
<1>1. CASE child # t.tree.child
  <2>1. q = KeepAlive!Enters(KeepAlive!Leaves(t), child, keep, kept)
      BY <1>1 DEF KeepAlive!Patch
  <2>2. QED
      BY <1>1, <2>1, EntersKeeps
<1>2. CASE child = t.tree.child
  <2>1. /\ Ready(t) /\ DOMAIN t = Fields /\ KeepType(t) /\ Shown(t) /\ Cached(t)
        /\ keep \in BOOLEAN
      BY DEF Asked, Ready
  <2>2. q = [t EXCEPT !.tree.keep = keep]
      BY <1>2 DEF KeepAlive!Patch
  <2>3. /\ DOMAIN q = Fields /\ \A f \in Fields \ {"tree"} : q[f] = t[f]
        /\ q.tree = [t.tree EXCEPT !.keep = keep]
      BY <2>1, <2>2 DEF Fields
  <2>4. /\ q.tree \in [child : Kept \cup {NoChild}, inst : Nat, keep : BOOLEAN]
        /\ q.tree.child = child /\ q.tree.inst = t.tree.inst /\ (q.tree.keep <=> keep)
      BY <1>2, <2>1, <2>3 DEF KeepType
  <2>5. /\ q.cache = t.cache /\ q.off = t.off /\ q.keys = t.keys /\ q.current = t.current
        /\ q.pendingKey = t.pendingKey /\ (q.revived <=> t.revived) /\ q.life = t.life
        /\ q.posts = t.posts
      BY <2>3 DEF Fields
  <2>6. KeepType(q)
      BY <2>1, <2>4, <2>5 DEF KeepType, Instances
  <2>7. Shown(q)
      BY <1>2, <2>1, <2>4, <2>5 DEF Shown, Instances
  <2>8. Cached(q)
    <3>1. t.tree.keep <=> t.tree.child \in DOMAIN t.cache
        BY <2>1 DEF Ready
    <3>2. QED
        BY <1>2, <2>1, <2>4, <2>5, <3>1 DEF Cached, Instances
  <2>9. /\ \A i : <<"activated", i>> \notin KeepAlive!Range(t.posts) /\ <<"deactivated", i>> \notin KeepAlive!Range(t.posts)
        /\ <<"cache">> \notin KeepAlive!Range(t.posts)
    <3>1. KeepAlive!Range(t.posts) \subseteq {<<"prune">>}
      <4>1. CASE t.posts = <<>>
          BY <4>1, EmptyRange
      <4>2. CASE t.posts = <<<<"prune">>>>
          BY <4>2 DEF KeepAlive!Range
      <4>3. QED
          BY <2>1, <4>1, <4>2 DEF Ready
    <3>2. QED
        BY <3>1, HooksDiffer
  <2>10. Hooks(q)
    <3>1. \A i \in Instances(t) : /\ t.life[i] = "hidden" => t.off[i]
                                  /\ t.life[i] = "shown" => ~t.off[i]
        BY <2>1 DEF Ready
    <3>2. QED
        BY <2>5, <2>9, <3>1 DEF Hooks, Instances
  <2>11. QED
      BY <2>3, <2>4, <2>5, <2>6, <2>7, <2>8, <2>9, <2>10 DEF Patched
<1>3. QED
    BY <1>1, <1>2

\* A tree that was patched, and the hook that keeps the child.
LEMMA PatchLives ==
    ASSUME NEW t, NEW child, NEW keep, NEW kept, Asked(t, child, keep, kept), NEW n,
           KeysAre(t, DOMAIN t.cache \cup ({t.pendingKey} \ {NoChild}), n),
           NEW q, Patched(t, child, keep, q), NEW z, z = KeepAlive!Queue(q, <<"cache">>)
    PROVE  /\ DOMAIN z = Fields /\ KeepType(z) /\ Lives(z, n)
           /\ ~z.untidy /\ ~z.revived /\ ~z.failed /\ ~z.unmounted
<1>1. /\ DOMAIN q = Fields /\ KeepType(q) /\ Shown(q) /\ Cached(q) /\ Hooks(q)
      /\ \A f \in Fields \ {"tree", "life", "off", "posts", "revived"} : q[f] = t[f]
      /\ q.tree.child = child /\ (q.tree.keep <=> keep) /\ (q.revived <=> t.revived)
      /\ <<"prune">> \in KeepAlive!Range(q.posts) <=> <<"prune">> \in KeepAlive!Range(t.posts)
      /\ <<"cache">> \notin KeepAlive!Range(q.posts)
    BY DEF Patched
<1>2. /\ DOMAIN z = Fields /\ \A f \in Fields \ {"posts"} : z[f] = q[f]
      /\ z.posts = Append(q.posts, <<"cache">>)
    BY <1>1, QueueIs
<1>3. q.posts \in Seq(Effects) /\ <<"cache">> \in Effects
    BY <1>1 DEF KeepType, Effects
<1>4. /\ z.posts \in Seq(Effects)
      /\ KeepAlive!Range(z.posts) = KeepAlive!Range(q.posts) \cup {<<"cache">>}
      /\ z.posts # <<>> /\ z.posts[Len(z.posts)] = <<"cache">>
  <2> DEFINE a == Append(q.posts, <<"cache">>)
  <2>1. a \in Seq(Effects)
      BY <1>3
  <2>2. /\ KeepAlive!Range(a) = KeepAlive!Range(q.posts) \cup {<<"cache">>}
        /\ a[Len(a)] = <<"cache">> /\ a # <<>>
      BY <1>3, AppendRange
  <2> HIDE DEF a
  <2>3. z.posts = a
      BY <1>2 DEF a
  <2>4. QED
      BY <2>1, <2>2, <2>3
<1>5. /\ z.tree = q.tree /\ z.life = q.life /\ z.off = q.off /\ z.cache = t.cache
      /\ z.keys = t.keys
      /\ z.cache = q.cache /\ z.keys = q.keys /\ z.current = q.current
      /\ z.pendingKey = q.pendingKey
      /\ z.current = t.current /\ z.pendingKey = t.pendingKey /\ z.include = t.include
      /\ (z.untidy <=> t.untidy) /\ (z.revived <=> t.revived) /\ (z.failed <=> t.failed)
      /\ (z.unmounted <=> t.unmounted)
    BY <1>1, <1>2 DEF Fields
<1>6. KeepType(z)
    BY <1>1, <1>4, <1>5 DEF KeepType, Instances
<1>7. Shown(z) /\ Cached(z)
    BY <1>1, <1>5 DEF Shown, Cached, Instances
<1>8. Hooks(z)
  <2>1. \A i : /\ <<"activated", i>> \in KeepAlive!Range(z.posts) <=> <<"activated", i>> \in KeepAlive!Range(q.posts)
               /\ <<"deactivated", i>> \in KeepAlive!Range(z.posts) <=> <<"deactivated", i>> \in KeepAlive!Range(q.posts)
      BY <1>4, HooksDiffer
  <2>2. QED
      BY <1>1, <1>5, <2>1 DEF Hooks, Instances
<1>9. Keys(z, n)
    BY <1>5 DEF Keys, KeysAre
<1>10. Keeps(z)
    BY <1>1, <1>5 DEF Keeps, Asked, KeepAlive!Included1
<1>11. Done(z)
  <2>1. <<"prune">> \notin KeepAlive!Range(z.posts) => \A c \in DOMAIN z.cache : KeepAlive!Included1(z, c)
      BY <1>1, <1>4, <1>5 DEF Asked, Ready, KeepAlive!Included1
  <2>2. QED
      BY <1>4, <2>1 DEF Done
<1>12. QED
    BY <1>2, <1>5, <1>6, <1>7, <1>8, <1>9, <1>10, <1>11 DEF Asked, Ready, Lives

\* A render leaves untidy what was.
LEMMA RenderFields ==
    ASSUME NEW t, DOMAIN t = Fields, NEW child, NEW q, q = KeepAlive!RenderChild(t, child)
    PROVE  DOMAIN q = Fields /\ (t.untidy => q.untidy)
<1> DEFINE u(x, key) == [x EXCEPT !.current = child, !.pendingKey = key]
<1>1. \A x, key : DOMAIN x = Fields => DOMAIN u(x, key) = Fields /\ u(x, key).untidy = x.untidy
    BY DEF Fields
<1> HIDE DEF u
<1>2. CASE ~KeepAlive!Included1(t, child)
  <2>1. q = KeepAlive!Patch(u(t, NoChild), child, FALSE, 0)
      BY <1>2 DEF KeepAlive!RenderChild, u
  <2>2. DOMAIN u(t, NoChild) = Fields /\ u(t, NoChild).untidy = t.untidy
      BY <1>1
  <2>3. QED
    <3>1. Untouched(u(t, NoChild), q)
        BY <2>1, <2>2, PatchFields
    <3>2. QED
        BY <2>2, <3>1 DEF Untouched, Fields
<1>3. CASE KeepAlive!Included1(t, child)
  <2> DEFINE r == IF child \in DOMAIN t.cache THEN KeepAlive!FreshestKey(t, child) ELSE KeepAlive!AddKey(t, child)
             kept == IF child \in DOMAIN t.cache THEN t.cache[child] ELSE 0
  <2>1. q = KeepAlive!Patch(u(r, child), child, TRUE, kept)
      BY <1>3 DEF KeepAlive!RenderChild, u
  <2>2. DOMAIN r = Fields /\ (t.untidy => r.untidy)
      BY FreshFields, AddFields
  <2> HIDE DEF r, kept
  <2>3. DOMAIN u(r, child) = Fields /\ u(r, child).untidy = r.untidy
      BY <1>1, <2>2
  <2>4. QED
    <3>1. Untouched(u(r, child), q)
        BY <2>1, <2>3, PatchFields
    <3>2. QED
        BY <2>2, <2>3, <3>1 DEF Untouched, Fields
<1>4. QED
    BY <1>2, <1>3

\* The render function and the patch, when all is tidy.
LEMMA RenderLives ==
    ASSUME NEW t, Ready(t), t.current = t.tree.child, KeysAre(t, DOMAIN t.cache, aliveRenders),
           aliveRenders \in Nat, max \in Nat, NoChild \notin Kept, NEW child \in Kept \cup {NoChild},
           NEW q, q = KeepAlive!RenderChild(t, child), ~q.untidy, NEW z,
           z = KeepAlive!Queue(q, <<"cache">>)
    PROVE  /\ ~q.failed
           /\ DOMAIN z = Fields /\ KeepType(z) /\ Lives(z, aliveRenders + 1)
           /\ ~z.untidy /\ ~z.revived /\ ~z.failed /\ ~z.unmounted
<1> DEFINE u(x, key) == [x EXCEPT !.current = child, !.pendingKey = key]
<1>1. ASSUME NEW x, Ready(x), NEW key \in Kept \cup {NoChild}
      PROVE  /\ Ready(u(x, key)) /\ DOMAIN u(x, key) = Fields
             /\ u(x, key).current = child /\ u(x, key).pendingKey = key
             /\ \A f \in Fields \ {"current", "pendingKey"} : u(x, key)[f] = x[f]
  <2>1. DOMAIN x = Fields /\ KeepType(x)
      BY <1>1 DEF Ready
  <2>2. /\ DOMAIN u(x, key) = Fields /\ u(x, key).current = child /\ u(x, key).pendingKey = key
        /\ \A f \in Fields \ {"current", "pendingKey"} : u(x, key)[f] = x[f]
      BY <2>1 DEF Fields
  <2> HIDE DEF u
  <2> DEFINE y == u(x, key)
  <2>3. /\ y.tree = x.tree /\ y.cache = x.cache /\ y.keys = x.keys /\ y.include = x.include
        /\ y.life = x.life /\ y.off = x.off /\ y.posts = x.posts /\ (y.untidy <=> x.untidy)
        /\ (y.unmounted <=> x.unmounted) /\ (y.revived <=> x.revived) /\ (y.failed <=> x.failed)
      BY <2>2 DEF Fields
  <2>4. KeepType(y)
      BY <2>1, <2>2, <2>3 DEF KeepType, Instances
  <2>5. Shown(y) /\ Cached(y)
      BY <1>1, <2>3 DEF Ready, Shown, Cached, Instances
  <2> HIDE DEF y
  <2>6. DOMAIN y = Fields
      BY <2>2 DEF y
  <2>7. Ready(y)
      BY <1>1, <2>3, <2>4, <2>5, <2>6 DEF Ready, Instances, KeepAlive!Included1
  <2>8. QED
      BY <2>2, <2>7 DEF y
<1> HIDE DEF u
<1>2. ASSUME NEW x, Ready(x), NEW key \in Kept \cup {NoChild}, NEW keep, NEW kept,
             Asked(u(x, key), child, keep, kept),
             KeysAre(x, DOMAIN x.cache \cup ({key} \ {NoChild}), aliveRenders + 1),
             q = KeepAlive!Patch(u(x, key), child, keep, kept)
      PROVE  /\ ~q.failed
             /\ DOMAIN z = Fields /\ KeepType(z) /\ Lives(z, aliveRenders + 1)
             /\ ~z.untidy /\ ~z.revived /\ ~z.failed /\ ~z.unmounted
  <2> DEFINE y == u(x, key)
  <2>1. /\ DOMAIN y = Fields /\ y.pendingKey = key /\ y.cache = x.cache /\ y.keys = x.keys
        /\ ~y.failed
      BY <1>1, <1>2 DEF Fields, Ready
  <2>2. KeysAre(y, DOMAIN y.cache \cup ({y.pendingKey} \ {NoChild}), aliveRenders + 1)
      BY <1>2, <2>1 DEF KeysAre
  <2>3. Asked(y, child, keep, kept) /\ q = KeepAlive!Patch(y, child, keep, kept)
      BY <1>2
  <2> HIDE DEF y
  <2>4. Patched(y, child, keep, q)
      BY <2>3, PatchKeeps
  <2>5. ~q.failed
      BY <2>1, <2>4 DEF Patched, Fields
  <2>6. QED
      BY <2>2, <2>3, <2>4, <2>5, PatchLives
<1>3. CASE ~KeepAlive!Included1(t, child)
  <2>1. q = KeepAlive!Patch(u(t, NoChild), child, FALSE, 0)
      BY <1>3 DEF KeepAlive!RenderChild, u
  <2>2. Asked(u(t, NoChild), child, FALSE, 0)
    <3>1. /\ Ready(u(t, NoChild)) /\ u(t, NoChild).current = child
          /\ u(t, NoChild).pendingKey = NoChild /\ u(t, NoChild).include = t.include
        BY <1>1 DEF Fields
    <3>2. QED
        BY <1>3, <3>1 DEF Asked, KeepAlive!Included1
  <2>3. KeysAre(t, DOMAIN t.cache \cup ({NoChild} \ {NoChild}), aliveRenders + 1)
    <3>1. DOMAIN t.cache \cup ({NoChild} \ {NoChild}) = DOMAIN t.cache
        OBVIOUS
    <3>2. \A c \in DOMAIN t.cache : t.keys[c] \in Nat
        BY DEF Ready, KeepType, KeysAre
    <3>3. KeysAre(t, DOMAIN t.cache, aliveRenders + 1)
        BY <3>2 DEF KeysAre
    <3>4. QED
        BY <3>1, <3>3
  <2>4. QED
      BY <1>2, <2>1, <2>2, <2>3
<1>4. CASE KeepAlive!Included1(t, child)
  <2> DEFINE r == IF child \in DOMAIN t.cache THEN KeepAlive!FreshestKey(t, child) ELSE KeepAlive!AddKey(t, child)
             kept == IF child \in DOMAIN t.cache THEN t.cache[child] ELSE 0
  <2>1. child \in Kept /\ child # NoChild
      BY <1>4 DEF KeepAlive!Included1
  <2>2. q = KeepAlive!Patch(u(r, child), child, TRUE, kept)
      BY <1>4 DEF KeepAlive!RenderChild, u
  <2>3. ~r.untidy
    <3>1. DOMAIN r = Fields
        BY FreshFields, AddFields DEF Ready
    <3> HIDE DEF r, kept
    <3>2. DOMAIN u(r, child) = Fields /\ u(r, child).untidy = r.untidy
        BY <3>1 DEF u, Fields
    <3>3. q.untidy = u(r, child).untidy
      <4>1. Untouched(u(r, child), q)
          BY <2>2, <3>2, PatchFields
      <4>2. QED
          BY <4>1 DEF Untouched, Fields
    <3>4. QED
        BY <3>2, <3>3
  <2>4. /\ Ready(r) /\ r.include = t.include
        /\ KeysAre(r, DOMAIN r.cache \cup {child}, aliveRenders + 1)
        /\ kept = IF child \in DOMAIN r.cache THEN r.cache[child] ELSE 0
    <3>1. CASE child \in DOMAIN t.cache
      <4>1. r = KeepAlive!FreshestKey(t, child) /\ kept = t.cache[child]
          BY <3>1
      <4> HIDE DEF r, kept
      <4>2. /\ DOMAIN r = Fields /\ \A x \in Fields \ {"keys"} : r[x] = t[x]
            /\ Ready(r) /\ r.keys \in [DOMAIN r.keys -> Nat]
            /\ DOMAIN r.keys = DOMAIN t.cache \cup {child} /\ r.keys[child] = aliveRenders
            /\ \A c \in DOMAIN t.cache \ {child} : r.keys[c] < aliveRenders /\ r.keys[c] = t.keys[c]
            /\ \A c, d \in DOMAIN r.keys : r.keys[c] = r.keys[d] => c = d
            /\ max > 0 => /\ IsFiniteSet(DOMAIN r.keys) /\ Cardinality(DOMAIN r.keys) \in Nat
                          /\ Cardinality(DOMAIN r.keys) <= max + 1
            /\ max > 0 /\ child \in DOMAIN t.cache => Cardinality(DOMAIN r.keys) <= max
          BY <2>1, <4>1, FreshKeeps
      <4>3. r.cache = t.cache /\ r.include = t.include
          BY <4>2 DEF Fields
      <4>4. \A c \in DOMAIN r.keys : r.keys[c] < aliveRenders + 1
          BY <4>2
      <4>5. KeysAre(r, DOMAIN r.cache \cup {child}, aliveRenders + 1)
          BY <3>1, <4>2, <4>3, <4>4 DEF KeysAre
      <4>6. QED
          BY <3>1, <4>1, <4>2, <4>3, <4>5
    <3>2. CASE child \notin DOMAIN t.cache
      <4>1. r = KeepAlive!AddKey(t, child) /\ kept = 0
          BY <3>2
      <4> HIDE DEF r, kept
      <4>2. /\ Ready(r) /\ r.include = t.include
            /\ KeysAre(r, DOMAIN r.cache \cup {child}, aliveRenders + 1)
            /\ child \notin DOMAIN r.cache
          BY <2>1, <2>3, <3>2, <4>1, AddKeeps
      <4>3. QED
          BY <4>1, <4>2
    <3>3. QED
        BY <3>1, <3>2
  <2> HIDE DEF r, kept
  <2>5. Asked(u(r, child), child, TRUE, kept)
    <3>1. /\ Ready(u(r, child)) /\ u(r, child).current = child /\ u(r, child).pendingKey = child
          /\ u(r, child).include = t.include /\ u(r, child).cache = r.cache
        BY <1>1, <2>1, <2>4 DEF Fields
    <3>2. QED
        BY <1>4, <2>1, <2>4, <3>1 DEF Asked, KeepAlive!Included1
  <2>6. DOMAIN r.cache \cup ({child} \ {NoChild}) = DOMAIN r.cache \cup {child}
      BY <2>1
  <2>7. QED
      BY <1>2, <2>1, <2>2, <2>4, <2>5, <2>6
<1>5. QED
    BY <1>3, <1>4

\* No key over the limit is without an entry, when all is tidy: no render fails.
LEMMA AddSucceeds ==
    ASSUME NEW t, Ready(t), KeysAre(t, DOMAIN t.cache, aliveRenders), aliveRenders \in Nat,
           max \in Nat,
           NEW child \in Kept, child \notin DOMAIN t.cache
    PROVE  KeepAlive!AddKey(t, child).failed = t.failed
<1> DEFINE f == KeepAlive!FreshestKey(t, child)
           o == KeepAlive!Oldest(f.keys)
<1>1. /\ DOMAIN f = Fields /\ \A x \in Fields \ {"keys"} : f[x] = t[x]
      /\ f.keys \in [DOMAIN f.keys -> Nat]
      /\ DOMAIN f.keys = DOMAIN t.cache \cup {child} /\ f.keys[child] = aliveRenders
      /\ \A c \in DOMAIN t.cache \ {child} : f.keys[c] < aliveRenders
      /\ max > 0 => Cardinality(DOMAIN f.keys) \in Nat
    BY FreshKeeps
<1>2. child \notin DOMAIN t.keys
    BY DEF KeysAre
<1>3. KeepAlive!AddKey(t, child) = IF ~KeepAlive!OverLimit(f) THEN f
                         ELSE IF o \notin DOMAIN t.cache THEN [f EXCEPT !.failed = TRUE]
                         ELSE KeepAlive!PruneCacheEntries(f, {o})
    BY <1>2 DEF KeepAlive!AddKey
<1> HIDE DEF f, o
<1>4. f.failed = t.failed
    BY <1>1 DEF Fields
<1>5. ASSUME KeepAlive!OverLimit(f) PROVE o \in DOMAIN t.cache
  <2>1. o \in DOMAIN f.keys /\ \A d \in DOMAIN f.keys : f.keys[o] <= f.keys[d]
      BY <1>1, OldestIs DEF o
  <2>2. SUFFICES ASSUME o = child PROVE FALSE
      BY <1>1, <2>1
  <2>3. DOMAIN f.keys = {child}
      BY <1>1, <2>1, <2>2
  <2>4. Cardinality(DOMAIN f.keys) = 1
      BY <2>3, FS_Singleton
  <2>5. QED
      BY <1>5, <2>4, KeptCardinality DEF KeepAlive!OverLimit
<1>6. KeepAlive!PruneCacheEntries(f, {o}).failed = f.failed
    BY <1>1, PruneFields
<1>7. QED
    BY <1>3, <1>4, <1>5, <1>6

\* ... and so none fails.
LEMMA RenderSucceeds ==
    ASSUME NEW t, Ready(t), KeysAre(t, DOMAIN t.cache, aliveRenders), aliveRenders \in Nat,
           max \in Nat,
           NoChild \notin Kept, NEW child \in Kept \cup {NoChild}
    PROVE  ~KeepAlive!RenderChild(t, child).failed
<1> DEFINE u(x, key) == [x EXCEPT !.current = child, !.pendingKey = key]
           q == KeepAlive!RenderChild(t, child)
<1>1. \A x, key : DOMAIN x = Fields => DOMAIN u(x, key) = Fields /\ u(x, key).failed = x.failed
    BY DEF Fields
<1>2. DOMAIN t = Fields /\ ~t.failed
    BY DEF Ready
<1> HIDE DEF u, q
<1>3. CASE ~KeepAlive!Included1(t, child)
  <2>1. q = KeepAlive!Patch(u(t, NoChild), child, FALSE, 0)
      BY <1>3 DEF KeepAlive!RenderChild, u, q
  <2>2. DOMAIN u(t, NoChild) = Fields /\ u(t, NoChild).failed = t.failed
      BY <1>1, <1>2
  <2>3. Untouched(u(t, NoChild), q)
      BY <2>1, <2>2, PatchFields
  <2>4. QED
      BY <1>2, <2>2, <2>3 DEF Untouched, Fields, q
<1>4. CASE KeepAlive!Included1(t, child)
  <2> DEFINE r == IF child \in DOMAIN t.cache THEN KeepAlive!FreshestKey(t, child) ELSE KeepAlive!AddKey(t, child)
             kept == IF child \in DOMAIN t.cache THEN t.cache[child] ELSE 0
  <2>1. q = KeepAlive!Patch(u(r, child), child, TRUE, kept)
      BY <1>4 DEF KeepAlive!RenderChild, u, q
  <2>2. child \in Kept
      BY <1>4 DEF KeepAlive!Included1
  <2>3. DOMAIN r = Fields /\ r.failed = t.failed
    <3>1. CASE child \in DOMAIN t.cache
        BY <1>2, <3>1, FreshFields
    <3>2. CASE child \notin DOMAIN t.cache
        BY <1>2, <2>2, <3>2, AddFields, AddSucceeds
    <3>3. QED
        BY <3>1, <3>2
  <2> HIDE DEF r, kept
  <2>4. DOMAIN u(r, child) = Fields /\ u(r, child).failed = r.failed
      BY <1>1, <2>3
  <2>5. Untouched(u(r, child), q)
      BY <2>1, <2>4, PatchFields
  <2>6. QED
      BY <1>2, <2>3, <2>4, <2>5 DEF Untouched, Fields, q
<1>5. QED
    BY <1>3, <1>4

\* A render preserves the invariant,
LEMMA RenderKeeps ==
    ASSUME KeepInv, NEW child \in Kept \cup {NoChild}, NEW include \in Included,
           KeepAlive!Render(child, include)
    PROVE  KeepInv'
<1> DEFINE asked == Begun(include)
           rendered == KeepAlive!RenderChild(asked, child)
<1>1. /\ alive' = IF rendered.failed THEN [asked EXCEPT !.failed = TRUE] ELSE KeepAlive!Queue(rendered, <<"cache">>)
      /\ ~alive.unmounted /\ aliveRenders' = aliveRenders + 1 /\ max' = max
    BY DEF KeepAlive!Render, Begun, Told
<1>2. DOMAIN alive = Fields /\ max \in Nat /\ aliveRenders \in Nat
    BY DEF KeepInv
<1>3. DOMAIN Told(include) = Fields /\ Told(include).untidy = alive.untidy
  <2> DEFINE u == [alive EXCEPT !.include = include]
  <2>1. DOMAIN u = Fields /\ u.untidy = alive.untidy
      BY <1>2 DEF Fields
  <2> HIDE DEF u
  <2>2. /\ DOMAIN KeepAlive!Queue(u, <<"prune">>) = Fields
        /\ KeepAlive!Queue(u, <<"prune">>).untidy = u.untidy
      BY <2>1, QueueIs DEF Fields
  <2>3. QED
      BY <1>2, <2>1, <2>2 DEF u, Told
<1>5. DOMAIN asked = Fields /\ (alive.untidy => asked.untidy)
    BY <1>3 DEF Fields, Begun
<1> HIDE DEF asked
<1>6. DOMAIN rendered = Fields /\ (asked.untidy => rendered.untidy)
    BY <1>5, RenderFields
<1>7. ASSUME ~asked.untidy PROVE /\ Ready(asked) /\ asked.current = asked.tree.child
                                 /\ KeysAre(asked, DOMAIN asked.cache, aliveRenders)
    BY <1>1, <1>7, ReadyToRender DEF asked
<1>8. NoChild \notin Kept
    BY KeepParameters
<1>9. CASE rendered.failed
  <2>1. alive' = [asked EXCEPT !.failed = TRUE]
      BY <1>1, <1>9
  <2>2. DOMAIN alive' = Fields /\ (alive'.untidy <=> asked.untidy)
      BY <1>5, <2>1 DEF Fields
  <2>3. asked.untidy
      BY <1>2, <1>7, <1>8, <1>9, RenderSucceeds
  <2>4. QED
    <3>1. max' \in Nat /\ aliveRenders' \in Nat /\ alive'.untidy
        BY <1>1, <1>2, <2>2, <2>3
    <3>2. QED
        BY <2>2, <3>1 DEF KeepInv
<1>10. CASE ~rendered.failed
  <2>1. alive' = KeepAlive!Queue(rendered, <<"cache">>)
      BY <1>1, <1>10
  <2> HIDE DEF rendered
  <2>2. DOMAIN alive' = Fields /\ alive'.untidy = rendered.untidy
      BY <1>6, <2>1, QueueIs DEF Fields
  <2>3. ASSUME ~alive'.untidy
        PROVE  /\ KeepType(alive') /\ Lives(alive', aliveRenders + 1)
               /\ ~alive'.revived /\ ~alive'.failed /\ ~alive'.unmounted
    <3>1. ~rendered.untidy /\ ~asked.untidy
        BY <1>6, <2>2, <2>3
    <3>2. QED
        BY <1>2, <1>7, <1>8, <2>1, <3>1, RenderLives DEF rendered
  <2>4. max' \in Nat /\ aliveRenders' \in Nat
      BY <1>1, <1>2
  <2>5. ~alive'.untidy => Lives(alive, aliveRenders)'
      BY <1>1, <2>3 DEF Lives, Keys, KeysAre
  <2>6. QED
      BY <2>2, <2>3, <2>4, <2>5 DEF KeepInv
<1>11. QED
    BY <1>9, <1>10

\* What the keys depend on.
LEMMA SameKeysAre ==
    ASSUME NEW t, NEW p, p.keys = t.keys, NEW cs, NEW n, KeysAre(t, cs, n)
    PROVE  KeysAre(p, cs, n)
BY DEF KeysAre

\* The hooks one by one, when all is tidy: what was queued first is taken off.
LEMMA TakenLives ==
    ASSUME DOMAIN alive = Fields, KeepType(alive), Lives(alive, aliveRenders),
           alive.posts # <<>>, NEW e, e = Head(alive.posts),
           NEW t, t = [alive EXCEPT !.posts = Tail(@)]
    PROVE  /\ DOMAIN t = Fields /\ \A f \in Fields \ {"posts"} : t[f] = alive[f]
           /\ KeepType(t) /\ Shown(t) /\ Cached(t) /\ Keys(t, aliveRenders) /\ Keeps(t)
           /\ e \in Effects /\ KeepAlive!Range(alive.posts) = KeepAlive!Range(t.posts) \cup {e}
           /\ t.posts # <<>> => t.posts[Len(t.posts)] = <<"cache">>
           /\ t.posts = <<>> => e = <<"cache">>
<1>1. /\ DOMAIN t = Fields /\ \A f \in Fields \ {"posts"} : t[f] = alive[f]
      /\ t.posts = Tail(alive.posts)
    BY DEF Fields
<1>2. /\ t.tree = alive.tree /\ t.cache = alive.cache /\ t.keys = alive.keys
      /\ t.current = alive.current
      /\ t.pendingKey = alive.pendingKey /\ t.include = alive.include /\ t.life = alive.life
      /\ t.off = alive.off
    BY <1>1 DEF Fields
<1>3. alive.posts \in Seq(Effects)
    BY DEF KeepType
<1>4. /\ KeepAlive!Range(alive.posts) = KeepAlive!Range(t.posts) \cup {e}
      /\ t.posts \in Seq(Effects) /\ e \in Effects
      /\ t.posts # <<>> => t.posts[Len(t.posts)] = alive.posts[Len(alive.posts)]
      /\ t.posts = <<>> => e = alive.posts[Len(alive.posts)]
    BY <1>1, <1>3, TailRange
<1>5. alive.posts[Len(alive.posts)] = <<"cache">>
    BY DEF Lives, Done
<1>6. KeepType(t)
    BY <1>2, <1>4 DEF KeepType, Instances
<1>7. Shown(t) /\ Cached(t)
    BY <1>2 DEF Lives, Shown, Cached, Instances
<1>8. Keys(t, aliveRenders) /\ Keeps(t)
    BY <1>2 DEF Lives, Keys, KeysAre, Keeps, KeepAlive!Included1
<1>9. QED
    BY <1>1, <1>4, <1>5, <1>6, <1>7, <1>8

\* The watcher of the names.
LEMMA PruneLives ==
    ASSUME DOMAIN alive = Fields, KeepType(alive), Lives(alive, aliveRenders),
           alive.posts # <<>>, Head(alive.posts) = <<"prune">>,
           aliveRenders \in Nat, max \in Nat,
           NEW t, t = [alive EXCEPT !.posts = Tail(@)], NEW p, p = KeepAlive!PruneCache(t),
           ~p.untidy
    PROVE  /\ DOMAIN p = Fields /\ KeepType(p) /\ Lives(p, aliveRenders)
           /\ (p.revived <=> alive.revived) /\ (p.failed <=> alive.failed)
           /\ (p.unmounted <=> alive.unmounted)
<1> DEFINE cs == {c \in DOMAIN t.cache : ~KeepAlive!Included1(t, c)}
<1>1. /\ DOMAIN t = Fields /\ \A f \in Fields \ {"posts"} : t[f] = alive[f]
      /\ KeepType(t) /\ Shown(t) /\ Cached(t) /\ Keys(t, aliveRenders) /\ Keeps(t)
      /\ KeepAlive!Range(alive.posts) = KeepAlive!Range(t.posts) \cup {<<"prune">>}
      /\ t.posts # <<>> => t.posts[Len(t.posts)] = <<"cache">>
      /\ t.posts = <<>> => <<"prune">> = <<"cache">>
    BY TakenLives
<1>2. t.posts # <<>>
    BY <1>1, HooksDiffer
<1>3. /\ cs \subseteq DOMAIN t.cache /\ t.current = t.tree.child
      /\ p = KeepAlive!PruneCacheEntries(t, cs)
    BY <1>1 DEF Keeps, KeepAlive!PruneCache
<1> HIDE DEF cs
<1>4. Pruned(t, cs, p)
    BY <1>1, <1>3, PruneKeeps
<1>5. /\ p.current = t.current /\ p.pendingKey = t.pendingKey /\ p.include = t.include
      /\ p.off = t.off /\ p.posts = t.posts
      /\ (p.revived <=> t.revived) /\ (p.failed <=> t.failed) /\ (p.unmounted <=> t.unmounted)
    BY <1>4 DEF Pruned, Fields
<1>6. /\ t.off = alive.off /\ t.life = alive.life
      /\ (t.revived <=> alive.revived) /\ (t.failed <=> alive.failed)
      /\ (t.unmounted <=> alive.unmounted)
    BY <1>1 DEF Fields
<1>7. t.pendingKey # NoChild => t.pendingKey \notin cs
    BY <1>1 DEF Keeps, cs
<1>8. Hooks(p)
  <2>1. \A i : /\ <<"activated", i>> \in KeepAlive!Range(t.posts) <=> <<"activated", i>> \in KeepAlive!Range(alive.posts)
               /\ <<"deactivated", i>> \in KeepAlive!Range(t.posts) <=> <<"deactivated", i>> \in KeepAlive!Range(alive.posts)
      BY <1>1, HooksDiffer
  <2>2. SUFFICES ASSUME NEW i \in Instances(p)
                 PROVE  /\ p.life[i] = "hidden" => p.off[i] \/ <<"deactivated", i>> \in KeepAlive!Range(p.posts)
                        /\ p.life[i] = "shown" => ~p.off[i] \/ <<"activated", i>> \in KeepAlive!Range(p.posts)
                        /\ <<"deactivated", i>> \in KeepAlive!Range(p.posts) => p.life[i] # "shown"
                        /\ <<"activated", i>> \in KeepAlive!Range(p.posts) => p.life[i] # "hidden"
      BY DEF Hooks
  <2>3. i \in Instances(alive) /\ p.life[i] \in {alive.life[i], "gone"}
      BY <1>4, <1>6 DEF Pruned, Instances
  <2>4. /\ alive.life[i] = "hidden" => alive.off[i] \/ <<"deactivated", i>> \in KeepAlive!Range(alive.posts)
        /\ alive.life[i] = "shown" => ~alive.off[i] \/ <<"activated", i>> \in KeepAlive!Range(alive.posts)
        /\ <<"deactivated", i>> \in KeepAlive!Range(alive.posts) => alive.life[i] # "shown"
        /\ <<"activated", i>> \in KeepAlive!Range(alive.posts) => alive.life[i] # "hidden"
      BY <2>3 DEF Lives, Hooks
  <2>5. QED
      BY <1>5, <1>6, <2>1, <2>3, <2>4
<1>9. Keys(p, aliveRenders)
  <2> DEFINE ds == DOMAIN t.cache \cup ({t.pendingKey} \ {NoChild})
  <2>1. KeysAre(t, ds, aliveRenders)
      BY <1>1 DEF Keys
  <2>2. DOMAIN p.cache \cup ({p.pendingKey} \ {NoChild}) = ds \ cs
    <3>1. DOMAIN p.cache = DOMAIN t.cache \ cs /\ p.pendingKey = t.pendingKey
        BY <1>4, <1>5 DEF Pruned
    <3>2. QED
        BY <1>7, <3>1
  <2>3. DOMAIN p.keys = ds \ cs /\ \A c \in ds \ cs : p.keys[c] = t.keys[c]
      BY <1>4, <2>1 DEF Pruned, KeysAre
  <2> HIDE DEF ds
  <2>4. max > 0 => IsFiniteSet(ds \ cs) /\ Cardinality(ds \ cs) <= max
    <3>1. SUFFICES ASSUME max > 0 PROVE IsFiniteSet(ds \ cs) /\ Cardinality(ds \ cs) <= max
        OBVIOUS
    <3>2. IsFiniteSet(ds) /\ Cardinality(ds) <= max
        BY <2>1, <3>1 DEF KeysAre
    <3>3. IsFiniteSet(ds \ cs) /\ Cardinality(ds \ cs) <= Cardinality(ds)
        BY <3>2, FS_Subset
    <3>4. Cardinality(ds) \in Nat /\ Cardinality(ds \ cs) \in Nat
        BY <3>2, <3>3, FS_CardinalityType
    <3>5. QED
        BY <3>2, <3>3, <3>4
  <2>5. KeysAre(p, ds \ cs, aliveRenders)
    <3>1. /\ \A c \in ds : t.keys[c] < aliveRenders
          /\ \A c, d \in ds : t.keys[c] = t.keys[d] => c = d
        BY <2>1 DEF KeysAre
    <3>2. \A c \in ds \ cs : p.keys[c] < aliveRenders
        BY <2>3, <3>1
    <3>3. \A c, d \in ds \ cs : p.keys[c] = p.keys[d] => c = d
        BY <2>3, <3>1
    <3>4. QED
        BY <2>3, <2>4, <3>2, <3>3 DEF KeysAre
  <2>6. QED
      BY <2>2, <2>5 DEF Keys
<1>10. Keeps(p)
  <2>1. t.tree.keep => t.tree.child \notin cs
      BY <1>1 DEF Keeps, cs
  <2>2. QED
      BY <1>1, <1>4, <1>5, <2>1 DEF Pruned, Keeps, KeepAlive!Included1
<1>11. Done(p)
  <2>1. \A c \in DOMAIN p.cache : KeepAlive!Included1(p, c)
      BY <1>4, <1>5 DEF Pruned, KeepAlive!Included1, cs
  <2>2. QED
      BY <1>1, <1>2, <1>5, <2>1 DEF Done
<1>12. QED
    BY <1>4, <1>5, <1>6, <1>8, <1>9, <1>10, <1>11 DEF Lives, Pruned

\* cacheSubtree.
LEMMA CacheLives ==
    ASSUME DOMAIN alive = Fields, KeepType(alive), Lives(alive, aliveRenders),
           alive.posts # <<>>, Head(alive.posts) = <<"cache">>,
           NEW t, t = [alive EXCEPT !.posts = Tail(@)], NEW p, p = KeepAlive!CacheSubtree(t)
    PROVE  /\ DOMAIN p = Fields /\ KeepType(p) /\ Lives(p, aliveRenders)
           /\ (p.revived <=> alive.revived) /\ (p.failed <=> alive.failed)
           /\ (p.unmounted <=> alive.unmounted)
<1> DEFINE pk == alive.pendingKey
           n == alive.tree.inst
<1>1. /\ DOMAIN t = Fields /\ \A f \in Fields \ {"posts"} : t[f] = alive[f]
      /\ KeepType(t) /\ Shown(t) /\ Cached(t) /\ Keys(t, aliveRenders) /\ Keeps(t)
      /\ KeepAlive!Range(alive.posts) = KeepAlive!Range(t.posts) \cup {<<"cache">>}
      /\ t.posts # <<>> => t.posts[Len(t.posts)] = <<"cache">>
    BY TakenLives
<1>2. /\ DOMAIN p = Fields /\ \A f \in Fields \ {"posts", "cache"} : p[f] = alive[f]
      /\ p.posts = t.posts
      /\ p.cache = IF pk = NoChild THEN alive.cache ELSE KeepAlive!Put(alive.cache, pk, n)
  <2>1. t.pendingKey = pk /\ t.tree = alive.tree /\ t.cache = alive.cache
      BY <1>1 DEF Fields
  <2>2. CASE pk = NoChild
      BY <1>1, <2>1, <2>2 DEF KeepAlive!CacheSubtree, Fields
  <2>3. CASE pk # NoChild
    <3>1. p = [t EXCEPT !.cache = KeepAlive!Put(@, pk, n)]
        BY <2>1, <2>3 DEF KeepAlive!CacheSubtree
    <3>2. QED
        BY <1>1, <2>1, <2>3, <3>1 DEF Fields
  <2>4. QED
      BY <2>2, <2>3
<1>3. /\ p.tree = alive.tree /\ p.keys = alive.keys /\ p.current = alive.current
      /\ p.pendingKey = alive.pendingKey
      /\ p.include = alive.include /\ p.life = alive.life /\ p.off = alive.off
      /\ (p.revived <=> alive.revived) /\ (p.failed <=> alive.failed)
      /\ (p.unmounted <=> alive.unmounted)
    BY <1>2 DEF Fields
<1>4. /\ DOMAIN p.cache = DOMAIN alive.cache \cup ({pk} \ {NoChild})
      /\ \A c \in DOMAIN p.cache : p.cache[c] = IF c = pk THEN n ELSE alive.cache[c]
  <2>1. CASE pk = NoChild
    <3>1. pk \notin DOMAIN alive.cache
        BY <2>1, KeepParameters DEF KeepType
    <3>2. QED
        BY <1>2, <2>1, <3>1
  <2>2. CASE pk # NoChild
      BY <1>2, <2>2 DEF KeepAlive!Put
  <2>3. QED
      BY <2>1, <2>2
<1>5. ASSUME pk # NoChild
      PROVE  /\ pk = alive.tree.child /\ alive.tree.keep /\ KeepAlive!Included1(alive, pk)
             /\ n \in Instances(alive)
             /\ alive.life[n] = "shown" /\ pk \in Kept
             /\ pk \in DOMAIN alive.cache => alive.cache[pk] = n
  <2>1. pk = alive.tree.child /\ alive.tree.keep /\ KeepAlive!Included1(alive, pk)
      BY <1>5 DEF Lives, Keeps
  <2>2. n \in Instances(alive) /\ alive.life[n] = "shown"
      BY <1>5, <2>1 DEF Lives, Shown
  <2>3. pk \in DOMAIN alive.cache => alive.cache[pk] = n
      BY <2>1 DEF Lives, Cached
  <2>4. pk \in Kept
      BY <1>5 DEF KeepType
  <2>5. QED
      BY <2>1, <2>2, <2>3, <2>4
<1> HIDE DEF pk, n
<1>6. Instances(p) = Instances(alive)
    BY <1>3 DEF Instances
<1>7. KeepType(p)
  <2>1. p.posts \in Seq(Effects)
      BY <1>1, <1>2 DEF KeepType
  <2>2. \A c \in DOMAIN p.cache : p.cache[c] \in Instances(alive) /\ c \in Kept
    <3>1. \A c \in DOMAIN alive.cache : alive.cache[c] \in Instances(alive) /\ c \in Kept
        BY DEF KeepType
    <3>2. SUFFICES ASSUME NEW c \in DOMAIN p.cache PROVE p.cache[c] \in Instances(alive) /\ c \in Kept
        OBVIOUS
    <3>3. CASE c = pk
      <4>1. NoChild \notin DOMAIN alive.cache
          BY <3>1, KeepParameters
      <4>2. pk # NoChild /\ p.cache[c] = n
          BY <1>4, <3>3, <4>1
      <4>3. QED
          BY <1>5, <3>3, <4>2
    <3>4. CASE c # pk
        BY <1>4, <3>1, <3>4
    <3>5. QED
        BY <3>3, <3>4
  <2>3. p.cache = [c \in DOMAIN p.cache |-> p.cache[c]]
    <3>1. alive.cache = [c \in DOMAIN alive.cache |-> alive.cache[c]]
        BY DEF KeepType
    <3>2. QED
        BY <1>2, <3>1 DEF KeepAlive!Put
  <2>4. p.cache \in [DOMAIN p.cache -> Instances(alive)]
      BY <2>2, <2>3
  <2>5. QED
      BY <1>3, <1>6, <2>1, <2>2, <2>4 DEF KeepType
<1>8. Shown(p)
    BY <1>3, <1>6 DEF Lives, Shown
<1>9. Cached(p)
  <2>1. p.tree.inst = n /\ p.tree.child = alive.tree.child
      BY <1>3 DEF n
  <2>2. ASSUME NEW c \in DOMAIN p.cache
        PROVE  IF p.cache[c] = p.tree.inst THEN c = p.tree.child ELSE p.life[p.cache[c]] = "hidden"
    <3>1. CASE c = pk
      <4>1. pk # NoChild
        <5>1. NoChild \notin DOMAIN alive.cache
            BY KeepParameters DEF KeepType
        <5>2. QED
            BY <1>4, <3>1, <5>1
      <4>2. QED
          BY <1>4, <1>5, <2>1, <3>1, <4>1
    <3>2. CASE c # pk
      <4>1. c \in DOMAIN alive.cache /\ p.cache[c] = alive.cache[c]
          BY <1>4, <3>2
      <4>2. IF alive.cache[c] = n THEN c = alive.tree.child ELSE alive.life[alive.cache[c]] = "hidden"
          BY <4>1 DEF Lives, Cached, n
      <4>3. QED
          BY <1>3, <2>1, <4>1, <4>2
    <3>3. QED
        BY <3>1, <3>2
  <2>3. p.tree.keep /\ p.tree.child \in DOMAIN p.cache => p.cache[p.tree.child] = p.tree.inst
    <3>1. alive.tree.keep => pk # NoChild /\ pk = alive.tree.child
        BY DEF Lives, Keeps, pk
    <3>2. p.tree.keep <=> alive.tree.keep
        BY <1>3
    <3>3. pk \in DOMAIN p.cache => p.cache[pk] = n
        BY <1>4
    <3>4. QED
        BY <2>1, <3>1, <3>2, <3>3
  <2>4. \A c, d \in DOMAIN p.cache : p.cache[c] = p.cache[d] => c = d
    <3>1. ASSUME NEW c \in DOMAIN p.cache, c # pk
          PROVE  c \in DOMAIN alive.cache /\ p.cache[c] = alive.cache[c] /\ (pk # NoChild => p.cache[c] # n)
      <4>1. c \in DOMAIN alive.cache /\ p.cache[c] = alive.cache[c]
          BY <1>4, <3>1
      <4>2. alive.cache[c] = n => c = alive.tree.child
          BY <4>1 DEF Lives, Cached, n
      <4>3. QED
          BY <1>5, <3>1, <4>1, <4>2
    <3>2. \A c, d \in DOMAIN alive.cache : alive.cache[c] = alive.cache[d] => c = d
        BY DEF Lives, Cached
    <3>3. pk \in DOMAIN p.cache => pk # NoChild /\ p.cache[pk] = n
      <4>1. NoChild \notin DOMAIN alive.cache
          BY KeepParameters DEF KeepType
      <4>2. QED
          BY <1>4, <4>1
    <3>4. SUFFICES ASSUME NEW c \in DOMAIN p.cache, NEW d \in DOMAIN p.cache, p.cache[c] = p.cache[d]
                   PROVE  c = d
        OBVIOUS
    <3>5. CASE c # pk /\ d # pk
        BY <3>1, <3>2, <3>4, <3>5
    <3>6. CASE c = pk /\ d # pk
        BY <3>1, <3>3, <3>4, <3>6
    <3>7. CASE d = pk /\ c # pk
        BY <3>1, <3>3, <3>4, <3>7
    <3>8. QED
        BY <3>5, <3>6, <3>7
  <2>5. ASSUME NEW i \in Instances(p), p.life[i] = "hidden" PROVE \E c \in DOMAIN p.cache : p.cache[c] = i
    <3>1. i \in Instances(alive) /\ alive.life[i] = "hidden"
        BY <1>3, <1>6, <2>5
    <3>2. PICK c \in DOMAIN alive.cache : alive.cache[c] = i
        BY <3>1 DEF Lives, Cached
    <3>3. c \in DOMAIN p.cache
        BY <1>4
    <3>4. c # pk
      <4>1. c = pk => pk # NoChild
          BY KeepParameters DEF KeepType
      <4>2. QED
          BY <1>5, <3>1, <3>2, <4>1
    <3>5. QED
        BY <1>4, <3>2, <3>3, <3>4
  <2>6. QED
      BY <2>2, <2>3, <2>4, <2>5 DEF Cached
<1>10. Hooks(p)
  <2>1. \A i : /\ <<"activated", i>> \in KeepAlive!Range(p.posts) <=> <<"activated", i>> \in KeepAlive!Range(alive.posts)
               /\ <<"deactivated", i>> \in KeepAlive!Range(p.posts) <=> <<"deactivated", i>> \in KeepAlive!Range(alive.posts)
      BY <1>1, <1>2, HooksDiffer
  <2>2. QED
      BY <1>3, <1>6, <2>1 DEF Lives, Hooks
<1>11. Keys(p, aliveRenders)
  <2>1. DOMAIN p.cache \cup ({p.pendingKey} \ {NoChild}) = DOMAIN alive.cache \cup ({alive.pendingKey} \ {NoChild})
      BY <1>3, <1>4 DEF pk
  <2> DEFINE ds == DOMAIN alive.cache \cup ({alive.pendingKey} \ {NoChild})
  <2>2. KeysAre(alive, ds, aliveRenders)
      BY DEF Lives, Keys
  <2> HIDE DEF ds
  <2>3. KeysAre(p, ds, aliveRenders)
    <3>1. p.keys = alive.keys
        BY <1>3
    <3>2. QED
        BY <2>2, <3>1, SameKeysAre
  <2>4. QED
      BY <2>1, <2>3 DEF Keys, ds
<1>12. Keeps(p)
    BY <1>3 DEF Lives, Keeps, KeepAlive!Included1
<1>13. Done(p)
  <2>1. p.posts = <<>> => p.pendingKey \in DOMAIN p.cache \cup {NoChild}
      BY <1>3, <1>4 DEF pk
  <2>2. <<"prune">> \in KeepAlive!Range(alive.posts) => <<"prune">> \in KeepAlive!Range(p.posts)
      BY <1>1, <1>2, HooksDiffer
  <2>3. <<"prune">> \notin KeepAlive!Range(p.posts) => \A c \in DOMAIN p.cache : KeepAlive!Included1(p, c)
      BY <1>3, <1>4, <1>5, <2>2 DEF Lives, Done, KeepAlive!Included1
  <2>4. QED
      BY <1>1, <1>2, <2>1, <2>3 DEF Done
<1>14. QED
    BY <1>2, <1>3, <1>7, <1>8, <1>9, <1>10, <1>11, <1>12, <1>13 DEF Lives

\* What the cache depends on, and the keys.
LEMMA SameCached ==
    ASSUME NEW t, NEW p, p.tree = t.tree, p.cache = t.cache, p.life = t.life, Shown(t),
           Cached(t)
    PROVE  Shown(p) /\ Cached(p)
BY DEF Shown, Cached, Instances

LEMMA SameKeys ==
    ASSUME NEW t, NEW p, p.keys = t.keys, p.cache = t.cache, p.pendingKey = t.pendingKey,
           NEW n, Keys(t, n)
    PROVE  Keys(p, n)
BY SameKeysAre DEF Keys

\* A sequence with another element at one place, if it has it.
ChangedAt(S, s, j, b, x) ==
    /\ x \in Seq(S) /\ Len(x) = Len(s)
    /\ \A i \in 1..Len(s) : x[i] = IF i = j THEN b ELSE s[i]
LEMMA ExceptIs ==
    ASSUME NEW S, NEW s, s \in Seq(S), NEW j, NEW b \in S
    PROVE  ChangedAt(S, s, j, b, [s EXCEPT ![j] = b])
<1>1. Len(s) \in Nat /\ DOMAIN s = 1..Len(s) /\ s \in [1..Len(s) -> S]
    OBVIOUS
<1> DEFINE x == [s EXCEPT ![j] = b]
<1>2. x = [i \in 1..Len(s) |-> IF i = j THEN b ELSE s[i]]
    BY <1>1
<1>3. \A i \in 1..Len(s) : (IF i = j THEN b ELSE s[i]) \in S
    BY <1>1
<1> HIDE DEF x
<1>4. x \in [1..Len(s) -> S] /\ DOMAIN x = 1..Len(s)
    BY <1>2, <1>3
<1>5. x \in Seq(S) /\ Len(x) = Len(s)
    BY <1>1, <1>4
<1>6. QED
    BY <1>2, <1>5 DEF x, ChangedAt

\* The ends of activate and deactivate.
SetsDeactivated(t, hook, j) == [t EXCEPT !.off[j] = hook = "deactivated"]
LEMMA HookLives ==
    ASSUME DOMAIN alive = Fields, KeepType(alive), Lives(alive, aliveRenders),
           alive.posts # <<>>,
           NEW hook \in {"activated", "deactivated"}, NEW j \in Nat,
           Head(alive.posts) = <<hook, j>>,
           NEW t, t = [alive EXCEPT !.posts = Tail(@)],
           NEW p, p = SetsDeactivated(t, hook, j)
    PROVE  /\ DOMAIN p = Fields /\ KeepType(p) /\ Lives(p, aliveRenders)
           /\ (p.revived <=> alive.revived) /\ (p.failed <=> alive.failed)
           /\ (p.unmounted <=> alive.unmounted)
<1>1. /\ DOMAIN t = Fields /\ \A f \in Fields \ {"posts"} : t[f] = alive[f]
      /\ KeepType(t) /\ Shown(t) /\ Cached(t) /\ Keys(t, aliveRenders) /\ Keeps(t)
      /\ KeepAlive!Range(alive.posts) = KeepAlive!Range(t.posts) \cup {<<hook, j>>}
      /\ t.posts # <<>> => t.posts[Len(t.posts)] = <<"cache">>
      /\ t.posts = <<>> => <<hook, j>> = <<"cache">>
    BY TakenLives
<1>2. t.posts # <<>>
    BY <1>1, HooksDiffer
<1>3. /\ DOMAIN p = Fields /\ \A f \in Fields \ {"off"} : p[f] = t[f]
      /\ p.off = [t.off EXCEPT ![j] = (hook = "deactivated")]
    BY <1>1 DEF Fields, SetsDeactivated
<1>4. /\ p.tree = t.tree /\ p.cache = t.cache /\ p.keys = t.keys /\ p.current = t.current
      /\ p.pendingKey = t.pendingKey /\ p.include = t.include /\ p.life = t.life
      /\ p.posts = t.posts
      /\ (p.revived <=> t.revived) /\ (p.failed <=> t.failed) /\ (p.unmounted <=> t.unmounted)
    BY <1>3 DEF Fields
<1>5. /\ t.life = alive.life /\ t.off = alive.off /\ t.cache = alive.cache
      /\ t.include = alive.include
      /\ (t.revived <=> alive.revived) /\ (t.failed <=> alive.failed)
      /\ (t.unmounted <=> alive.unmounted)
    BY <1>1 DEF Fields
<1>6. /\ p.off \in Seq(BOOLEAN) /\ Len(p.off) = Len(t.off)
      /\ \A i \in Instances(t) : p.off[i] = IF i = j THEN hook = "deactivated" ELSE t.off[i]
  <2>1. t.off \in Seq(BOOLEAN) /\ Instances(t) = 1..Len(t.off)
      BY <1>1 DEF KeepType, Instances
  <2>2. (hook = "deactivated") \in BOOLEAN
      OBVIOUS
  <2>3. QED
    <3> DEFINE b == (hook = "deactivated")
    <3>1. b \in BOOLEAN /\ p.off = [t.off EXCEPT ![j] = b]
        BY <1>3
    <3> HIDE DEF b
    <3>2. ChangedAt(BOOLEAN, t.off, j, b, p.off)
        BY <2>1, <3>1, ExceptIs
    <3>3. QED
        BY <2>1, <3>2 DEF ChangedAt, b
<1>7. KeepType(p)
    BY <1>1, <1>4, <1>6 DEF KeepType, Instances
<1>8. Shown(p) /\ Cached(p)
  <2>1. p.tree = t.tree /\ p.cache = t.cache /\ p.life = t.life
      BY <1>4
  <2>2. Shown(t) /\ Cached(t)
      BY <1>1
  <2>3. QED
      BY <2>1, <2>2, SameCached
<1>9. Hooks(p)
  <2>1. SUFFICES ASSUME NEW i \in Instances(alive)
                 PROVE  /\ p.life[i] = "hidden" => p.off[i] \/ <<"deactivated", i>> \in KeepAlive!Range(p.posts)
                        /\ p.life[i] = "shown" => ~p.off[i] \/ <<"activated", i>> \in KeepAlive!Range(p.posts)
                        /\ <<"deactivated", i>> \in KeepAlive!Range(p.posts) => p.life[i] # "shown"
                        /\ <<"activated", i>> \in KeepAlive!Range(p.posts) => p.life[i] # "hidden"
      BY <1>4, <1>5 DEF Hooks, Instances
  <2>2. /\ alive.life[i] = "hidden" => alive.off[i] \/ <<"deactivated", i>> \in KeepAlive!Range(alive.posts)
        /\ alive.life[i] = "shown" => ~alive.off[i] \/ <<"activated", i>> \in KeepAlive!Range(alive.posts)
        /\ <<"deactivated", i>> \in KeepAlive!Range(alive.posts) => alive.life[i] # "shown"
        /\ <<"activated", i>> \in KeepAlive!Range(alive.posts) => alive.life[i] # "hidden"
      BY DEF Lives, Hooks
  <2>3. p.off[i] = IF i = j THEN hook = "deactivated" ELSE alive.off[i]
      BY <1>5, <1>6 DEF Instances
  <2>4. CASE hook = "deactivated"
    <3>1. /\ <<"activated", i>> \in KeepAlive!Range(p.posts) <=> <<"activated", i>> \in KeepAlive!Range(alive.posts)
          /\ i # j => (<<"deactivated", i>> \in KeepAlive!Range(p.posts)
                      <=> <<"deactivated", i>> \in KeepAlive!Range(alive.posts))
          /\ <<"deactivated", i>> \in KeepAlive!Range(p.posts) => <<"deactivated", i>> \in KeepAlive!Range(alive.posts)
          /\ <<"deactivated", j>> \in KeepAlive!Range(alive.posts)
        BY <1>1, <1>4, <2>4, HooksDiffer
    <3>2. CASE i = j
        BY <1>4, <1>5, <2>2, <2>3, <2>4, <3>1, <3>2
    <3>3. CASE i # j
        BY <1>4, <1>5, <2>2, <2>3, <2>4, <3>1, <3>3
    <3>4. QED
        BY <3>2, <3>3
  <2>5. CASE hook = "activated"
    <3>1. /\ <<"deactivated", i>> \in KeepAlive!Range(p.posts) <=> <<"deactivated", i>> \in KeepAlive!Range(alive.posts)
          /\ i # j => (<<"activated", i>> \in KeepAlive!Range(p.posts)
                      <=> <<"activated", i>> \in KeepAlive!Range(alive.posts))
          /\ <<"activated", i>> \in KeepAlive!Range(p.posts) => <<"activated", i>> \in KeepAlive!Range(alive.posts)
          /\ <<"activated", j>> \in KeepAlive!Range(alive.posts)
        BY <1>1, <1>4, <2>5, HooksDiffer
    <3>2. CASE i = j
        BY <1>4, <1>5, <2>2, <2>3, <2>5, <3>1, <3>2
    <3>3. CASE i # j
        BY <1>4, <1>5, <2>2, <2>3, <2>5, <3>1, <3>3
    <3>4. QED
        BY <3>2, <3>3
  <2>6. QED
      BY <2>4, <2>5
<1>10. Keys(p, aliveRenders)
  <2>1. p.keys = t.keys /\ p.cache = t.cache /\ p.pendingKey = t.pendingKey
      BY <1>4
  <2>2. Keys(t, aliveRenders)
      BY <1>1
  <2>3. QED
      BY <2>1, <2>2, SameKeys
<1>11. Keeps(p)
    BY <1>1, <1>4 DEF Keeps, KeepAlive!Included1
<1>12. Done(p)
  <2>1. <<"prune">> \in KeepAlive!Range(alive.posts) => <<"prune">> \in KeepAlive!Range(p.posts)
      BY <1>1, <1>4, HooksDiffer
  <2>2. <<"prune">> \notin KeepAlive!Range(alive.posts) => \A c \in DOMAIN alive.cache : KeepAlive!Included1(alive, c)
      BY DEF Lives, Done
  <2>3. <<"prune">> \notin KeepAlive!Range(p.posts) => \A c \in DOMAIN p.cache : KeepAlive!Included1(p, c)
      BY <1>4, <1>5, <2>1, <2>2 DEF KeepAlive!Included1
  <2>4. QED
      BY <1>1, <1>2, <1>4, <2>3 DEF Done
<1>13. QED
    BY <1>3, <1>4, <1>5, <1>7, <1>8, <1>9, <1>10, <1>11, <1>12 DEF Lives

\* a hook that was queued does,
LEMMA PostKeeps ==
    ASSUME KeepInv, KeepAlive!Post
    PROVE  KeepInv'
<1> DEFINE t == [alive EXCEPT !.posts = Tail(@)]
           e == Head(alive.posts)
<1>1. /\ alive.posts # <<>> /\ alive' = KeepAlive!Runs(t, e) /\ max' = max
      /\ aliveRenders' = aliveRenders
    BY DEF KeepAlive!Post
<1>2. DOMAIN alive = Fields /\ max \in Nat /\ aliveRenders \in Nat
    BY DEF KeepInv
<1>3. DOMAIN t = Fields /\ t.untidy = alive.untidy
    BY <1>2 DEF Fields
<1>4. \/ e[1] = "prune" /\ alive' = KeepAlive!PruneCache(t)
      \/ e[1] # "prune" /\ e[1] = "cache" /\ alive' = KeepAlive!CacheSubtree(t)
      \/ e[1] # "prune" /\ e[1] # "cache" /\ alive' = [t EXCEPT !.off[e[2]] = (e[1] = "deactivated")]
    BY <1>1 DEF KeepAlive!Runs
<1>5. max' \in Nat /\ aliveRenders' \in Nat
    BY <1>1, <1>2
<1>6. DOMAIN alive' = Fields /\ (t.untidy => alive'.untidy)
  <2>1. CASE alive' = KeepAlive!PruneCache(t)
    <3> HIDE DEF t
    <3>1. QED
        BY <1>3, <2>1, PruneFields DEF KeepAlive!PruneCache
  <2>2. CASE alive' = KeepAlive!CacheSubtree(t)
    <3> HIDE DEF t
    <3>1. QED
        BY <1>3, <2>2 DEF KeepAlive!CacheSubtree, Fields
  <2>3. CASE alive' = [t EXCEPT !.off[e[2]] = (e[1] = "deactivated")]
    <3> HIDE DEF t, e
    <3>1. QED
        BY <1>3, <2>3 DEF Fields
  <2>4. QED
      BY <1>4, <2>1, <2>2, <2>3
<1>7. ASSUME ~alive'.untidy
      PROVE  /\ KeepType(alive') /\ Lives(alive', aliveRenders) /\ ~alive'.revived
             /\ ~alive'.failed /\ ~alive'.unmounted
  <2>1. /\ ~alive.untidy /\ KeepType(alive) /\ ~alive.revived /\ ~alive.failed
        /\ ~alive.unmounted /\ Lives(alive, aliveRenders)
      BY <1>1, <1>3, <1>6, <1>7 DEF KeepInv
  <2>2. e \in Effects
    <3> HIDE DEF e, t
    <3>1. alive.posts \in Seq(Effects)
        BY <2>1 DEF KeepType
    <3>2. QED
        BY <1>1, <3>1, TailRange DEF e
  <2>3. \/ e = <<"prune">> \/ e = <<"cache">>
        \/ \E hook \in {"activated", "deactivated"}, j \in Nat : e = <<hook, j>>
    <3> HIDE DEF e
    <3>1. QED
        BY <2>2 DEF Effects
  <2>4. CASE e = <<"prune">>
    <3>1. alive' = KeepAlive!PruneCache(t)
        BY <1>4, <2>4
    <3>2. QED
        BY <1>1, <1>2, <1>7, <2>1, <2>4, <3>1, PruneLives
  <2>5. CASE e = <<"cache">>
    <3>1. alive' = KeepAlive!CacheSubtree(t)
        BY <1>4, <2>5
    <3>2. QED
        BY <1>1, <1>2, <1>7, <2>1, <2>5, <3>1, CacheLives
  <2>6. ASSUME NEW hook \in {"activated", "deactivated"}, NEW j \in Nat, e = <<hook, j>>
        PROVE  /\ KeepType(alive') /\ Lives(alive', aliveRenders) /\ ~alive'.revived
               /\ ~alive'.failed /\ ~alive'.unmounted
    <3>1. alive' = SetsDeactivated(t, hook, j)
      <4>1. e[1] = hook /\ e[2] = j
          BY <2>6
      <4>2. e[1] # "prune" /\ e[1] # "cache"
          BY <4>1
      <4>3. alive' = [t EXCEPT !.off[e[2]] = (e[1] = "deactivated")]
          BY <1>4, <4>2
      <4> HIDE DEF e, t
      <4>4. QED
          BY <4>1, <4>3 DEF SetsDeactivated
    <3>2. QED
        BY <1>1, <1>2, <1>7, <2>1, <2>6, <3>1, HookLives
  <2>7. QED
      BY <2>3, <2>4, <2>5, <2>6
<1>8. ~alive'.untidy => Lives(alive, aliveRenders)'
    BY <1>1, <1>7 DEF Lives, Keys, KeysAre
<1>9. QED
    BY <1>5, <1>6, <1>7, <1>8 DEF KeepInv

\* and onBeforeUnmount with the unmount of the tree.
LEMMA UnmountKeeps ==
    ASSUME KeepInv, KeepAlive!UnmountKeepAlive
    PROVE  KeepInv'
<1> DEFINE same == {c \in DOMAIN alive.cache : KeepAlive!TypeOf(c) = KeepAlive!TypeOf(alive.tree.child)}
           others == {alive.cache[c] : c \in DOMAIN alive.cache \ same}
           n == KeepAlive!NoLongerKept(alive)
           pruned == [n EXCEPT
                          !.life = [i \in DOMAIN @ |-> IF i \in others THEN "gone" ELSE @[i]],
                          !.untidy = @ \/ alive.posts # <<>> \/ {alive.cache[c] : c \in same} \ {alive.tree.inst} # {}]
           l == KeepAlive!Leaves(pruned)
<1>1. /\ alive' = [l EXCEPT !.unmounted = TRUE, !.tree = KeepAlive!VNode(NoChild, 0, FALSE)]
      /\ ~alive.unmounted /\ max' = max /\ aliveRenders' = aliveRenders
    BY DEF KeepAlive!UnmountKeepAlive
<1>2. DOMAIN alive = Fields /\ max \in Nat /\ aliveRenders \in Nat
    BY DEF KeepInv
<1>3. /\ DOMAIN n = Fields /\ \A f \in Fields \ {"tree"} : n[f] = alive[f]
      /\ n.tree = IF same # {} THEN [alive.tree EXCEPT !.keep = FALSE] ELSE alive.tree
    BY <1>2 DEF KeepAlive!NoLongerKept, Fields
<1> HIDE DEF n, same, others
<1>4. /\ DOMAIN pruned = Fields /\ \A f \in Fields \ {"life", "untidy"} : pruned[f] = n[f]
      /\ pruned.life = [i \in DOMAIN alive.life |-> IF i \in others THEN "gone" ELSE alive.life[i]]
      /\ pruned.untidy <=> alive.untidy \/ alive.posts # <<>> \/ {alive.cache[c] : c \in same} \ {alive.tree.inst} # {}
    BY <1>3 DEF Fields
<1> HIDE DEF pruned
<1>5. Untouched(pruned, l)
    BY <1>4, LeavesFields
<1> HIDE DEF l
<1>6. /\ DOMAIN alive' = Fields /\ \A f \in Fields \ {"unmounted", "tree"} : alive'[f] = l[f]
      /\ alive'.unmounted /\ alive'.tree = KeepAlive!VNode(NoChild, 0, FALSE)
    BY <1>1, <1>5 DEF Untouched, Fields
<1>7. alive'.untidy <=> pruned.untidy
    BY <1>5, <1>6 DEF Untouched, Fields
<1>8. ASSUME ~alive'.untidy
      PROVE  /\ KeepType(alive') /\ ~alive'.revived /\ ~alive'.failed
             /\ alive'.posts = <<>> /\ \A i \in Instances(alive') : alive'.life[i] = "gone"
  <2>1. ~alive.untidy /\ alive.posts = <<>> /\ \A c \in same : alive.cache[c] = alive.tree.inst
      BY <1>4, <1>7, <1>8
  <2>2. KeepType(alive) /\ ~alive.revived /\ ~alive.failed /\ Lives(alive, aliveRenders)
      BY <1>1, <2>1 DEF KeepInv
  <2>3. /\ pruned.tree = n.tree /\ pruned.posts = alive.posts
        /\ (pruned.revived <=> alive.revived)
        /\ (pruned.failed <=> alive.failed) /\ pruned.cache = alive.cache
        /\ pruned.keys = alive.keys
        /\ pruned.current = alive.current /\ pruned.pendingKey = alive.pendingKey
        /\ pruned.off = alive.off
      BY <1>3, <1>4 DEF Fields
  <2>4. ~n.tree.keep /\ n.tree.inst = alive.tree.inst
    <3>1. CASE same # {}
        BY <1>3, <2>2, <3>1 DEF KeepType
    <3>2. CASE same = {}
      <4>1. n.tree = alive.tree
          BY <1>3, <3>2
      <4>2. alive.tree.child \notin DOMAIN alive.cache
          BY <3>2 DEF same
      <4>3. ~alive.tree.keep
          BY <2>1, <2>2, <4>2 DEF Lives, Keeps, Done
      <4>4. QED
          BY <4>1, <4>3
    <3>3. QED
        BY <3>1, <3>2
  <2>5. l = IF alive.tree.inst = 0 THEN pruned ELSE KeepAlive!Unmount(pruned, alive.tree.inst)
      BY <2>3, <2>4 DEF KeepAlive!Leaves, l
  <2>6. DOMAIN alive.life = Instances(alive)
      BY <2>2 DEF KeepType, Instances
  <2>7. /\ pruned.life \in Seq({"shown", "hidden", "gone"})
        /\ Len(pruned.life) = Len(alive.life)
        /\ \A i \in Instances(alive) : pruned.life[i] = IF i \in others THEN "gone" ELSE alive.life[i]
    <3>1. alive.life \in Seq({"shown", "hidden", "gone"})
        BY <2>2 DEF KeepType
    <3>2. pruned.life = [i \in 1..Len(alive.life) |-> IF i \in others THEN "gone" ELSE alive.life[i]]
        BY <1>4, <2>6 DEF Instances
    <3>3. QED
        BY <1>4, <2>6, <3>1, <3>2, LifeIs
  <2>8. l.life = IF alive.tree.inst = 0 THEN pruned.life ELSE [pruned.life EXCEPT ![alive.tree.inst] = "gone"]
      BY <1>4, <2>5 DEF KeepAlive!Unmount, Fields
  <2>9. l.posts = pruned.posts /\ (l.revived <=> pruned.revived)
      BY <1>4, <2>5 DEF KeepAlive!Unmount, Fields
  <2>10. /\ l.life \in Seq({"shown", "hidden", "gone"}) /\ Len(l.life) = Len(alive.life)
         /\ \A i \in Instances(alive) : l.life[i] = IF alive.tree.inst # 0 /\ i = alive.tree.inst THEN "gone"
                                                ELSE pruned.life[i]
    <3>1. CASE alive.tree.inst = 0
        BY <2>7, <2>8, <3>1
    <3>2. CASE alive.tree.inst # 0
      <4>1. "gone" \in {"shown", "hidden", "gone"}
          OBVIOUS
      <4>2. l.life = [pruned.life EXCEPT ![alive.tree.inst] = "gone"]
          BY <2>8, <3>2
      <4>3. QED
        <5>1. ChangedAt({"shown", "hidden", "gone"}, pruned.life, alive.tree.inst, "gone", l.life)
            BY <2>7, <4>1, <4>2, ExceptIs
        <5>2. QED
            BY <2>7, <3>2, <5>1 DEF ChangedAt, Instances
    <3>3. QED
        BY <3>1, <3>2
  <2>11. ASSUME NEW i \in Instances(alive) PROVE l.life[i] = "gone"
    <3>1. CASE alive.life[i] = "shown"
      <4>1. i = alive.tree.inst /\ i # 0
          BY <2>2, <3>1 DEF Lives, Shown, Instances
      <4>2. QED
          BY <2>10, <4>1
    <3>2. CASE alive.life[i] = "hidden"
      <4>1. PICK c \in DOMAIN alive.cache : alive.cache[c] = i
          BY <2>2, <3>2 DEF Lives, Cached
      <4>2. c \notin same
        <5>1. SUFFICES ASSUME i = alive.tree.inst PROVE FALSE
            BY <2>1, <4>1
        <5>2. i # 0
            BY DEF Instances
        <5>3. QED
            BY <2>2, <3>2, <5>1, <5>2 DEF Lives, Shown
      <4>3. i \in others
          BY <4>1, <4>2 DEF others
      <4>4. QED
          BY <2>7, <2>10, <4>3
    <3>3. CASE alive.life[i] = "gone"
        BY <2>7, <2>10, <3>3
    <3>4. alive.life[i] \in {"shown", "hidden", "gone"}
        BY <2>2 DEF KeepType, Instances
    <3>5. QED
        BY <3>1, <3>2, <3>3, <3>4
  <2>12. /\ alive'.life = l.life /\ alive'.posts = l.posts /\ (alive'.revived <=> l.revived)
         /\ alive'.cache = alive.cache
         /\ (alive'.failed <=> alive.failed) /\ alive'.keys = alive.keys
         /\ alive'.current = alive.current
         /\ alive'.pendingKey = alive.pendingKey /\ alive'.off = alive.off
    <3>1. /\ l.cache = pruned.cache /\ l.keys = pruned.keys /\ l.current = pruned.current
          /\ l.pendingKey = pruned.pendingKey /\ (l.failed <=> pruned.failed)
        BY <1>5 DEF Untouched, Fields
    <3>2. l.off = pruned.off
        BY <1>4, <2>5 DEF KeepAlive!Unmount, Fields
    <3>3. QED
        BY <1>6, <2>3, <3>1, <3>2 DEF Fields
  <2>13. KeepType(alive')
    <3>1. alive'.tree \in [child : Kept \cup {NoChild}, inst : Nat, keep : BOOLEAN]
        BY <1>6 DEF KeepAlive!VNode
    <3>2. Instances(alive)' = Instances(alive)
        BY <2>10, <2>12 DEF Instances
    <3>3. alive'.posts = alive.posts
        BY <2>3, <2>9, <2>12
    <3>4. QED
        BY <2>2, <2>10, <2>12, <3>1, <3>2, <3>3 DEF KeepType, Instances
  <2>14. QED
      BY <2>1, <2>2, <2>3, <2>9, <2>10, <2>11, <2>12, <2>13 DEF Instances
<1>9. QED
    BY <1>1, <1>2, <1>6, <1>8 DEF KeepInv

\* The invariant holds at the start, ...
LEMMA KeepInit ==
    ASSUME KeepAlive!Init
    PROVE  KeepInv
<1>1. max \in Nat /\ aliveRenders = 0
    BY KeepParameters DEF KeepAlive!Init
<1>2. PICK include \in Included :
           alive = [tree |-> KeepAlive!VNode(NoChild, 0, FALSE), cache |-> <<>>, keys |-> <<>>,
                current |-> NoChild, pendingKey |-> NoChild, include |-> include,
                life |-> <<>>, off |-> <<>>, posts |-> <<>>, unmounted |-> FALSE,
                untidy |-> FALSE, revived |-> FALSE, failed |-> FALSE]
    BY DEF KeepAlive!Init
<1>3. DOMAIN alive = Fields
    BY <1>2 DEF Fields
<1>4. /\ alive.tree = KeepAlive!VNode(NoChild, 0, FALSE) /\ alive.cache = <<>>
      /\ alive.keys = <<>>
      /\ alive.current = NoChild /\ alive.pendingKey = NoChild /\ alive.life = <<>>
      /\ alive.off = <<>>
      /\ alive.posts = <<>> /\ ~alive.unmounted /\ ~alive.untidy /\ ~alive.revived
      /\ ~alive.failed
    BY <1>2
<1>5. alive.tree.child = NoChild /\ alive.tree.inst = 0 /\ ~alive.tree.keep
    BY <1>4 DEF KeepAlive!VNode
<1>6. /\ DOMAIN alive.cache = {} /\ DOMAIN alive.keys = {} /\ Instances(alive) = {}
      /\ KeepAlive!Range(alive.posts) = {}
    BY <1>4, EmptyRange DEF Instances
<1>7. KeepType(alive)
  <2>1. alive.tree \in [child : Kept \cup {NoChild}, inst : Nat, keep : BOOLEAN]
      BY <1>4 DEF KeepAlive!VNode
  <2>2. <<>> \in [{} -> Instances(alive)] /\ <<>> \in [{} -> Nat]
      OBVIOUS
  <2>3. /\ <<>> \in Seq({"shown", "hidden", "gone"}) /\ <<>> \in Seq(BOOLEAN)
        /\ <<>> \in Seq(Effects)
      OBVIOUS
  <2>4. QED
      BY <1>4, <1>6, <2>1, <2>2, <2>3 DEF KeepType
<1>8. Shown(alive) /\ Cached(alive) /\ Hooks(alive)
    BY <1>5, <1>6 DEF Shown, Cached, Hooks
<1>9. Keys(alive, aliveRenders)
  <2>1. DOMAIN alive.cache \cup ({alive.pendingKey} \ {NoChild}) = {}
      BY <1>4, <1>6
  <2>2. IsFiniteSet({}) /\ Cardinality({}) = 0
      BY FS_EmptySet
  <2>3. KeysAre(alive, {}, aliveRenders)
      BY <1>1, <1>6, <2>2 DEF KeysAre
  <2>4. QED
      BY <2>1, <2>3 DEF Keys
<1>10. Keeps(alive) /\ Done(alive)
    BY <1>4, <1>5, <1>6 DEF Keeps, Done, KeepAlive!Included1
<1>11. QED
    BY <1>1, <1>3, <1>4, <1>7, <1>8, <1>9, <1>10 DEF KeepInv, Lives

\* ... and through every step.
LEMMA KeepNext ==
    ASSUME KeepInv, [KeepAlive!Next]_KeepAlive!vars
    PROVE  KeepInv'
<1>1. CASE UNCHANGED KeepAlive!vars
    BY <1>1 DEF KeepInv, KeepAlive!vars, Lives, Keys, KeysAre
<1>2. CASE \E child \in Kept \cup {NoChild}, include \in Included : KeepAlive!Render(child, include)
    BY <1>2, RenderKeeps
<1>3. CASE KeepAlive!Post
    BY <1>3, PostKeeps
<1>4. CASE KeepAlive!UnmountKeepAlive
    BY <1>4, UnmountKeeps
<1>5. QED
    BY <1>1, <1>2, <1>3, <1>4 DEF KeepAlive!Next

\* What the run checks follows from it.
LEMMA KeepInvImplies ==
    ASSUME KeepInv
    PROVE  /\ KeepAlive!HiddenIsCached /\ KeepAlive!NoneIsRevived /\ KeepAlive!WithinLimits
           /\ KeepAlive!DeactivatedIsHidden /\ KeepAlive!NothingOutlives
<1>1. KeepAlive!NoneIsRevived
    BY DEF KeepInv, KeepAlive!NoneIsRevived
<1>2. SUFFICES ASSUME KeepAlive!Tidy
               PROVE  /\ KeepAlive!HiddenIsCached /\ KeepAlive!WithinLimits
                      /\ KeepAlive!DeactivatedIsHidden /\ KeepAlive!NothingOutlives
    BY <1>1, KeptCardinality
       DEF KeepAlive!HiddenIsCached, KeepAlive!WithinLimits, KeepAlive!DeactivatedIsHidden,
           KeepAlive!NothingOutlives
<1>3. /\ ~alive.untidy /\ alive.posts = <<>> /\ KeepType(alive)
      /\ KeepAlive!Range(alive.posts) = {}
    BY <1>2, EmptyRange DEF KeepAlive!Tidy, KeepInv
<1>4. DOMAIN alive.life = Instances(alive)
    BY <1>3 DEF KeepType, Instances
<1>5. KeepAlive!NothingOutlives
    BY <1>3, <1>4 DEF KeepInv, KeepAlive!NothingOutlives
<1>6. CASE alive.unmounted
    BY <1>3, <1>4, <1>5, <1>6, KeptCardinality
       DEF KeepInv, KeepAlive!HiddenIsCached, KeepAlive!WithinLimits,
           KeepAlive!DeactivatedIsHidden
<1>7. CASE ~alive.unmounted
  <2>1. Lives(alive, aliveRenders)
      BY <1>3, <1>7 DEF KeepInv
  <2>2. KeepAlive!HiddenIsCached
    <3>1. SUFFICES ASSUME NEW i \in Instances(alive), alive.life[i] = "hidden" PROVE i \in KeepAlive!Range(alive.cache)
        BY <1>4 DEF KeepAlive!HiddenIsCached
    <3>2. PICK c \in DOMAIN alive.cache : alive.cache[c] = i
        BY <2>1, <3>1 DEF Lives, Cached
    <3>3. QED
        BY <3>2 DEF KeepAlive!Range
  <2>3. KeepAlive!WithinLimits
    <3>1. alive.pendingKey \in DOMAIN alive.cache \cup {NoChild} /\ \A c \in DOMAIN alive.cache : KeepAlive!Included1(alive, c)
        BY <1>3, <2>1 DEF Lives, Done
    <3>2. DOMAIN alive.cache \cup ({alive.pendingKey} \ {NoChild}) = DOMAIN alive.cache
        BY <3>1
    <3>3. KeysAre(alive, DOMAIN alive.cache, aliveRenders)
        BY <2>1, <3>2 DEF Lives, Keys
    <3>4. QED
        BY <3>1, <3>3, KeptCardinality DEF KeepAlive!WithinLimits, KeysAre
  <2>4. KeepAlive!DeactivatedIsHidden
    <3>1. SUFFICES ASSUME NEW i \in Instances(alive), alive.life[i] # "gone"
                   PROVE  alive.off[i] <=> alive.life[i] = "hidden"
        BY <1>4 DEF KeepAlive!DeactivatedIsHidden
    <3>2. alive.life[i] = "hidden" \/ alive.life[i] = "shown"
        BY <1>3, <3>1 DEF KeepType, Instances
    <3>3. QED
        BY <1>3, <2>1, <3>2 DEF Lives, Hooks
  <2>5. QED
      BY <1>5, <2>2, <2>3, <2>4
<1>8. QED
    BY <1>6, <1>7

-----------------------------------------------------------------------------
(* The invariant of the asynchronous components.  A request that is not    *)
(* answered has a wrapper that waits for it, by itself or by requests that *)
(* follow one another to it.                                               *)

Ats == {"loading", "asking", "loaded", "invalid", "retried", "follows", "resolved", "rejected"}
LoadState == [at : Ats, comp : Nat, on : Nat]
WrapperState == [at : {"none", "inner", "waiting", "answered"}, request : Nat,
                 loaded : BOOLEAN, error : BOOLEAN, delayed : BOOLEAN, timer : BOOLEAN]

AsyncType ==
    /\ option \in Async!Options /\ resolvedComp \in Nat
    /\ requests \in Seq(LoadState) /\ wrapper \in [Wrapper -> WrapperState]

\* Request b is a, or what a follows or asked for, or what that does.
LeadsTo(a, b) ==
    \A S \in SUBSET Nat :
        a \in S /\ (\A r \in S \cap DOMAIN requests : requests[r].on # 0 => requests[r].on \in S)
            => b \in S
WaitedFor(r) == \E w \in Wrapper : wrapper[w].at = "waiting" /\ LeadsTo(wrapper[w].request, r)

\* A request only waits for a later one; when it has its answer, that one has the same.
WaitsForLater(r) ==
    /\ requests[r].on = 0 \/ requests[r].on \in r + 1..Len(requests)
    /\ requests[r].at \in {"loading", "asking", "loaded", "invalid"} => requests[r].on = 0
    /\ requests[r].at \in {"retried", "follows"} => requests[r].on # 0
    /\ Async!Settled(r) /\ requests[r].on # 0 => requests[requests[r].on].at = requests[r].at

\* The request that is pending is the last, and what it has given is what there is.
InOrder ==
    /\ pendingRequest \in {0, Len(requests)}
    /\ pendingRequest # 0 /\ requests[pendingRequest].at = "resolved" =>
           requests[pendingRequest].comp = resolvedComp
    /\ \A w \in Wrapper : wrapper[w].at = "waiting" => wrapper[w].request \in DOMAIN requests
    /\ \A r \in DOMAIN requests : WaitsForLater(r)

\* Some wrapper waits for every request that has no answer yet, and for the pending one if
\* it is not resolved: its error will forget it.
Awaited ==
    /\ \A r \in DOMAIN requests : Async!Settled(r) \/ WaitedFor(r)
    /\ pendingRequest # 0 /\ requests[pendingRequest].at # "resolved" => WaitedFor(pendingRequest)

AsyncInv == AsyncType /\ InOrder /\ Awaited

-----------------------------------------------------------------------------
\* The invariant holds at the start.
LEMMA AsyncInit == Async!Init => AsyncInv
BY DEF Async!Init, Async!Unmounted, AsyncInv, AsyncType, InOrder, WaitsForLater, Awaited, WrapperState

\* It still does when more is waited for, by requests that waited for nothing.
LEMMA LeadsStay ==
    ASSUME NEW a, NEW b, LeadsTo(a, b), DOMAIN requests \subseteq DOMAIN requests',
           \A r \in DOMAIN requests : requests[r].on # 0 => requests'[r].on = requests[r].on
    PROVE  LeadsTo(a, b)'
<1> SUFFICES ASSUME NEW S \in SUBSET Nat, a \in S,
                    \A r \in S \cap DOMAIN requests' : requests'[r].on # 0 => requests'[r].on \in S
             PROVE  b \in S
    BY DEF LeadsTo
<1>1. \A r \in S \cap DOMAIN requests : requests[r].on # 0 => requests[r].on \in S
    OBVIOUS
<1>2. QED
    BY <1>1 DEF LeadsTo

\* A request that waits for the pending one instead of another that has its answer: it
\* leads to the pending one, and nothing else is lost that has no answer.
LEMMA LeadsElsewhere ==
    ASSUME AsyncInv, NEW q \in DOMAIN requests, NEW p \in Nat,
           requests[q].on # 0 => Async!Settled(requests[q].on),
           DOMAIN requests' = DOMAIN requests, requests'[q].on = p, p # 0,
           \A r \in DOMAIN requests \ {q} : requests'[r].on = requests[r].on,
           NEW a, NEW b, LeadsTo(a, b),
           b = p \/ (b \in DOMAIN requests /\ ~Async!Settled(b))
    PROVE  LeadsTo(a, b)'
<1> SUFFICES ASSUME NEW S \in SUBSET Nat, a \in S,
                    \A r \in S \cap DOMAIN requests' : requests'[r].on # 0 => requests'[r].on \in S
             PROVE  b \in S
    BY DEF LeadsTo
<1>1. CASE q \notin S
  <2>1. \A r \in S \cap DOMAIN requests : requests[r].on # 0 => requests[r].on \in S
      BY <1>1
  <2>2. QED
      BY <2>1 DEF LeadsTo
<1>2. CASE q \in S
  <2>1. p \in S
      BY <1>2
  <2>2. SUFFICES ASSUME b \in DOMAIN requests, ~Async!Settled(b) PROVE b \in S
      BY <2>1
  <2> DEFINE T == S \cup {r \in DOMAIN requests : Async!Settled(r)}
  <2>3. T \in SUBSET Nat
    <3>1. requests \in Seq(LoadState)
        BY DEF AsyncInv, AsyncType
    <3>2. DOMAIN requests \subseteq Nat
        BY <3>1
    <3>3. QED
        BY <3>2
  <2>4. ASSUME NEW r \in T \cap DOMAIN requests, requests[r].on # 0
        PROVE  requests[r].on \in T
    <3>1. requests[r].on \in DOMAIN requests
        BY <2>4 DEF AsyncInv, AsyncType, InOrder, WaitsForLater
    <3>2. CASE r = q
        BY <2>4, <3>1, <3>2
    <3>3. CASE r # q /\ r \in S
        BY <2>4, <3>3
    <3>4. CASE Async!Settled(r)
        BY <2>4, <3>1, <3>4 DEF AsyncInv, InOrder, WaitsForLater, Async!Settled
    <3>5. QED
        BY <3>2, <3>3, <3>4
  <2>5. b \in T
      BY <2>3, <2>4 DEF LeadsTo
  <2>6. QED
      BY <2>2, <2>5
<1>3. QED
    BY <1>1, <1>2

\* A step of the wrappers: who still waits goes on to wait for the same.
LEMMA WrapperMoves ==
    ASSUME AsyncInv, UNCHANGED <<option, resolvedComp, requests>>,
           pendingRequest' \in {0, pendingRequest}, wrapper' \in [Wrapper -> WrapperState],
           \A w \in Wrapper : wrapper'[w].at = "waiting" =>
               wrapper[w].at = "waiting" /\ wrapper'[w].request = wrapper[w].request,
           \A w \in Wrapper : wrapper[w].at = "waiting" /\ wrapper'[w].at # "waiting" =>
               \/ pendingRequest' = 0 /\ Async!Settled(wrapper[w].request)
               \/ requests[wrapper[w].request].at = "resolved"
    PROVE  AsyncInv'
<1>1. AsyncType' /\ InOrder'
    BY DEF AsyncInv, AsyncType, InOrder, WaitsForLater, Async!Settled
<1>2. \A a, b : LeadsTo(a, b) => LeadsTo(a, b)'
    BY DEF LeadsTo
<1>3. ASSUME NEW w \in Wrapper, wrapper[w].at = "waiting", Async!Settled(wrapper[w].request),
             NEW b, LeadsTo(wrapper[w].request, b)
      PROVE  b \in DOMAIN requests /\ Async!Settled(b)
  <2> DEFINE T == {r \in DOMAIN requests : Async!Settled(r)}
  <2>1. T \in SUBSET Nat
      BY DEF AsyncInv, AsyncType
  <2>2. ASSUME NEW r \in T, requests[r].on # 0 PROVE requests[r].on \in T
      BY <2>2 DEF AsyncInv, AsyncType, InOrder, WaitsForLater, Async!Settled
  <2>3. wrapper[w].request \in T
      BY <1>3 DEF AsyncInv, InOrder, WaitsForLater
  <2>4. b \in T
      BY <1>3, <2>1, <2>2, <2>3 DEF LeadsTo
  <2>5. QED
      BY <2>4
<1>4. ASSUME NEW r \in DOMAIN requests, ~Async!Settled(r) PROVE WaitedFor(r)'
  <2>1. PICK w \in Wrapper : wrapper[w].at = "waiting" /\ LeadsTo(wrapper[w].request, r)
      BY <1>4 DEF AsyncInv, Awaited, WaitedFor
  <2>2. ~Async!Settled(wrapper[w].request)
      BY <1>3, <1>4, <2>1
  <2>3. wrapper'[w].at = "waiting"
      BY <2>1, <2>2 DEF Async!Settled
  <2>4. QED
      BY <1>2, <2>1, <2>3 DEF WaitedFor
<1>5. ASSUME pendingRequest' # 0, requests[pendingRequest].at # "resolved"
      PROVE  WaitedFor(pendingRequest)'
  <2>1. PICK w \in Wrapper :
            wrapper[w].at = "waiting" /\ LeadsTo(wrapper[w].request, pendingRequest)
      BY <1>5 DEF AsyncInv, Awaited, WaitedFor
  <2>2. requests[wrapper[w].request].at # "resolved"
    <3> DEFINE T == {r \in DOMAIN requests : requests[r].at = "resolved"}
    <3>1. SUFFICES ASSUME requests[wrapper[w].request].at = "resolved" PROVE FALSE
        OBVIOUS
    <3>2. T \in SUBSET Nat
        BY DEF AsyncInv, AsyncType
    <3>3. ASSUME NEW r \in T, requests[r].on # 0 PROVE requests[r].on \in T
        BY <3>3 DEF AsyncInv, AsyncType, InOrder, WaitsForLater, Async!Settled
    <3>4. wrapper[w].request \in T
        BY <2>1, <3>1 DEF AsyncInv, InOrder
    <3>5. pendingRequest \in T
        BY <2>1, <3>2, <3>3, <3>4 DEF LeadsTo
    <3>6. QED
        BY <1>5, <3>5
  <2>3. wrapper'[w].at = "waiting"
      BY <1>5, <2>1, <2>2
  <2>4. QED
      BY <1>2, <1>5, <2>1, <2>3 DEF WaitedFor
<1>6. \A r \in DOMAIN requests' : Async!Settled(r)' \/ WaitedFor(r)'
    BY <1>4 DEF Async!Settled
<1>7. QED
    BY <1>1, <1>5, <1>6 DEF AsyncInv, Awaited

LEMMA WrapperKeeps ==
    ASSUME AsyncInv, NEW w \in Wrapper, Async!WrapperSteps(w)
    PROVE  AsyncInv'
<1>1. wrapper \in [Wrapper -> WrapperState] /\ option \in Async!Options
    BY DEF AsyncInv, AsyncType
<1>2. Async!ErrorKept \in BOOLEAN
    BY <1>1 DEF Async!ErrorKept, Async!Options
<1>3. CASE Async!WrapperLoaded(w)
    BY <1>1, <1>3, WrapperMoves DEF Async!WrapperLoaded, WrapperState
<1>4. CASE Async!WrapperFails(w)
    BY <1>1, <1>2, <1>4, WrapperMoves
       DEF Async!WrapperFails, Async!OnError, Async!Settled, WrapperState
<1>5. CASE Async!TimesOut(w)
    BY <1>1, <1>2, <1>5, WrapperMoves DEF Async!TimesOut, Async!OnError, WrapperState
<1>6. CASE Async!DelayPasses(w)
    BY <1>1, <1>6, WrapperMoves DEF Async!DelayPasses, WrapperState
<1>7. QED
    BY <1>3, <1>4, <1>5, <1>6 DEF Async!WrapperSteps

\* setup: the wrapper has the component, or waits for the request that is pending then.
LEMMA MountKeeps ==
    ASSUME AsyncInv, NEW w \in Wrapper, Async!Mount(w)
    PROVE  AsyncInv'
<1>1. /\ wrapper \in [Wrapper -> WrapperState] /\ option \in Async!Options
      /\ requests \in Seq(LoadState) /\ resolvedComp \in Nat
    BY DEF AsyncInv, AsyncType
<1>2. CASE resolvedComp # 0
    BY <1>1, <1>2, WrapperMoves DEF Async!Mount, WrapperState
<1>3. CASE resolvedComp = 0
  <2> PICK p : p = Async!Request
      OBVIOUS
  <2>1. /\ pendingRequest' = p /\ UNCHANGED <<option, resolvedComp>>
        /\ requests' = IF pendingRequest # 0 THEN requests ELSE Append(requests, Async!NewRequest)
        /\ wrapper[w].at = "none"
        /\ wrapper' = [wrapper EXCEPT ![w].at = "waiting", ![w].request = p,
                                      ![w].timer = option.timeout /\ w \notin Controlled]
      BY <1>3 DEF Async!Mount, Async!Load
  <2>2. /\ requests' \in Seq(LoadState) /\ p \in DOMAIN requests' /\ p = Len(requests')
        /\ DOMAIN requests \subseteq DOMAIN requests' /\ Len(requests) <= Len(requests')
        /\ \A r \in DOMAIN requests : requests'[r] = requests[r]
        /\ \A r \in DOMAIN requests' \ DOMAIN requests : r = p /\ requests'[r] = Async!NewRequest
    <3>1. CASE pendingRequest # 0
      <4>1. pendingRequest = Len(requests) /\ p = pendingRequest /\ requests' = requests
          BY <2>1, <3>1 DEF AsyncInv, InOrder, WaitsForLater, Async!Request
      <4>2. QED
          BY <1>1, <3>1, <4>1
    <3>2. CASE pendingRequest = 0
      <4>1. /\ p = Len(requests) + 1 /\ requests' = Append(requests, Async!NewRequest)
            /\ Async!NewRequest \in LoadState
          BY <2>1, <3>2 DEF Async!Request, Async!NewRequest, LoadState, Ats
      <4>2. QED
          BY <1>1, <4>1
    <3>3. QED
        BY <3>1, <3>2
  <2>3. /\ wrapper' \in [Wrapper -> WrapperState]
        /\ wrapper'[w].at = "waiting" /\ wrapper'[w].request = p
        /\ \A v \in Wrapper \ {w} : wrapper'[v] = wrapper[v]
    <3> DEFINE rec == [wrapper[w] EXCEPT !.at = "waiting", !.request = p,
                                         !.timer = option.timeout /\ w \notin Controlled]
    <3>1. p \in Nat
        BY <2>2
    <3>2. wrapper[w] \in WrapperState /\ (option.timeout /\ w \notin Controlled) \in BOOLEAN
        BY <1>1 DEF Async!Options
    <3>3. rec \in WrapperState /\ rec.at = "waiting" /\ rec.request = p
        BY <3>1, <3>2 DEF WrapperState
    <3>4. wrapper' = [wrapper EXCEPT ![w] = rec]
        BY <1>1, <2>1
    <3>5. QED
        BY <1>1, <3>3, <3>4
  <2>4. AsyncType'
      BY <1>1, <2>1, <2>2, <2>3 DEF AsyncType
  <2>5. InOrder'
    <3>1. \A v \in Wrapper : wrapper'[v].at = "waiting" => wrapper'[v].request \in DOMAIN requests'
        BY <2>2, <2>3 DEF AsyncInv, InOrder, WaitsForLater
    <3>2. ASSUME NEW r \in DOMAIN requests
          PROVE  WaitsForLater(r)'
      <4>1. requests[r].on = 0 \/ requests[r].on \in DOMAIN requests
          BY <1>1 DEF AsyncInv, InOrder, WaitsForLater
      <4>2. r \in Nat /\ Len(requests) \in Nat /\ Len(requests') \in Nat
          BY <1>1, <2>2
      <4>3. QED
          BY <1>1, <2>1, <2>2, <4>1, <4>2 DEF AsyncInv, InOrder, WaitsForLater, Async!Settled
    <3>3. ASSUME NEW r \in DOMAIN requests' \ DOMAIN requests
          PROVE  requests'[r].on = 0 /\ requests'[r].at = "loading"
        BY <2>2 DEF Async!NewRequest
    <3>4. \A r \in DOMAIN requests' : WaitsForLater(r)'
        BY <3>2, <3>3 DEF WaitsForLater, Async!Settled
    <3>5. requests'[p].at = "resolved" => requests'[p].comp = resolvedComp'
      <4>1. CASE p \in DOMAIN requests
        <5>1. pendingRequest # 0 /\ p = pendingRequest
            BY <1>1, <4>1 DEF Async!Request
        <5>2. QED
            BY <2>1, <2>2, <4>1, <5>1 DEF AsyncInv, InOrder
      <4>2. CASE p \notin DOMAIN requests
          BY <2>2, <3>3, <4>2
      <4>3. QED
          BY <4>1, <4>2
    <3>6. QED
        BY <2>1, <2>2, <3>1, <3>4, <3>5 DEF InOrder
  <2>6. \A a, b : LeadsTo(a, b) => LeadsTo(a, b)'
      BY <2>2, LeadsStay
  <2>7. WaitedFor(p)'
    <3>1. LeadsTo(p, p)'
        BY DEF LeadsTo
    <3>2. QED
        BY <2>3, <3>1 DEF WaitedFor
  <2>8. ASSUME NEW r \in DOMAIN requests, WaitedFor(r) PROVE WaitedFor(r)'
    <3>1. PICK v \in Wrapper : wrapper[v].at = "waiting" /\ LeadsTo(wrapper[v].request, r)
        BY <2>8 DEF WaitedFor
    <3>2. wrapper'[v] = wrapper[v]
        BY <2>1, <2>3, <3>1
    <3>3. QED
        BY <2>6, <3>1, <3>2 DEF WaitedFor
  <2>9. \A r \in DOMAIN requests' : Async!Settled(r)' \/ WaitedFor(r)'
      BY <2>2, <2>7, <2>8 DEF AsyncInv, Awaited, Async!Settled
  <2>10. QED
      BY <2>1, <2>4, <2>5, <2>7, <2>9 DEF AsyncInv, Awaited
<1>4. QED
    BY <1>2, <1>3

\* One request gets on, and waits for the same as before, or for the first time for a
\* later one that is pending, or for the pending one instead of one with an answer.
LEMMA RequestMoves ==
    ASSUME AsyncInv, NEW q \in DOMAIN requests, NEW rec \in LoadState,
           ~Async!Settled(q), UNCHANGED <<option, wrapper, pendingRequest>>,
           resolvedComp' \in Nat, resolvedComp' = resolvedComp \/ pendingRequest \in {0, q},
           requests' = [requests EXCEPT ![q] = rec],
           \/ rec.on = requests[q].on
           \/ /\ rec.on = pendingRequest /\ rec.on \in q + 1..Len(requests)
              /\ requests[q].on # 0 => Async!Settled(requests[q].on),
           rec.at \in {"loading", "asking", "loaded", "invalid"} => rec.on = 0,
           rec.at \in {"retried", "follows"} => rec.on # 0,
           rec.at \in {"resolved", "rejected"} /\ rec.on # 0 => requests[rec.on].at = rec.at,
           pendingRequest = q /\ rec.at = "resolved" => rec.comp = resolvedComp'
    PROVE  AsyncInv'
<1>1. requests \in Seq(LoadState) /\ option \in Async!Options /\ wrapper \in [Wrapper -> WrapperState]
    BY DEF AsyncInv, AsyncType
<1>2. /\ requests' \in Seq(LoadState) /\ DOMAIN requests' = DOMAIN requests
      /\ Len(requests') = Len(requests) /\ requests'[q] = rec
      /\ \A r \in DOMAIN requests \ {q} : requests'[r] = requests[r]
    BY <1>1
<1>3. AsyncType'
    BY <1>1, <1>2 DEF AsyncType
<1>4. \A r : Async!Settled(r) /\ r \in DOMAIN requests => Async!Settled(r)'
    BY <1>2 DEF Async!Settled
<1>5. InOrder'
  <2>1. ASSUME NEW r \in DOMAIN requests
        PROVE  WaitsForLater(r)'
    <3>1. CASE r = q
      <4>1. rec.on = 0 \/ rec.on \in q + 1..Len(requests)
          BY DEF AsyncInv, InOrder, WaitsForLater
      <4>2. rec.on # 0 => rec.on \in DOMAIN requests /\ rec.on # q
          BY <1>1, <4>1
      <4>3. QED
          BY <1>2, <1>4, <3>1, <4>1, <4>2 DEF WaitsForLater, Async!Settled
    <3>2. CASE r # q
      <4>1. requests[r].on # 0 => requests[r].on \in DOMAIN requests
          BY <1>1 DEF AsyncInv, InOrder, WaitsForLater
      <4>2. (Async!Settled(r)' => Async!Settled(r))
            /\ (Async!Settled(r) /\ requests[r].on # 0 => requests[r].on # q)
          BY <1>2, <3>2 DEF Async!Settled, AsyncInv, InOrder, WaitsForLater
      <4>3. QED
          BY <1>2, <1>4, <3>2, <4>1, <4>2 DEF AsyncInv, InOrder, WaitsForLater
    <3>3. QED
        BY <3>1, <3>2
  <2>2. pendingRequest # 0 /\ requests'[pendingRequest].at = "resolved" =>
            requests'[pendingRequest].comp = resolvedComp'
    <3>1. CASE pendingRequest = q
        BY <1>2, <3>1
    <3>2. CASE pendingRequest \notin {0, q}
      <4>1. pendingRequest \in DOMAIN requests \ {q}
          BY <1>1, <3>2 DEF AsyncInv, InOrder
      <4>2. QED
          BY <1>2, <3>2, <4>1 DEF AsyncInv, InOrder
    <3>3. QED
        BY <3>1, <3>2
  <2>3. QED
      BY <1>2, <2>1, <2>2 DEF AsyncInv, InOrder, WaitsForLater
<1>6. ASSUME NEW a, NEW b, LeadsTo(a, b),
             b = pendingRequest \/ (b \in DOMAIN requests /\ ~Async!Settled(b))
      PROVE  LeadsTo(a, b)'
  <2>1. CASE rec.on = requests[q].on
      BY <1>2, <1>6, <2>1, LeadsStay
  <2>2. CASE rec.on = pendingRequest /\ rec.on \in q + 1..Len(requests)
             /\ (requests[q].on # 0 => Async!Settled(requests[q].on))
    <3>1. rec.on \in Nat /\ rec.on # 0
        BY <1>1, <2>2
    <3>2. QED
        BY <1>2, <1>6, <2>2, <3>1, LeadsElsewhere
  <2>3. QED
      BY <2>1, <2>2
<1>7. ASSUME NEW r \in DOMAIN requests, ~Async!Settled(r)' PROVE WaitedFor(r)'
  <2>1. ~Async!Settled(r)
      BY <1>4, <1>7
  <2>2. PICK w \in Wrapper : wrapper[w].at = "waiting" /\ LeadsTo(wrapper[w].request, r)
      BY <2>1 DEF AsyncInv, Awaited, WaitedFor
  <2>3. QED
      BY <1>6, <2>1, <2>2 DEF WaitedFor
<1>8. ASSUME pendingRequest # 0, requests'[pendingRequest].at # "resolved"
      PROVE  WaitedFor(pendingRequest)'
  <2>1. pendingRequest \in DOMAIN requests
      BY <1>1, <1>8 DEF AsyncInv, InOrder
  <2>2. requests[pendingRequest].at # "resolved"
      BY <1>2, <1>8, <2>1 DEF Async!Settled
  <2>3. PICK w \in Wrapper :
            wrapper[w].at = "waiting" /\ LeadsTo(wrapper[w].request, pendingRequest)
      BY <1>8, <2>2 DEF AsyncInv, Awaited, WaitedFor
  <2>4. QED
      BY <1>6, <2>3 DEF WaitedFor
<1>9. QED
    BY <1>2, <1>3, <1>5, <1>7, <1>8 DEF AsyncInv, Awaited

\* The loader settles, or the user does not ask again.
LEMMA LoaderKeeps ==
    ASSUME AsyncInv, NEW q \in DOMAIN requests,
           \/ Async!LoaderLoads(q) \/ Async!LoaderGivesNothing(q)
           \/ Async!LoaderGivesNoComponent(q) \/ Async!LoaderFails(q) \/ Async!UserFails(q)
    PROVE  AsyncInv'
<1>1. requests \in Seq(LoadState) /\ requests[q] \in LoadState /\ q \in Nat /\ resolvedComp \in Nat
    BY DEF AsyncInv, AsyncType
<1>2. requests[q].at \in {"loading", "asking"} /\ requests[q].on = 0
    BY DEF Async!LoaderLoads, Async!LoaderGivesNothing, Async!LoaderGivesNoComponent, Async!LoaderFails, Async!UserFails,
           AsyncInv, InOrder, WaitsForLater
<1>3. ~Async!Settled(q)
    BY <1>2 DEF Async!Settled
<1>4. PICK at \in {"loaded", "invalid", "asking", "rejected"}, comp \in {q, requests[q].comp} :
          requests' = [requests EXCEPT ![q] = [@ EXCEPT !.at = at, !.comp = comp]]
    BY <1>1 DEF Async!LoaderLoads, Async!LoaderGivesNothing, Async!LoaderGivesNoComponent, Async!LoaderFails,
                Async!UserFails, LoadState
<1> PICK rec : rec = [requests[q] EXCEPT !.at = at, !.comp = comp]
    OBVIOUS
<1>5. /\ rec \in LoadState /\ rec.on = 0 /\ rec.at \in {"loaded", "invalid", "asking", "rejected"}
      /\ requests' = [requests EXCEPT ![q] = rec]
    BY <1>1, <1>2, <1>4 DEF LoadState, Ats
<1>6. UNCHANGED <<option, wrapper, pendingRequest, resolvedComp>>
    BY DEF Async!LoaderLoads, Async!LoaderGivesNothing, Async!LoaderGivesNoComponent, Async!LoaderFails, Async!UserFails
<1>7. QED
    BY <1>1, <1>2, <1>3, <1>5, <1>6, RequestMoves

\* A request whose callback comes has its component from itself or from a later one that
\* has its answer.
LEMMA LoadedIs ==
    ASSUME AsyncInv, NEW q \in DOMAIN requests, Async!Loaded(q)
    PROVE  /\ ~Async!Settled(q)
           /\ Async!CompOf(q) \in Nat
           /\ requests[q].on # 0 =>
                 /\ requests[q].at # "invalid" /\ requests[requests[q].on].at = "resolved"
                 /\ requests[q].on \in q + 1..Len(requests)
           /\ requests[q].on = 0 => Async!CompOf(q) = requests[q].comp
<1>1. requests \in Seq(LoadState) /\ q \in Nat
    BY DEF AsyncInv, AsyncType
<1>2. CASE requests[q].at \in {"loaded", "invalid"}
  <2>1. Async!CompOf(q) = requests[q].comp /\ ~Async!Settled(q)
      BY <1>2 DEF Async!CompOf, Async!Settled
  <2>2. requests[q].comp \in Nat
    <3>1. requests[q] \in LoadState
        BY <1>1
    <3>2. QED
        BY <3>1 DEF LoadState
  <2>3. requests[q].on = 0
      BY <1>2 DEF AsyncInv, InOrder, WaitsForLater
  <2>4. QED
      BY <2>1, <2>2, <2>3
<1>3. CASE requests[q].at = "retried" /\ requests[requests[q].on].at = "resolved"
  <2>1. requests[q].on # 0 /\ requests[q].on \in q + 1..Len(requests)
      BY <1>3 DEF AsyncInv, InOrder, WaitsForLater
  <2>2. requests[q].on \in DOMAIN requests
      BY <1>1, <2>1
  <2>3. QED
    <3>1. Async!CompOf(q) = requests[requests[q].on].comp
        BY <1>3 DEF Async!CompOf
    <3>2. requests[requests[q].on].comp \in Nat
      <4>1. requests[requests[q].on] \in LoadState
          BY <1>1, <2>2
      <4>2. QED
          BY <4>1 DEF LoadState
    <3>3. ~Async!Settled(q)
        BY <1>3 DEF Async!Settled
    <3>4. QED
        BY <1>3, <2>1, <3>1, <3>2, <3>3
<1>4. QED
    BY <1>2, <1>3 DEF Async!Loaded

LEMMA ThenKeeps ==
    ASSUME AsyncInv, NEW q \in DOMAIN requests, Async!Then(q)
    PROVE  AsyncInv'
<1>1. /\ requests \in Seq(LoadState) /\ requests[q] \in LoadState /\ q \in 1..Len(requests)
      /\ resolvedComp \in Nat /\ pendingRequest \in {0, Len(requests)} /\ Len(requests) \in Nat
    BY DEF AsyncInv, AsyncType, InOrder, WaitsForLater
<1>2. UNCHANGED <<option, wrapper, pendingRequest>>
    BY DEF Async!Then
<1>3. /\ ~Async!Settled(q) /\ Async!CompOf(q) \in Nat
      /\ requests[q].on # 0 =>
            requests[q].at # "invalid" /\ requests[requests[q].on].at = "resolved"
    BY LoadedIs DEF Async!Then
<1>4. CASE Async!Overtaken(q)
  <2> PICK rec : rec = [requests[q] EXCEPT !.at = "follows", !.on = pendingRequest]
      OBVIOUS
  <2>1. pendingRequest \in q + 1..Len(requests)
      BY <1>1, <1>4 DEF Async!Overtaken
  <2>2. /\ rec \in LoadState /\ rec.at = "follows" /\ rec.on = pendingRequest
        /\ requests' = [requests EXCEPT ![q] = rec] /\ resolvedComp' = resolvedComp
    <3>1. pendingRequest \in Nat /\ "follows" \in Ats
        BY <1>1 DEF Ats
    <3>2. rec \in LoadState /\ rec.at = "follows" /\ rec.on = pendingRequest
        BY <1>1, <3>1 DEF LoadState
    <3>3. QED
        BY <1>1, <1>4, <3>2 DEF Async!Then
  <2>3. rec.on # 0
      BY <1>1, <2>1, <2>2
  <2>4. requests[q].on # 0 => Async!Settled(requests[q].on)
      BY <1>3 DEF Async!Settled
  <2>5. QED
      BY <1>1, <1>2, <1>3, <2>1, <2>2, <2>3, <2>4, RequestMoves
<1>5. CASE ~Async!Overtaken(q) /\ requests[q].at # "invalid"
  <2> PICK rec : rec = [requests[q] EXCEPT !.at = "resolved", !.comp = Async!CompOf(q)]
      OBVIOUS
  <2>1. /\ rec \in LoadState /\ rec.at = "resolved" /\ rec.on = requests[q].on
        /\ requests' = [requests EXCEPT ![q] = rec]
        /\ resolvedComp' \in Nat /\ rec.comp = resolvedComp' /\ pendingRequest \in {0, q}
      BY <1>1, <1>3, <1>5 DEF Async!Then, Async!Overtaken, LoadState, Ats
  <2>2. QED
      BY <1>2, <1>3, <2>1, RequestMoves
<1>6. CASE ~Async!Overtaken(q) /\ requests[q].at = "invalid"
  <2> PICK rec : rec = [requests[q] EXCEPT !.at = "rejected"]
      OBVIOUS
  <2>1. /\ rec \in LoadState /\ rec.at = "rejected" /\ rec.on = requests[q].on /\ rec.on = 0
        /\ requests' = [requests EXCEPT ![q] = rec] /\ resolvedComp' = resolvedComp
      BY <1>1, <1>3, <1>6 DEF Async!Then, LoadState, Ats
  <2>2. QED
      BY <1>1, <1>2, <1>3, <2>1, RequestMoves
<1>7. QED
    BY <1>4, <1>5, <1>6

\* A promise settles as the one it follows.
LEMMA FollowsKeeps ==
    ASSUME AsyncInv, NEW q \in DOMAIN requests, Async!Follows(q)
    PROVE  AsyncInv'
<1>1. /\ requests \in Seq(LoadState) /\ requests[q] \in LoadState /\ resolvedComp \in Nat
      /\ requests[q].on \in DOMAIN requests /\ requests[q].on # 0
    BY DEF AsyncInv, AsyncType, InOrder, WaitsForLater, Async!Follows
<1> PICK on : on = requests[requests[q].on]
    OBVIOUS
<1> PICK rec : rec = [requests[q] EXCEPT !.at = on.at, !.comp = on.comp]
    OBVIOUS
<1>2. /\ on \in LoadState /\ on.at \in {"resolved", "rejected"}
      /\ requests[q].at \in {"follows", "retried"}
      /\ pendingRequest # q
  <2>1. /\ on.at \in {"resolved", "rejected"} /\ requests[q].at \in {"follows", "retried"}
      BY <1>1 DEF Async!Follows, Async!Settled
  <2>2. requests[q].on \in q + 1..Len(requests) /\ pendingRequest \in {0, Len(requests)}
      BY <1>1 DEF AsyncInv, InOrder, WaitsForLater
  <2>3. pendingRequest # q
      BY <1>1, <2>2
  <2>4. QED
      BY <1>1, <2>1, <2>3
<1>3. /\ rec \in LoadState /\ rec.at = on.at /\ rec.on = requests[q].on /\ rec.comp = on.comp
      /\ requests' = [requests EXCEPT ![q] = rec]
    BY <1>1, <1>2 DEF Async!Follows, LoadState
<1>4. ~Async!Settled(q) /\ Async!Settled(requests[q].on)
    BY <1>2 DEF Async!Settled
<1>5. UNCHANGED <<option, wrapper, pendingRequest, resolvedComp>>
    BY DEF Async!Follows
<1>6. QED
    BY <1>1, <1>2, <1>3, <1>4, <1>5, RequestMoves

\* The user asks again: who waits for the request that failed waits for the new one.
LEMMA RetryKeeps ==
    ASSUME AsyncInv, NEW q \in DOMAIN requests, Async!UserRetries(q)
    PROVE  AsyncInv'
<1> PICK n : n = Len(requests) + 1
    OBVIOUS
<1> PICK rec : rec = [requests[q] EXCEPT !.at = "retried", !.on = n]
    OBVIOUS
<1>1. /\ requests \in Seq(LoadState) /\ requests[q] \in LoadState /\ q \in 1..Len(requests)
      /\ Len(requests) \in Nat
      /\ option \in Async!Options /\ wrapper \in [Wrapper -> WrapperState] /\ resolvedComp \in Nat
    BY DEF AsyncInv, AsyncType
<1>2. /\ requests[q].at = "asking" /\ requests[q].on = 0
      /\ pendingRequest' = n /\ UNCHANGED <<option, wrapper, resolvedComp>>
      /\ requests' = Append([requests EXCEPT ![q] = rec], Async!NewRequest)
    BY <1>1 DEF Async!UserRetries, Async!AsksAnew, AsyncInv, InOrder, WaitsForLater
<1>3. rec \in LoadState /\ rec.at = "retried" /\ rec.on = n /\ Async!NewRequest \in LoadState
  <2>1. n \in Nat /\ "retried" \in Ats /\ "loading" \in Ats
      BY <1>1 DEF Ats
  <2>2. QED
      BY <1>1, <2>1 DEF LoadState, Async!NewRequest
<1>4. /\ requests' \in Seq(LoadState) /\ Len(requests') = n /\ DOMAIN requests' = 1..n
      /\ DOMAIN requests = 1..Len(requests)
      /\ requests'[q] = rec /\ requests'[n] = Async!NewRequest
      /\ \A r \in DOMAIN requests \ {q} : requests'[r] = requests[r]
      /\ \A r \in DOMAIN requests' : r \in DOMAIN requests \/ r = n
    BY <1>1, <1>2, <1>3
<1>5. AsyncType'
    BY <1>1, <1>2, <1>4 DEF AsyncType
<1>6. \A r \in DOMAIN requests : Async!Settled(r)' <=> Async!Settled(r)
    BY <1>2, <1>3, <1>4 DEF Async!Settled
<1>7. InOrder'
  <2>1. ASSUME NEW r \in DOMAIN requests'
        PROVE  WaitsForLater(r)'
    <3>1. CASE r = q
      <4>1. requests'[q].on = n /\ requests'[q].at = "retried" /\ n # 0 /\ n \in q + 1..Len(requests')
          BY <1>1, <1>3, <1>4
      <4>2. QED
          BY <1>4, <3>1, <4>1 DEF WaitsForLater, Async!Settled
    <3>2. CASE r = n
        BY <1>4, <3>2 DEF WaitsForLater, Async!NewRequest, Async!Settled
    <3>3. CASE r \in DOMAIN requests \ {q}
      <4>1. requests[r].on = 0 \/ requests[r].on \in r + 1..Len(requests)
          BY <3>3 DEF AsyncInv, InOrder, WaitsForLater
      <4>2. requests[r].on # 0 => requests[r].on \in DOMAIN requests /\ requests[r].on \in r + 1..n
          BY <1>1, <1>4, <3>3, <4>1
      <4>3. QED
          BY <1>2, <1>4, <1>6, <3>3, <4>2 DEF AsyncInv, InOrder, WaitsForLater
    <3>4. QED
        BY <1>4, <3>1, <3>2, <3>3
  <2>2. \A w \in Wrapper : wrapper'[w].at = "waiting" => wrapper'[w].request \in DOMAIN requests'
      BY <1>2, <1>4 DEF AsyncInv, InOrder, WaitsForLater
  <2>3. requests'[n].at = "loading"
      BY <1>4 DEF Async!NewRequest
  <2>4. QED
      BY <1>2, <1>4, <2>1, <2>2, <2>3 DEF InOrder
<1>8. ASSUME NEW a, NEW b, LeadsTo(a, b) PROVE LeadsTo(a, b)'
    BY <1>2, <1>4, <1>8, LeadsStay
<1>9. WaitedFor(q) /\ ~Async!Settled(q)
    BY <1>2 DEF AsyncInv, Awaited, Async!Settled
<1>10. WaitedFor(n)'
  <2>1. PICK w \in Wrapper : wrapper[w].at = "waiting" /\ LeadsTo(wrapper[w].request, q)
      BY <1>9 DEF WaitedFor
  <2>2. LeadsTo(wrapper[w].request, q)'
      BY <1>2, <1>8, <2>1
  <2>3. q \in DOMAIN requests' /\ requests'[q].on = n /\ n # 0
      BY <1>1, <1>3, <1>4
  <2>4. LeadsTo(wrapper[w].request, n)'
      BY <2>2, <2>3 DEF LeadsTo
  <2>5. QED
      BY <1>2, <2>1, <2>4 DEF WaitedFor
<1>11. ASSUME NEW r \in DOMAIN requests, WaitedFor(r) PROVE WaitedFor(r)'
    BY <1>2, <1>8, <1>11 DEF WaitedFor
<1>12. \A r \in DOMAIN requests' : Async!Settled(r)' \/ WaitedFor(r)'
    BY <1>4, <1>6, <1>10, <1>11 DEF AsyncInv, Awaited
<1>13. QED
    BY <1>2, <1>5, <1>7, <1>10, <1>12 DEF AsyncInv, Awaited

\* All of them.
LEMMA AsyncNext == AsyncInv /\ [Async!Next]_Async!vars => AsyncInv'
<1> SUFFICES ASSUME AsyncInv, [Async!Next]_Async!vars PROVE AsyncInv'
    OBVIOUS
<1>1. CASE UNCHANGED Async!vars
  <2>1. wrapper \in [Wrapper -> WrapperState]
      BY DEF AsyncInv, AsyncType
  <2>2. QED
      BY <1>1, <2>1, WrapperMoves DEF Async!vars
<1>2. QED
    BY <1>1, WrapperKeeps, MountKeeps, LoaderKeeps, ThenKeeps, FollowsKeeps, RetryKeeps
       DEF Async!Next, Async!RequestSteps

\* When all promises have called back, none is pending that failed.
LEMMA AsyncInvImplies == AsyncInv => Async!FailureIsAskedAgain
<1> SUFFICES ASSUME AsyncInv, Async!Quiet, pendingRequest # 0
             PROVE  /\ requests[pendingRequest].at = "resolved"
                    /\ requests[pendingRequest].comp = resolvedComp
    BY DEF Async!FailureIsAskedAgain
<1>1. ~WaitedFor(pendingRequest)
    BY DEF WaitedFor, Async!Quiet
<1>2. QED
    BY <1>1 DEF AsyncInv, InOrder, Awaited

\* What resolves is the request that is pending, if any is.
LEMMA ResolvesPending ==
    AsyncInv /\ [Async!Next]_Async!vars =>
        (resolvedComp' # resolvedComp /\ pendingRequest # 0 =>
             /\ requests'[pendingRequest].at = "resolved"
             /\ requests'[pendingRequest].comp = resolvedComp')
<1> SUFFICES ASSUME AsyncInv, [Async!Next]_Async!vars, resolvedComp' # resolvedComp,
                    pendingRequest # 0
             PROVE  /\ requests'[pendingRequest].at = "resolved"
                    /\ requests'[pendingRequest].comp = resolvedComp'
    OBVIOUS
<1>1. PICK q \in DOMAIN requests : Async!Then(q)
    BY DEF Async!Next, Async!vars, Async!Mount, Async!WrapperSteps, Async!WrapperLoaded,
           Async!WrapperFails, Async!TimesOut, Async!DelayPasses, Async!RequestSteps,
           Async!LoaderLoads, Async!LoaderGivesNothing, Async!LoaderGivesNoComponent,
           Async!LoaderFails, Async!UserRetries, Async!UserFails, Async!Follows
<1>2. ~Async!Overtaken(q) /\ requests[q].at # "invalid" /\ resolvedComp' = Async!CompOf(q)
    BY <1>1 DEF Async!Then
<1>3. pendingRequest = q
    BY <1>2 DEF Async!Overtaken
<1>4. requests' = [requests EXCEPT ![q] = [@ EXCEPT !.at = "resolved", !.comp = Async!CompOf(q)]]
    BY <1>1, <1>2 DEF Async!Then
<1>5. requests[q] \in LoadState
    BY DEF AsyncInv, AsyncType
<1>6. /\ requests'[q].at = "resolved" /\ requests'[q].comp = Async!CompOf(q)
    BY <1>4, <1>5 DEF LoadState
<1>7. QED
    BY <1>2, <1>3, <1>6


-----------------------------------------------------------------------------
(* Side by side.                                                           *)

\* The parts share nothing with the reactivity: it behaves as it does alone.
LEMMA ReactivityIsItself == MCSpec => Reactivity!Spec
<1>1. MCInit => Reactivity!Init
    BY DEF MCInit
<1>2. [MCNext]_mcVars => [Reactivity!Next]_Reactivity!vars
    BY DEF MCNext, mcVars, reactivityVars, Reactivity!vars,
           Scheduler, Update, React, Load, Keep
<1>3. QED
    BY <1>1, <1>2, PTL DEF MCSpec, Reactivity!Spec

\* The invariant of the reactivity.
THEOREM ReactivityInvariant == Reactivity!Spec => []ReactInv
BY ReactInit, ReactNext, PTL DEF Reactivity!Spec

\* track and trigger: no effect is left with what it has read changed, unless it ran at
\* that time; one that is stopped is not tracked, unless it was stopped while it ran; and
\* tracking is as it was after whatever ran.
THEOREM NothingStale == MCSpec => []NoStaleEffect
<1>1. ReactInv => NoStaleEffect
    BY ReactInvImplies DEF NoStaleEffect
<1>2. QED
    BY <1>1, ReactivityIsItself, ReactivityInvariant, PTL

\* KeepAlive too behaves as it does alone.
LEMMA KeepAliveIsItself == MCSpec => KeepAlive!Spec
<1>1. MCInit => KeepAlive!Init
    BY DEF MCInit
<1>2. [MCNext]_mcVars => [KeepAlive!Next]_KeepAlive!vars
    BY DEF MCNext, mcVars, aliveVars, KeepAlive!vars, Scheduler, Update, React, Load, Keep
<1>3. QED
    BY <1>1, <1>2, PTL DEF MCSpec, KeepAlive!Spec

\* The invariant of KeepAlive.
THEOREM KeepAliveInvariant == KeepAlive!Spec => []KeepInv
BY KeepInit, KeepNext, PTL DEF KeepAlive!Spec

\* KeepAlive: what is put aside can be found, what comes back is alive, the cache keeps to
\* its limits, and all of it goes in the end.
THEOREM KeptReachable == MCSpec => []KeptIsReachable
<1>1. KeepInv => KeptIsReachable
    BY KeepInvImplies DEF KeptIsReachable
<1>2. QED
    BY <1>1, KeepAliveIsItself, KeepAliveInvariant, PTL

\* So do asynchronous components.
LEMMA AsyncIsItself == MCSpec => Async!Init /\ [][Async!Next]_Async!vars
<1>1. MCInit => Async!Init
    BY DEF MCInit
<1>2. [MCNext]_mcVars => [Async!Next]_Async!vars
    BY DEF MCNext, mcVars, asyncVars, Async!vars, Scheduler, Update, React, Load, Keep
<1>3. QED
    BY <1>1, <1>2, PTL DEF MCSpec

\* defineAsyncComponent: a failure is not kept; when all promises have called back, a
\* request that is still pending has given what there is, the component or undefined.
THEOREM FailuresAreAskedAgain == MCSpec => []Async!FailureIsAskedAgain
BY AsyncIsItself, AsyncInit, AsyncNext, AsyncInvImplies, PTL

\* ... and while a request is pending only what that one gives is shown: one that is
\* overtaken gives way.
THEOREM NewestGives == MCSpec => Async!NewestIsGiven
BY AsyncIsItself, AsyncInit, AsyncNext, ResolvesPending, PTL DEF Async!NewestIsGiven
=============================================================================
