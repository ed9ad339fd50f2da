-------------------------- MODULE MCVueQueueProofs --------------------------
(***************************************************************************)
(* Proofs about the flushes of MCVueUpdates, for any components, values    *)
(* and mode of the watchers: the invariant SchedulerInv of the stack of    *)
(* calls and of the three queues while components and watchers use the     *)
(* scheduler, and that each step of the scheduler keeps it and loses no    *)
(* work that waits.  MCVuePageProofs adds the components' own steps.       *)
(***************************************************************************)
EXTENDS MCVueUpdates, VueSchedulerProofs

\* The calls: what they are made for, and where they can be.
NoUpdate == <<"none", "none">>
Own == Updates!Updates \cup Updates!Watches \cup Updates!Hooks
CallSet ==
    [fn : {"flushJobs", "task", "update", "flushPre", "flushPost", "schedule", "job"},
     at : {"pre", "sort", "jobs", "finally", "ends", "begin", "loop",
           "runs", "render", "rendered", "updated", "callback"},
     seen : [Own -> Nat], task : Own \cup {NoUpdate}, left : Nat]
Good(f) ==
    \/ f.fn = "flushJobs" /\ f.at \in {"pre", "sort", "jobs", "finally", "ends"} /\ f.task = NoUpdate
    \/ f.fn = "task" /\ f.task \in Updates!Updates /\ f.at \in {"runs", "render", "rendered", "updated"}
    \/ f.fn = "task" /\ f.task \in Updates!Watches /\ f.at \in {"runs", "callback"}
    \/ f.fn = "task" /\ f.task \in Updates!Hooks /\ f.at = "runs"
    \/ /\ f.fn = "update" /\ f.task \in Updates!Updates \ {Updates!Update(Updates!Root)}
       /\ f.at \in {"runs", "render", "rendered", "updated"}
    \/ /\ f.fn = "flushPre" /\ f.at \in {"begin", "loop"}
       /\ f.task \in (Updates!Updates \ {Updates!Update(Updates!Root)}) \cup {NoUpdate}
    \/ f.fn = "flushPost" /\ f.at \in {"begin", "loop"} /\ f.task = NoUpdate
    \/ f.fn = "schedule" /\ f.at = "runs" /\ f.task \in Updates!Updates \cup Updates!Watches
    \/ f.fn = "job" /\ f.at \in {"runs", "callback"} /\ f.task \in Updates!Watches

\* Which calls are made within which.
Level(f) ==
    IF f.fn = "flushJobs" THEN 0
    ELSE IF f.fn = "task" /\ f.task \in Updates!Updates THEN 1
    ELSE IF f.fn = "update" THEN 2
    ELSE IF f.fn \in {"flushPre", "flushPost"} THEN 3
    ELSE IF f.fn = "task" THEN 4
    ELSE 5
Over(f, g) ==
    \/ Level(g) < Level(f)
    \/ Level(f) = 5 /\ Level(g) = 5
    \/ f.fn = "flushJobs" /\ g.fn = "flushJobs" /\ g.at = "ends"
Makes(g, f) ==
    /\ f.fn = "flushJobs" => g.fn = "flushJobs" /\ g.at = "ends"
    /\ f.fn = "task" /\ f.task \in Updates!Updates => g.fn = "flushJobs" /\ g.at = "jobs"
    /\ f.fn = "task" /\ f.task \notin Updates!Updates => g.fn \in {"flushPre", "flushPost"} /\ g.at = "loop"
    /\ f.fn = "update" => g.fn = "task" /\ g.task = Updates!Update(Updates!Root) /\ g.at = "rendered"
    /\ f.fn = "flushPre" /\ f.task = NoUpdate => g.fn = "flushJobs" /\ g.at = "sort"
    /\ f.fn = "flushPre" /\ f.task # NoUpdate =>
          g.fn = "update" /\ g.at = "render" /\ g.task = f.task
    /\ f.fn = "flushPost" => g.fn = "flushJobs" /\ g.at = "finally"

\* A call that is made on top of a stack, and a stack that is made so.
Fits(f, s) ==
    /\ Good(f)
    /\ \A k \in 1..Len(s) : Over(f, s[k])
    /\ IF s = <<>> THEN f.fn \in {"flushJobs", "schedule", "job"} ELSE Makes(s[1], f)
Nested(s) ==
    \A i \in 1..Len(s) :
        /\ Good(s[i])
        /\ \A k \in 1..Len(s) : i < k => Over(s[i], s[k])
        /\ IF i = Len(s) THEN s[i].fn \in {"flushJobs", "schedule", "job"} ELSE Makes(s[i + 1], s[i])

\* What is under way.
Flushing(f) == f.fn = "flushJobs" /\ f.at \in {"sort", "jobs", "finally"}
NoFlushing(s) == \A i \in 1..Len(s) : ~Flushing(s[i])
OnLevel(s, n) == \E i \in 1..Len(s) : Level(s[i]) = n
Loops(s, fn, t) == \E i \in 1..Len(s) : s[i].fn = fn /\ s[i].at = "loop" /\ s[i].task = t
UpdateAt(s, c, ats) ==
    \E i \in 1..Len(s) : s[i].fn \in {"task", "update"} /\ s[i].task = Updates!Update(c) /\ s[i].at \in ats
Scheduled(s, t) == \E i \in 1..Len(s) : s[i].fn = "schedule" /\ s[i].task = t
IsJob(f, c, at) == f.fn \in {"task", "job"} /\ f.task = Updates!Watch(c) /\ f.at = at
RunsWatch(s, c) == \E i \in 1..Len(s) : IsJob(s[i], c, "runs")
NoCallback(s, c) == \A i \in 1..Len(s) : ~IsJob(s[i], c, "callback")
OneCallback(s, c) ==
    \E i \in 1..Len(s) : \A k \in 1..Len(s) : IsJob(s[k], c, "callback") <=> k = i
HasJob(s) == \E i \in 1..Len(s) : s[i].fn = "job"

\* The same calls, whatever they have seen and have left to do.
SameCalls(s, r) ==
    /\ Len(s) = Len(r)
    /\ \A i \in 1..Len(s) : s[i].fn = r[i].fn /\ s[i].at = r[i].at /\ s[i].task = r[i].task

-----------------------------------------------------------------------------
(* Stacks.                                                                 *)

\* A call more, index by index.
LEMMA OneMore ==
    ASSUME NEW T, NEW s \in Seq(T), NEW f \in T, NEW r, r = <<f>> \o s
    PROVE  /\ r \in Seq(T) /\ r # <<>> /\ Head(r) = f /\ Tail(r) = s /\ r[1] = f
           /\ Len(s) \in Nat /\ Len(r) = Len(s) + 1
           /\ \A i \in 1..Len(r) : i = 1 \/ (i - 1 \in 1..Len(s) /\ r[i] = s[i - 1])
           /\ \A i \in 1..Len(s) : i + 1 \in 1..Len(r) /\ r[i + 1] = s[i]
<1> DEFINE q == <<f>> \o s
<1>1. q \in Seq(T) /\ q # <<>> /\ Head(q) = f /\ Tail(q) = s /\ q[1] = f
    OBVIOUS
<1>2. Len(s) \in Nat /\ Len(q) = Len(s) + 1
    OBVIOUS
<1>3. \A i \in 1..Len(q) : i = 1 \/ (i - 1 \in 1..Len(s) /\ q[i] = s[i - 1])
    OBVIOUS
<1>4. \A i \in 1..Len(s) : i + 1 \in 1..Len(q) /\ q[i + 1] = s[i]
    OBVIOUS
<1>5. QED
    BY <1>1, <1>2, <1>3, <1>4

\* A stack that is not empty is its first call on top of the rest.
LEMMA TakenApart ==
    ASSUME NEW T, NEW s \in Seq(T), s # <<>>
    PROVE  s = <<Head(s)>> \o Tail(s) /\ Head(s) \in T /\ Tail(s) \in Seq(T) /\ Head(s) = s[1]
<1> DEFINE q == <<Head(s)>> \o Tail(s)
<1>1. Head(s) \in T /\ Tail(s) \in Seq(T) /\ Head(s) = s[1]
    OBVIOUS
<1>2. q \in Seq(T) /\ Len(q) = Len(s) /\ Len(s) \in Nat
    OBVIOUS
<1>3. \A i \in 1..Len(s) : q[i] = s[i]
    OBVIOUS
<1> HIDE DEF q
<1>4. q = s
    BY <1>2, <1>3, SeqEqual
<1>5. QED
    BY <1>1, <1>4 DEF q

\* The relations of calls.
LEMMA OverTransitive ==
    ASSUME NEW f, NEW g, NEW h, Over(f, g), Over(g, h)
    PROVE  Over(f, h)
BY DEF Over, Level

\* A stack is nested if its first call fits on the rest.
LEMMA NestedPush ==
    ASSUME NEW T, NEW s \in Seq(T), NEW f \in T, NEW r, r = <<f>> \o s
    PROVE  Nested(r) <=> Nested(s) /\ Fits(f, s)
<1>1. /\ r \in Seq(T) /\ r # <<>> /\ Head(r) = f /\ Tail(r) = s /\ r[1] = f
      /\ Len(s) \in Nat /\ Len(r) = Len(s) + 1
      /\ \A i \in 1..Len(r) : i = 1 \/ (i - 1 \in 1..Len(s) /\ r[i] = s[i - 1])
      /\ \A i \in 1..Len(s) : i + 1 \in 1..Len(r) /\ r[i + 1] = s[i]
    BY OneMore
<1>2. s = <<>> <=> Len(s) = 0
    OBVIOUS
<1>a. \A i \in 1..Len(s) : i + 1 \in 1..Len(r) /\ r[i + 1] = s[i]
    BY <1>1
<1>b. Len(s) \in Nat /\ Len(r) = Len(s) + 1
    BY <1>1
<1> HIDE DEF Good, Over, Makes
<1>3. ASSUME Nested(r) PROVE Nested(s)
  <2> SUFFICES ASSUME NEW i \in 1..Len(s)
               PROVE  /\ Good(s[i])
                      /\ \A k \in 1..Len(s) : i < k => Over(s[i], s[k])
                      /\ IF i = Len(s) THEN s[i].fn \in {"flushJobs", "schedule", "job"}
                         ELSE Makes(s[i + 1], s[i])
      BY DEF Nested
  <2>1. i + 1 \in 1..Len(r) /\ r[i + 1] = s[i]
      BY <1>1
  <2>2. \A k \in 1..Len(s) : i < k => Over(s[i], s[k])
      <3> SUFFICES ASSUME NEW k \in 1..Len(s), i < k PROVE Over(s[i], s[k])
          OBVIOUS
      <3>1. i + 1 < k + 1
          OBVIOUS
      <3>2. k + 1 \in 1..Len(r) /\ r[k + 1] = s[k]
          BY <1>a
      <3>3. QED
          BY <1>3, <2>1, <3>1, <3>2 DEF Nested
  <2>3. i = Len(s) => s[i].fn \in {"flushJobs", "schedule", "job"}
      BY <1>1, <1>3, <2>1 DEF Nested
  <2>4. i # Len(s) => Makes(s[i + 1], s[i])
      <3> SUFFICES ASSUME i # Len(s) PROVE Makes(s[i + 1], s[i])
          OBVIOUS
      <3>1. i + 1 \in 1..Len(s) /\ i + 1 # Len(r)
          BY <1>a, <1>b
      <3>2. r[(i + 1) + 1] = s[i + 1]
          BY <1>1, <3>1
      <3>3. QED
          BY <1>3, <2>1, <3>1, <3>2 DEF Nested
  <2>5. QED
      BY <1>3, <2>1, <2>2, <2>3, <2>4 DEF Nested
<1>4. ASSUME Nested(r) PROVE Fits(f, s)
  <2>1. 1 \in 1..Len(r)
      BY <1>1
  <2>2. \A k \in 1..Len(s) : Over(f, s[k])
      <3> SUFFICES ASSUME NEW k \in 1..Len(s) PROVE Over(f, s[k])
          OBVIOUS
      <3>1. k + 1 \in 1..Len(r) /\ r[k + 1] = s[k] /\ 1 < k + 1
          BY <1>1
      <3>2. QED
          BY <1>1, <1>4, <2>1, <3>1 DEF Nested
  <2>3. s # <<>> => r[1 + 1] = s[1] /\ 1 # Len(r)
      BY <1>1, <1>2
  <2>4. IF s = <<>> THEN f.fn \in {"flushJobs", "schedule", "job"} ELSE Makes(s[1], f)
      BY <1>1, <1>2, <1>4, <2>1, <2>3 DEF Nested
  <2>5. QED
      BY <1>1, <1>4, <2>1, <2>2, <2>4 DEF Nested, Fits
<1>5. ASSUME Nested(s), Fits(f, s) PROVE Nested(r)
  <2> SUFFICES ASSUME NEW i \in 1..Len(r)
               PROVE  /\ Good(r[i])
                      /\ \A k \in 1..Len(r) : i < k => Over(r[i], r[k])
                      /\ IF i = Len(r) THEN r[i].fn \in {"flushJobs", "schedule", "job"}
                         ELSE Makes(r[i + 1], r[i])
      BY DEF Nested
  <2>1. CASE i = 1
      <3>1. \A k \in 1..Len(r) : i < k => Over(r[i], r[k])
          BY <1>1, <1>5, <2>1 DEF Fits
      <3>2. i = Len(r) => s = <<>>
          BY <1>1, <1>2, <2>1
      <3>3. i # Len(r) => s # <<>> /\ r[i + 1] = s[1]
          BY <1>1, <1>2, <2>1
      <3>4. QED
          BY <1>1, <1>5, <2>1, <3>1, <3>2, <3>3 DEF Fits
  <2>2. CASE i # 1
      <3>1. i - 1 \in 1..Len(s) /\ r[i] = s[i - 1]
          BY <1>1, <2>2
      <3>2. \A k \in 1..Len(r) : i < k => Over(r[i], r[k])
          <4> SUFFICES ASSUME NEW k \in 1..Len(r), i < k PROVE Over(r[i], r[k])
              OBVIOUS
          <4>1. k # 1 /\ i - 1 < k - 1
              OBVIOUS
          <4>2. k - 1 \in 1..Len(s) /\ r[k] = s[k - 1]
              BY <1>1, <4>1
          <4>3. QED
              BY <1>5, <3>1, <4>1, <4>2 DEF Nested
      <3>3. i = Len(r) => r[i].fn \in {"flushJobs", "schedule", "job"}
          <4>1. i = Len(r) => i - 1 = Len(s)
              BY <1>b
          <4>2. QED
              BY <1>5, <3>1, <4>1 DEF Nested
      <3>4. i # Len(r) => Makes(r[i + 1], r[i])
          <4> SUFFICES ASSUME i # Len(r) PROVE Makes(r[i + 1], r[i])
              OBVIOUS
          <4>1. i - 1 # Len(s) /\ i \in 1..Len(s) /\ r[i + 1] = s[i] /\ (i - 1) + 1 = i
              BY <1>1, <3>1
          <4>2. QED
              BY <1>5, <3>1, <4>1 DEF Nested
      <3>5. QED
          BY <1>5, <3>1, <3>2, <3>3, <3>4 DEF Nested
  <2>3. QED
      BY <2>1, <2>2
<1>6. QED
    BY <1>3, <1>4, <1>5

\* What is under way with one call more.
LEMMA PushSees ==
    ASSUME NEW T, NEW s \in Seq(T), NEW f \in T, NEW r, r = <<f>> \o s
    PROVE  /\ NoFlushing(r) <=> ~Flushing(f) /\ NoFlushing(s)
           /\ \A n : OnLevel(r, n) <=> Level(f) = n \/ OnLevel(s, n)
           /\ \A fn, t : Loops(r, fn, t) <=> (f.fn = fn /\ f.at = "loop" /\ f.task = t) \/ Loops(s, fn, t)
           /\ \A c, ats : UpdateAt(r, c, ats) <=>
                 \/ f.fn \in {"task", "update"} /\ f.task = Updates!Update(c) /\ f.at \in ats
                 \/ UpdateAt(s, c, ats)
           /\ \A t : Scheduled(r, t) <=> (f.fn = "schedule" /\ f.task = t) \/ Scheduled(s, t)
           /\ \A c : RunsWatch(r, c) <=> IsJob(f, c, "runs") \/ RunsWatch(s, c)
           /\ \A c : NoCallback(r, c) <=> ~IsJob(f, c, "callback") /\ NoCallback(s, c)
           /\ \A c : IsJob(f, c, "callback") => (OneCallback(r, c) <=> NoCallback(s, c))
           /\ \A c : ~IsJob(f, c, "callback") => (OneCallback(r, c) <=> OneCallback(s, c))
           /\ HasJob(r) <=> f.fn = "job" \/ HasJob(s)
<1>1. r[1] = f /\ 1 \in 1..Len(r)
    BY OneMore
<1>2. \A i \in 1..Len(r) : i = 1 \/ (i - 1 \in 1..Len(s) /\ r[i] = s[i - 1])
    BY OneMore
<1>3. \A i \in 1..Len(s) : i + 1 \in 1..Len(r) /\ r[i + 1] = s[i]
    BY OneMore
<1>4. NoFlushing(r) <=> ~Flushing(f) /\ NoFlushing(s)
    BY <1>1, <1>2, <1>3 DEF NoFlushing
<1>5. ASSUME NEW n PROVE OnLevel(r, n) <=> Level(f) = n \/ OnLevel(s, n)
  <2>1. ASSUME OnLevel(r, n) PROVE Level(f) = n \/ OnLevel(s, n)
    <3>1. PICK i \in 1..Len(r) : Level(r[i]) = n
        BY <2>1 DEF OnLevel
    <3>2. i = 1 \/ (i - 1 \in 1..Len(s) /\ r[i] = s[i - 1])
        BY <1>2
    <3>3. QED
        BY <1>1, <3>1, <3>2 DEF OnLevel
  <2>2. ASSUME OnLevel(s, n) PROVE OnLevel(r, n)
    <3>1. PICK i \in 1..Len(s) : Level(s[i]) = n
        BY <2>2 DEF OnLevel
    <3>2. QED
        BY <1>3, <3>1 DEF OnLevel
  <2>3. QED
      BY <1>1, <2>1, <2>2 DEF OnLevel
<1>6. \A fn, t : Loops(r, fn, t) <=> (f.fn = fn /\ f.at = "loop" /\ f.task = t) \/ Loops(s, fn, t)
    BY <1>1, <1>2, <1>3 DEF Loops
<1>7. ASSUME NEW c, NEW ats
      PROVE  UpdateAt(r, c, ats) <=>
                 \/ f.fn \in {"task", "update"} /\ f.task = Updates!Update(c) /\ f.at \in ats
                 \/ UpdateAt(s, c, ats)
  <2>1. ASSUME UpdateAt(r, c, ats)
        PROVE  \/ f.fn \in {"task", "update"} /\ f.task = Updates!Update(c) /\ f.at \in ats
               \/ UpdateAt(s, c, ats)
    <3>1. PICK i \in 1..Len(r) :
             r[i].fn \in {"task", "update"} /\ r[i].task = Updates!Update(c) /\ r[i].at \in ats
        BY <2>1 DEF UpdateAt
    <3>2. CASE i = 1
        BY <1>1, <3>1, <3>2
    <3>3. CASE i - 1 \in 1..Len(s) /\ r[i] = s[i - 1]
        BY <3>1, <3>3 DEF UpdateAt
    <3>4. QED
        BY <1>2, <3>2, <3>3
  <2>2. ASSUME f.fn \in {"task", "update"} /\ f.task = Updates!Update(c) /\ f.at \in ats
        PROVE  UpdateAt(r, c, ats)
      BY <1>1, <2>2 DEF UpdateAt
  <2>3. ASSUME UpdateAt(s, c, ats)
        PROVE  UpdateAt(r, c, ats)
    <3>1. PICK i \in 1..Len(s) :
             s[i].fn \in {"task", "update"} /\ s[i].task = Updates!Update(c) /\ s[i].at \in ats
        BY <2>3 DEF UpdateAt
    <3>2. i + 1 \in 1..Len(r) /\ r[i + 1] = s[i]
        BY <1>3
    <3>3. QED
        BY <3>1, <3>2 DEF UpdateAt
  <2>4. QED
      BY <2>1, <2>2, <2>3
<1>8. \A t : Scheduled(r, t) <=> (f.fn = "schedule" /\ f.task = t) \/ Scheduled(s, t)
    BY <1>1, <1>2, <1>3 DEF Scheduled
<1>9. ASSUME NEW c PROVE RunsWatch(r, c) <=> IsJob(f, c, "runs") \/ RunsWatch(s, c)
    BY <1>1, <1>2, <1>3 DEF RunsWatch
<1>10. ASSUME NEW c PROVE NoCallback(r, c) <=> ~IsJob(f, c, "callback") /\ NoCallback(s, c)
    BY <1>1, <1>2, <1>3 DEF NoCallback
<1>11. ASSUME NEW c, IsJob(f, c, "callback") PROVE OneCallback(r, c) <=> NoCallback(s, c)
  <2>1. ASSUME OneCallback(r, c), NEW k \in 1..Len(s), IsJob(s[k], c, "callback") PROVE FALSE
    <3>1. k + 1 \in 1..Len(r) /\ r[k + 1] = s[k] /\ k + 1 # 1
        BY <1>3
    <3>2. PICK i \in 1..Len(r) : \A j \in 1..Len(r) : IsJob(r[j], c, "callback") <=> j = i
        BY <2>1 DEF OneCallback
    <3>3. i = 1
        BY <1>1, <1>11, <3>2
    <3>4. i = k + 1
        BY <2>1, <3>1, <3>2
    <3>5. QED
        BY <3>1, <3>3, <3>4
  <2>2. ASSUME NoCallback(s, c) PROVE OneCallback(r, c)
    <3>1. \A j \in 1..Len(r) : IsJob(r[j], c, "callback") <=> j = 1
        BY <1>1, <1>2, <1>11, <2>2 DEF NoCallback
    <3>2. QED
        BY <1>1, <3>1 DEF OneCallback
  <2>3. QED
      BY <2>1, <2>2 DEF NoCallback
<1>12. ASSUME NEW c, ~IsJob(f, c, "callback") PROVE OneCallback(r, c) <=> OneCallback(s, c)
  <2>1. ASSUME OneCallback(r, c) PROVE OneCallback(s, c)
    <3>1. PICK i \in 1..Len(r) : \A j \in 1..Len(r) : IsJob(r[j], c, "callback") <=> j = i
        BY <2>1 DEF OneCallback
    <3>2. i # 1
        BY <1>1, <1>12, <3>1
    <3>3. i - 1 \in 1..Len(s)
        BY <1>2, <3>2
    <3>4. ASSUME NEW k \in 1..Len(s) PROVE IsJob(s[k], c, "callback") <=> k = i - 1
      <4>1. k + 1 \in 1..Len(r) /\ r[k + 1] = s[k]
          BY <1>3
      <4>2. IsJob(s[k], c, "callback") <=> k + 1 = i
          BY <3>1, <4>1
      <4>3. QED
          BY <4>2
    <3>5. QED
        BY <3>3, <3>4 DEF OneCallback
  <2>2. ASSUME OneCallback(s, c) PROVE OneCallback(r, c)
    <3>1. PICK i \in 1..Len(s) : \A j \in 1..Len(s) : IsJob(s[j], c, "callback") <=> j = i
        BY <2>2 DEF OneCallback
    <3>2. i + 1 \in 1..Len(r)
        BY <1>3
    <3>3. ASSUME NEW k \in 1..Len(r) PROVE IsJob(r[k], c, "callback") <=> k = i + 1
      <4>1. CASE k = 1
          BY <1>1, <1>12, <4>1
      <4>2. CASE k # 1
        <5>1. k - 1 \in 1..Len(s) /\ r[k] = s[k - 1]
            BY <1>2, <4>2
        <5>2. IsJob(r[k], c, "callback") <=> k - 1 = i
            BY <3>1, <5>1
        <5>3. QED
            BY <5>2
      <4>3. QED
          BY <4>1, <4>2
    <3>4. QED
        BY <3>2, <3>3 DEF OneCallback
  <2>3. QED
      BY <2>1, <2>2
<1>13. HasJob(r) <=> f.fn = "job" \/ HasJob(s)
    BY <1>1, <1>2, <1>3 DEF HasJob
<1>14. QED
    BY <1>4, <1>5, <1>6, <1>7, <1>8, <1>9, <1>10, <1>11, <1>12, <1>13

\* What is the same for the same calls.
LEMMA SameSees ==
    ASSUME NEW T, NEW s \in Seq(T), NEW r \in Seq(T), SameCalls(s, r)
    PROVE  /\ Nested(s) <=> Nested(r)
           /\ NoFlushing(s) <=> NoFlushing(r)
           /\ \A n : OnLevel(s, n) <=> OnLevel(r, n)
           /\ \A fn, t : Loops(s, fn, t) <=> Loops(r, fn, t)
           /\ \A c, ats : UpdateAt(s, c, ats) <=> UpdateAt(r, c, ats)
           /\ \A t : Scheduled(s, t) <=> Scheduled(r, t)
           /\ \A c : RunsWatch(s, c) <=> RunsWatch(r, c)
           /\ \A c : NoCallback(s, c) <=> NoCallback(r, c)
           /\ \A c : OneCallback(s, c) <=> OneCallback(r, c)
           /\ HasJob(s) <=> HasJob(r)
           /\ s = <<>> <=> r = <<>>
           /\ s # <<>> => Head(s).fn = Head(r).fn /\ Head(s).at = Head(r).at /\ Head(s).task = Head(r).task
<1>1. Len(s) = Len(r) /\ Len(s) \in Nat
    BY DEF SameCalls
<1>2. \A i \in 1..Len(s) : s[i].fn = r[i].fn /\ s[i].at = r[i].at /\ s[i].task = r[i].task
    BY DEF SameCalls
<1>3. ASSUME NEW f, NEW g, f.fn = g.fn, f.at = g.at, f.task = g.task
      PROVE  /\ Good(f) <=> Good(g)
             /\ Level(f) = Level(g)
             /\ Flushing(f) <=> Flushing(g)
             /\ \A c, at : IsJob(f, c, at) <=> IsJob(g, c, at)
    BY <1>3 DEF Good, Level, Flushing, IsJob
<1>4. ASSUME NEW f, NEW g, f.fn = g.fn, f.at = g.at, f.task = g.task,
             NEW p, NEW q, p.fn = q.fn, p.at = q.at, p.task = q.task
      PROVE  (Over(f, p) <=> Over(g, q)) /\ (Makes(f, p) <=> Makes(g, q))
  <2>1. Level(f) = Level(g) /\ Level(p) = Level(q)
      BY <1>3, <1>4
  <2>2. Over(f, p) <=> Over(g, q)
      BY <1>4, <2>1 DEF Over
  <2>3. Makes(f, p) <=> Makes(g, q)
      BY <1>4 DEF Makes
  <2>4. QED
      BY <2>2, <2>3
<1>5. ASSUME NEW a \in Seq(T), NEW b \in Seq(T), Len(a) = Len(b), Nested(b),
             \A i \in 1..Len(a) : a[i].fn = b[i].fn /\ a[i].at = b[i].at /\ a[i].task = b[i].task
      PROVE  Nested(a)
  <2> SUFFICES ASSUME NEW i \in 1..Len(a)
               PROVE  /\ Good(a[i])
                      /\ \A k \in 1..Len(a) : i < k => Over(a[i], a[k])
                      /\ IF i = Len(a) THEN a[i].fn \in {"flushJobs", "schedule", "job"}
                         ELSE Makes(a[i + 1], a[i])
      BY DEF Nested
  <2>1. /\ Good(b[i])
        /\ \A k \in 1..Len(b) : i < k => Over(b[i], b[k])
        /\ IF i = Len(b) THEN b[i].fn \in {"flushJobs", "schedule", "job"} ELSE Makes(b[i + 1], b[i])
      BY <1>5 DEF Nested
  <2>2. Good(a[i])
      BY <1>3, <1>5, <2>1
  <2>3. \A k \in 1..Len(a) : i < k => Over(a[i], a[k])
      BY <1>4, <1>5, <2>1
  <2>4. i # Len(a) => i + 1 \in 1..Len(a)
      OBVIOUS
  <2>5. IF i = Len(a) THEN a[i].fn \in {"flushJobs", "schedule", "job"} ELSE Makes(a[i + 1], a[i])
    <3>1. CASE i = Len(a)
        BY <1>5, <2>1, <3>1
    <3>2. CASE i # Len(a)
      <4>1. i + 1 \in 1..Len(a) /\ Makes(b[i + 1], b[i])
          BY <1>5, <2>1, <2>4, <3>2
      <4>2. /\ a[i].fn = b[i].fn /\ a[i].at = b[i].at /\ a[i].task = b[i].task
            /\ a[i + 1].fn = b[i + 1].fn /\ a[i + 1].at = b[i + 1].at
            /\ a[i + 1].task = b[i + 1].task
          BY <1>5, <4>1
      <4>3. Makes(a[i + 1], a[i])
          BY <4>1, <4>2 DEF Makes
      <4>4. QED
          BY <3>2, <4>3
    <3>3. QED
        BY <3>1, <3>2
  <2>6. QED
      BY <2>2, <2>3, <2>5
<1>6. Nested(s) <=> Nested(r)
  <2>1. \A i \in 1..Len(r) : r[i].fn = s[i].fn /\ r[i].at = s[i].at /\ r[i].task = s[i].task
      BY <1>1, <1>2
  <2>2. QED
      BY <1>1, <1>2, <1>5, <2>1
<1>7. NoFlushing(s) <=> NoFlushing(r)
    BY <1>1, <1>2 DEF NoFlushing, Flushing
<1>8. \A n : OnLevel(s, n) <=> OnLevel(r, n)
    BY <1>1, <1>2, <1>3 DEF OnLevel
<1>9. \A fn, t : Loops(s, fn, t) <=> Loops(r, fn, t)
    BY <1>1, <1>2 DEF Loops
<1>10. ASSUME NEW c, NEW ats PROVE UpdateAt(s, c, ats) <=> UpdateAt(r, c, ats)
    BY <1>1, <1>2 DEF UpdateAt
<1>11. \A t : Scheduled(s, t) <=> Scheduled(r, t)
    BY <1>1, <1>2 DEF Scheduled
<1>12. ASSUME NEW c, NEW at PROVE \A i \in 1..Len(s) : IsJob(s[i], c, at) <=> IsJob(r[i], c, at)
    BY <1>2 DEF IsJob
<1>13. ASSUME NEW c PROVE (RunsWatch(s, c) <=> RunsWatch(r, c)) /\ (NoCallback(s, c) <=> NoCallback(r, c))
    BY <1>1, <1>12 DEF RunsWatch, NoCallback
<1>14. ASSUME NEW c PROVE OneCallback(s, c) <=> OneCallback(r, c)
  <2>1. \A i \in 1..Len(s) : IsJob(s[i], c, "callback") <=> IsJob(r[i], c, "callback")
      BY <1>12
  <2>2. ASSUME OneCallback(s, c) PROVE OneCallback(r, c)
      BY <1>1, <2>1, <2>2 DEF OneCallback
  <2>3. ASSUME OneCallback(r, c) PROVE OneCallback(s, c)
      BY <1>1, <2>1, <2>3 DEF OneCallback
  <2>4. QED
      BY <2>2, <2>3
<1>15. HasJob(s) <=> HasJob(r)
    BY <1>1, <1>2 DEF HasJob
<1>16. s = <<>> <=> r = <<>>
    BY <1>1
<1>17. s # <<>> => Head(s).fn = Head(r).fn /\ Head(s).at = Head(r).at /\ Head(s).task = Head(r).task
  <2>1. s # <<>> => 1 \in 1..Len(s) /\ Head(s) = s[1] /\ Head(r) = r[1]
      BY <1>1, <1>16
  <2>2. QED
      BY <1>2, <2>1
<1>18. QED
    BY <1>6, <1>7, <1>8, <1>9, <1>10, <1>11, <1>13, <1>14, <1>15, <1>16, <1>17

-----------------------------------------------------------------------------
(* The calls that a write makes.                                           *)

\* The instances are finitely many, and so are their tasks.
LEMMA FewTasks == IsFiniteSet(Updates!Updates \cup Updates!Watches)
<1> DEFINE few == {Child[i] : i \in DOMAIN Child}
<1>1. Child \in Seq(few)
    BY UpdatesAssumption
<1>2. IsFiniteSet(DOMAIN Child) /\ Child \in [DOMAIN Child -> few]
  <2>1. DOMAIN Child = 1..Len(Child) /\ Len(Child) \in Nat
      BY <1>1
  <2>2. IsFiniteSet(1..Len(Child))
      BY <2>1, FS_Interval
  <2>3. QED
      BY <1>1, <2>1, <2>2
<1>3. IsFiniteSet(few)
  <2>1. Child \in Surjection(DOMAIN Child, few)
      BY <1>2 DEF Surjection
  <2>2. QED
      BY <1>2, <2>1, FS_Surjection
<1> HIDE DEF few
<1>4. IsFiniteSet(Updates!Instance)
  <2>1. IsFiniteSet(few \cup {Updates!Root})
      BY <1>3, FS_AddElement
  <2>2. Updates!Instance = few \cup {Updates!Root}
      BY DEF few, Updates!Instance
  <2>3. QED
      BY <2>1, <2>2
<1>5. IsFiniteSet(Updates!Updates)
  <2> DEFINE f == [c \in Updates!Instance |-> Updates!Update(c)]
  <2>1. f \in [Updates!Instance -> Updates!Updates] /\ \A t \in Updates!Updates : \E c \in Updates!Instance : f[c] = t
      BY DEF Updates!Updates
  <2>2. f \in Surjection(Updates!Instance, Updates!Updates)
      BY <2>1 DEF Surjection
  <2> HIDE DEF f
  <2>3. QED
      BY <1>4, <2>2, FS_Surjection
<1>6. IsFiniteSet(Updates!Watches)
  <2> DEFINE f == [c \in Updates!Instance |-> Updates!Watch(c)]
  <2>1. f \in [Updates!Instance -> Updates!Watches] /\ \A t \in Updates!Watches : \E c \in Updates!Instance : f[c] = t
      BY DEF Updates!Watches
  <2>2. f \in Surjection(Updates!Instance, Updates!Watches)
      BY <2>1 DEF Surjection
  <2> HIDE DEF f
  <2>3. QED
      BY <1>4, <2>2, FS_Surjection
<1>7. QED
    BY <1>5, <1>6, FS_Union

LEMMA Counts == \A X : Updates!Cardinality(X) = Cardinality(X)
BY DEF Updates!Cardinality, Cardinality

\* What is called.
CallOf(fn, at, t) == Updates!S!Call(fn, at, Updates!S!NotSeen, t, 0)

LEMMA TaskIs == Updates!S!Task = Own
BY DEF Updates!S!Task, Own

LEMMA CallIs ==
    ASSUME NEW fn \in {"flushJobs", "task", "update", "flushPre", "flushPost", "schedule", "job"},
           NEW at \in {"pre", "sort", "jobs", "finally", "ends", "begin", "loop",
                       "runs", "render", "rendered", "updated", "callback"},
           NEW t \in Own \cup {NoUpdate}, NEW seen \in [Own -> Nat], NEW left \in Nat
    PROVE  /\ Updates!S!Call(fn, at, seen, t, left) \in CallSet
           /\ Updates!S!NotSeen \in [Own -> Nat]
           /\ Updates!S!Call(fn, at, seen, t, left).fn = fn /\ Updates!S!Call(fn, at, seen, t, left).at = at
           /\ Updates!S!Call(fn, at, seen, t, left).task = t
<1>1. Updates!S!NotSeen \in [Own -> Nat]
    BY TaskIs DEF Updates!S!NotSeen
<1>2. QED
    BY <1>1 DEF Updates!S!Call, CallSet

\* Each task that tracks the source is called.
LEMMA TriggersAll ==
    ASSUME NEW source, NEW made \in Updates!TriggerCalls(source)
    PROVE  /\ made \in Seq(CallSet)
           /\ \A i \in 1..Len(made) :
                 /\ made[i].fn = "schedule" /\ made[i].at = "runs"
                 /\ made[i].task \in Updates!Updates \cup Updates!Watches /\ <<source, made[i].task>> \in tracked
           /\ \A t \in Updates!Updates \cup Updates!Watches : <<source, t>> \in tracked => Scheduled(made, t)
<1> DEFINE X == {t \in Updates!Updates \cup Updates!Watches : <<source, t>> \in tracked}
<1>1. PICK o \in Updates!SetToSeqs(X) : made = [i \in DOMAIN o |-> Updates!Frame("schedule", o[i])]
    BY DEF Updates!TriggerCalls
<1>2. IsFiniteSet(X) /\ Cardinality(X) \in Nat
  <2>1. X \in SUBSET (Updates!Updates \cup Updates!Watches)
      OBVIOUS
  <2> HIDE DEF X
  <2>2. QED
      BY <2>1, FewTasks, FS_Subset, FS_CardinalityType
<1>3. o \in [1..Cardinality(X) -> X] /\ \A i, j \in 1..Cardinality(X) : i # j => o[i] # o[j]
  <2> HIDE DEF X
  <2>1. o \in Updates!SetToSeqs(X)
      BY <1>1
  <2>2. QED
      BY <2>1, Counts DEF Updates!SetToSeqs
<1>4. \A t \in X : \E i \in 1..Cardinality(X) : o[i] = t
  <2> HIDE DEF X
  <2>1. o \in Injection(1..Cardinality(X), X)
      BY <1>3, Fun_IsInj
  <2>2. Cardinality(1..Cardinality(X)) = Cardinality(X)
      BY <1>2, FS_Interval
  <2>3. o \in Surjection(1..Cardinality(X), X)
      BY <1>2, <2>1, <2>2, FS_Injection
  <2>4. QED
      BY <2>3 DEF Surjection
<1>5. \A i \in 1..Cardinality(X) : o[i] \in Own /\ o[i] \in Updates!Updates \cup Updates!Watches /\ <<source, o[i]>> \in tracked
    BY <1>3 DEF Own
<1> DEFINE n == Cardinality(X)
<1>6. n \in Nat /\ DOMAIN o = 1..n
    BY <1>2, <1>3
<1> HIDE DEF n
<1>7. \A i \in 1..n : /\ Updates!Frame("schedule", o[i]) \in CallSet
                      /\ Updates!Frame("schedule", o[i]).fn = "schedule" /\ Updates!Frame("schedule", o[i]).at = "runs"
                      /\ Updates!Frame("schedule", o[i]).task = o[i]
  <2> SUFFICES ASSUME NEW i \in 1..n
               PROVE  /\ Updates!Frame("schedule", o[i]) \in CallSet
                      /\ Updates!Frame("schedule", o[i]).fn = "schedule" /\ Updates!Frame("schedule", o[i]).at = "runs"
                      /\ Updates!Frame("schedule", o[i]).task = o[i]
      OBVIOUS
  <2>1. o[i] \in Own
      BY <1>5 DEF n
  <2>2. Updates!S!NotSeen \in [Own -> Nat]
      BY TaskIs DEF Updates!S!NotSeen
  <2>3. QED
      BY <2>1, <2>2 DEF Updates!Frame, Updates!S!Call, CallSet
<1>8. made \in Seq(CallSet) /\ Len(made) = n /\ \A i \in 1..n : made[i] = Updates!Frame("schedule", o[i])
    BY <1>1, <1>6, <1>7
<1>9. ASSUME NEW t \in Updates!Updates \cup Updates!Watches, <<source, t>> \in tracked PROVE Scheduled(made, t)
  <2>1. PICK i \in 1..n : o[i] = t
      BY <1>4, <1>9 DEF n
  <2>2. QED
      BY <1>7, <1>8, <2>1 DEF Scheduled
<1>10. ASSUME NEW i \in 1..Len(made)
       PROVE  /\ made[i].fn = "schedule" /\ made[i].at = "runs"
              /\ made[i].task \in Updates!Updates \cup Updates!Watches /\ <<source, made[i].task>> \in tracked
  <2>1. made[i] = Updates!Frame("schedule", o[i]) /\ i \in 1..n
      BY <1>8
  <2>2. o[i] \in Updates!Updates \cup Updates!Watches /\ <<source, o[i]>> \in tracked
      BY <1>5, <2>1 DEF n
  <2>3. QED
      BY <1>7, <2>1, <2>2
<1>11. QED
    BY <1>8, <1>9, <1>10

\* A call of the two kinds that anything makes fits anywhere.
LEMMA FitsAnywhere ==
    ASSUME NEW f, Good(f), f.fn \in {"schedule", "job"}, NEW s
    PROVE  Fits(f, s)
<1>1. \A g : Level(g) \in {0, 1, 2, 3, 4, 5}
    BY DEF Level
<1>2. Level(f) = 5
    BY DEF Level
<1>3. \A g : Over(f, g)
    BY <1>1, <1>2 DEF Over
<1>4. \A g : Makes(g, f)
    BY DEF Makes
<1>5. QED
    BY <1>3, <1>4 DEF Fits

\* What is under way when effects are called.
OnlySchedules(made) ==
    \A i \in 1..Len(made) : /\ made[i].fn = "schedule" /\ made[i].at = "runs"
                             /\ made[i].task \in Updates!Updates \cup Updates!Watches

LEMMA ManySee ==
    ASSUME NEW s \in Seq(CallSet), NEW made \in Seq(CallSet), OnlySchedules(made),
           NEW r, r = made \o s
    PROVE  /\ r \in Seq(CallSet)
           /\ Nested(s) => Nested(r)
           /\ NoFlushing(r) <=> NoFlushing(s)
           /\ \A n : n # 5 => (OnLevel(r, n) <=> OnLevel(s, n))
           /\ \A fn, t : Loops(r, fn, t) <=> Loops(s, fn, t)
           /\ \A c, ats : UpdateAt(r, c, ats) <=> UpdateAt(s, c, ats)
           /\ \A t : Scheduled(r, t) <=> Scheduled(made, t) \/ Scheduled(s, t)
           /\ \A c : RunsWatch(r, c) <=> RunsWatch(s, c)
           /\ \A c : NoCallback(r, c) <=> NoCallback(s, c)
           /\ \A c : OneCallback(r, c) <=> OneCallback(s, c)
           /\ HasJob(r) <=> HasJob(s)
<1> DEFINE m == Len(made)
           q == made \o s
<1>1. m \in Nat /\ Len(s) \in Nat /\ q \in Seq(CallSet) /\ Len(q) = m + Len(s)
    OBVIOUS
<1>2. \A i \in 1..Len(q) : \/ i \in 1..m /\ q[i] = made[i]
                           \/ i > m /\ i - m \in 1..Len(s) /\ q[i] = s[i - m]
    OBVIOUS
<1>3. \A i \in 1..Len(s) : i + m \in 1..Len(q) /\ q[i + m] = s[i] /\ i + m > m
    OBVIOUS
<1>4. \A i \in 1..m : i \in 1..Len(q) /\ q[i] = made[i]
    OBVIOUS
<1>0. \A i \in 1..m : /\ made[i].fn = "schedule" /\ made[i].at = "runs"
                      /\ made[i].task \in Updates!Updates \cup Updates!Watches
    BY DEF OnlySchedules
<1> HIDE DEF q, m
<1>a. \A i \in 1..Len(q) : \/ q[i].fn = "schedule" /\ q[i].at = "runs"
                           \/ i - m \in 1..Len(s) /\ q[i] = s[i - m]
    BY <1>0, <1>2
<1>7. ASSUME Nested(s) PROVE Nested(q)
  <2> SUFFICES ASSUME NEW i \in 1..Len(q)
               PROVE  /\ Good(q[i])
                      /\ \A k \in 1..Len(q) : i < k => Over(q[i], q[k])
                      /\ IF i = Len(q) THEN q[i].fn \in {"flushJobs", "schedule", "job"}
                         ELSE Makes(q[i + 1], q[i])
      BY DEF Nested
  <2>1. CASE i \in 1..m
    <3>1. q[i] = made[i] /\ q[i].fn = "schedule" /\ q[i].at = "runs" /\ q[i].task \in Updates!Updates \cup Updates!Watches
        BY <1>0, <1>4, <2>1
    <3>2. Good(q[i])
        BY <3>1 DEF Good
    <3>3. \A t : Fits(q[i], t)
        BY <3>1, <3>2, FitsAnywhere
    <3>4. \A g : Over(q[i], g) /\ Makes(g, q[i])
      <4> TAKE g
      <4>1. <<g>> # <<>> /\ <<g>>[1] = g /\ 1 \in 1..Len(<<g>>)
          OBVIOUS
      <4>2. Fits(q[i], <<g>>)
          BY <3>3
      <4>3. QED
          BY <4>1, <4>2 DEF Fits
    <3>5. QED
        BY <3>1, <3>2, <3>4
  <2>2. CASE ~(i \in 1..m)
    <3>1. i > m /\ i - m \in 1..Len(s) /\ q[i] = s[i - m]
        BY <1>2, <2>2
    <3>2. Good(q[i])
        BY <1>7, <3>1 DEF Nested
    <3>3. \A k \in 1..Len(q) : i < k => Over(q[i], q[k])
      <4> SUFFICES ASSUME NEW k \in 1..Len(q), i < k PROVE Over(q[i], q[k])
          OBVIOUS
      <4>1. ~(k \in 1..m) /\ i - m < k - m
          BY <1>1, <3>1
      <4>2. k - m \in 1..Len(s) /\ q[k] = s[k - m]
          BY <1>2, <4>1
      <4>3. QED
          BY <1>7, <3>1, <4>1, <4>2 DEF Nested
    <3>4. i = Len(q) => q[i].fn \in {"flushJobs", "schedule", "job"}
      <4>1. i = Len(q) => i - m = Len(s)
          BY <1>1
      <4>2. QED
          BY <1>7, <3>1, <4>1 DEF Nested
    <3>5. i # Len(q) => Makes(q[i + 1], q[i])
      <4> SUFFICES ASSUME i # Len(q) PROVE Makes(q[i + 1], q[i])
          OBVIOUS
      <4>1. i + 1 \in 1..Len(q) /\ ~(i + 1 \in 1..m) /\ (i + 1) - m = (i - m) + 1 /\ i - m # Len(s)
          BY <1>1, <3>1, SMTT(30)
      <4>2. q[i + 1] = s[(i + 1) - m]
          BY <1>2, <4>1
      <4>3. Makes(s[(i - m) + 1], s[i - m])
          BY <1>7, <3>1, <4>1 DEF Nested
      <4>4. QED
          BY <3>1, <4>1, <4>2, <4>3
    <3>6. QED
        BY <3>2, <3>3, <3>4, <3>5
  <2>3. QED
      BY <2>1, <2>2
<1>8. NoFlushing(q) <=> NoFlushing(s)
    BY <1>0, <1>2, <1>3 DEF NoFlushing, Flushing
<1>9. ASSUME NEW n, n # 5 PROVE OnLevel(q, n) <=> OnLevel(s, n)
  <2>1. \A i \in 1..m : Level(made[i]) = 5
      BY <1>0 DEF Level
  <2>2. ASSUME OnLevel(q, n) PROVE OnLevel(s, n)
    <3>1. PICK i \in 1..Len(q) : Level(q[i]) = n
        BY <2>2 DEF OnLevel
    <3>2. ~(i \in 1..m)
        BY <1>2, <1>4, <1>9, <2>1, <3>1
    <3>3. i - m \in 1..Len(s) /\ q[i] = s[i - m]
        BY <1>2, <3>2
    <3>4. QED
        BY <3>1, <3>3 DEF OnLevel
  <2>3. ASSUME OnLevel(s, n) PROVE OnLevel(q, n)
    <3>1. PICK i \in 1..Len(s) : Level(s[i]) = n
        BY <2>3 DEF OnLevel
    <3>2. QED
        BY <1>3, <3>1 DEF OnLevel
  <2>4. QED
      BY <2>2, <2>3
<1>10. ASSUME NEW fn, NEW t PROVE Loops(q, fn, t) <=> Loops(s, fn, t)
  <2>1. ASSUME Loops(q, fn, t) PROVE Loops(s, fn, t)
    <3>1. PICK i \in 1..Len(q) : q[i].fn = fn /\ q[i].at = "loop" /\ q[i].task = t
        BY <2>1 DEF Loops
    <3>2. i - m \in 1..Len(s) /\ q[i] = s[i - m]
        BY <1>a, <3>1 DEF IsJob
    <3>3. QED
        BY <3>1, <3>2 DEF Loops
  <2>2. ASSUME Loops(s, fn, t) PROVE Loops(q, fn, t)
    <3>1. PICK i \in 1..Len(s) : s[i].fn = fn /\ s[i].at = "loop" /\ s[i].task = t
        BY <2>2 DEF Loops
    <3>2. QED
        BY <1>3, <3>1 DEF Loops
  <2>3. QED
      BY <2>1, <2>2
<1>11. ASSUME NEW c, NEW ats PROVE UpdateAt(q, c, ats) <=> UpdateAt(s, c, ats)
    BY <1>0, <1>2, <1>3 DEF UpdateAt
<1>12. ASSUME NEW t PROVE Scheduled(q, t) <=> Scheduled(made, t) \/ Scheduled(s, t)
  <2>1. ASSUME Scheduled(q, t) PROVE Scheduled(made, t) \/ Scheduled(s, t)
    <3>1. PICK i \in 1..Len(q) : q[i].fn = "schedule" /\ q[i].task = t
        BY <2>1 DEF Scheduled
    <3>2. CASE i \in 1..m /\ q[i] = made[i]
        BY <3>1, <3>2 DEF Scheduled, m
    <3>3. CASE i - m \in 1..Len(s) /\ q[i] = s[i - m]
        BY <3>1, <3>3 DEF Scheduled
    <3>4. QED
        BY <1>2, <3>2, <3>3
  <2>2. ASSUME Scheduled(made, t) PROVE Scheduled(q, t)
    <3>1. PICK i \in 1..m : made[i].fn = "schedule" /\ made[i].task = t
        BY <2>2 DEF Scheduled, m
    <3>2. QED
        BY <1>4, <3>1 DEF Scheduled
  <2>3. ASSUME Scheduled(s, t) PROVE Scheduled(q, t)
    <3>1. PICK i \in 1..Len(s) : s[i].fn = "schedule" /\ s[i].task = t
        BY <2>3 DEF Scheduled
    <3>2. QED
        BY <1>3, <3>1 DEF Scheduled
  <2>4. QED
      BY <2>1, <2>2, <2>3
<1>13. ASSUME NEW c PROVE RunsWatch(q, c) <=> RunsWatch(s, c)
  <2>1. ASSUME RunsWatch(q, c) PROVE RunsWatch(s, c)
    <3>1. PICK i \in 1..Len(q) : IsJob(q[i], c, "runs")
        BY <2>1 DEF RunsWatch
    <3>2. i - m \in 1..Len(s) /\ q[i] = s[i - m]
        BY <1>a, <3>1 DEF IsJob
    <3>3. QED
        BY <3>1, <3>2 DEF RunsWatch
  <2>2. ASSUME RunsWatch(s, c) PROVE RunsWatch(q, c)
    <3>1. PICK i \in 1..Len(s) : IsJob(s[i], c, "runs")
        BY <2>2 DEF RunsWatch
    <3>2. QED
        BY <1>3, <3>1 DEF RunsWatch
  <2>3. QED
      BY <2>1, <2>2
<1>14. ASSUME NEW c PROVE NoCallback(q, c) <=> NoCallback(s, c)
  <2>1. ASSUME ~NoCallback(q, c) PROVE ~NoCallback(s, c)
    <3>1. PICK i \in 1..Len(q) : IsJob(q[i], c, "callback")
        BY <2>1 DEF NoCallback
    <3>2. i - m \in 1..Len(s) /\ q[i] = s[i - m]
        BY <1>a, <3>1 DEF IsJob
    <3>3. QED
        BY <3>1, <3>2 DEF NoCallback
  <2>2. ASSUME ~NoCallback(s, c) PROVE ~NoCallback(q, c)
    <3>1. PICK i \in 1..Len(s) : IsJob(s[i], c, "callback")
        BY <2>2 DEF NoCallback
    <3>2. QED
        BY <1>3, <3>1 DEF NoCallback
  <2>3. QED
      BY <2>1, <2>2
<1>15. ASSUME NEW c PROVE OneCallback(q, c) <=> OneCallback(s, c)
  <2>1. \A i \in 1..m : ~IsJob(q[i], c, "callback")
      BY <1>0, <1>4 DEF IsJob
  <2>2. ASSUME OneCallback(q, c) PROVE OneCallback(s, c)
    <3>1. PICK i \in 1..Len(q) : \A j \in 1..Len(q) : IsJob(q[j], c, "callback") <=> j = i
        BY <2>2 DEF OneCallback
    <3>2. ~(i \in 1..m)
        BY <2>1, <3>1
    <3>3. i - m \in 1..Len(s)
        BY <1>2, <3>2
    <3>4. ASSUME NEW k \in 1..Len(s) PROVE IsJob(s[k], c, "callback") <=> k = i - m
      <4>1. k + m \in 1..Len(q) /\ q[k + m] = s[k]
          BY <1>3
      <4>2. IsJob(s[k], c, "callback") <=> k + m = i
          BY <3>1, <4>1
      <4>3. QED
          BY <1>1, <4>2
    <3>5. QED
        BY <3>3, <3>4 DEF OneCallback
  <2>3. ASSUME OneCallback(s, c) PROVE OneCallback(q, c)
    <3>1. PICK i \in 1..Len(s) : \A j \in 1..Len(s) : IsJob(s[j], c, "callback") <=> j = i
        BY <2>3 DEF OneCallback
    <3>2. i + m \in 1..Len(q)
        BY <1>3
    <3>3. ASSUME NEW k \in 1..Len(q) PROVE IsJob(q[k], c, "callback") <=> k = i + m
      <4>1. CASE k \in 1..m
          BY <1>1, <2>1, <4>1
      <4>2. CASE ~(k \in 1..m)
        <5>1. k - m \in 1..Len(s) /\ q[k] = s[k - m]
            BY <1>2, <4>2
        <5>2. IsJob(q[k], c, "callback") <=> k - m = i
            BY <3>1, <5>1
        <5>3. QED
            BY <1>1, <5>2
      <4>3. QED
          BY <4>1, <4>2
    <3>4. QED
        BY <3>2, <3>3 DEF OneCallback
  <2>4. QED
      BY <2>2, <2>3
<1>16. HasJob(q) <=> HasJob(s)
  <2>1. ASSUME HasJob(q) PROVE HasJob(s)
    <3>1. PICK i \in 1..Len(q) : q[i].fn = "job"
        BY <2>1 DEF HasJob
    <3>2. i - m \in 1..Len(s) /\ q[i] = s[i - m]
        BY <1>a, <3>1 DEF IsJob
    <3>3. QED
        BY <3>1, <3>2 DEF HasJob
  <2>2. ASSUME HasJob(s) PROVE HasJob(q)
    <3>1. PICK i \in 1..Len(s) : s[i].fn = "job"
        BY <2>2 DEF HasJob
    <3>2. QED
        BY <1>3, <3>1 DEF HasJob
  <2>3. QED
      BY <2>1, <2>2
<1>17. r = q
    BY DEF q
<1>18. QED
    BY <1>1, <1>7, <1>8, <1>9, <1>10, <1>11, <1>12, <1>13, <1>14, <1>15, <1>16, <1>17

-----------------------------------------------------------------------------
(* The queues.                                                             *)

\* A task that stands somewhere after the first n.
Ahead(q, n, t) == \E k \in 1..Len(q) : k > n /\ q[k] = t

\* The instance orders, inserts and removes as this module does.
LEMMA SameOperators ==
    /\ \A s, i, b : Updates!S!Arranged(s, i, b) = Arranged(s, i, b)
    /\ \A q, p, t : Updates!S!InsertAt(q, p, t) = InsertAt(q, p, t)
    /\ \A q, p : Updates!S!RemoveAt(q, p) = RemoveAt(q, p)
<1>1. \A s, i, b : Updates!S!Arranged(s, i, b) = Arranged(s, i, b)
    BY Zenon DEF Updates!S!Arranged, Arranged, Updates!S!Cardinality, Cardinality
<1>2. \A q, p, t : Updates!S!InsertAt(q, p, t) = InsertAt(q, p, t)
    BY Zenon DEF Updates!S!InsertAt, InsertAt
<1>3. \A q, p : Updates!S!RemoveAt(q, p) = RemoveAt(q, p)
    BY Zenon DEF Updates!S!RemoveAt, RemoveAt
<1>4. QED
    BY <1>1, <1>2, <1>3

\* What is arranged is there.
LEMMA ArrangedHas ==
    ASSUME NEW T, NEW s \in Seq(T), NEW indexes \in SUBSET DOMAIN s, NEW before,
           Orders(before, indexes), NEW a, a = Arranged(s, indexes, before)
    PROVE  a \in Seq(T) /\ \A i \in indexes : Ahead(a, 0, s[i])
<1>1. a \in Seq(T) /\ ArrangedBy(a, s, indexes, before)
    BY Arranges
<1>2. PICK at \in [1..Len(a) -> indexes] :
            /\ \A n \in 1..Len(a) : a[n] = s[at[n]]
            /\ \A i \in indexes : \E n \in 1..Len(a) : at[n] = i
    BY <1>1 DEF ArrangedBy
<1>3. ASSUME NEW i \in indexes PROVE Ahead(a, 0, s[i])
  <2>1. PICK n \in 1..Len(a) : at[n] = i
      BY <1>2
  <2>2. a[n] = s[i] /\ n > 0
      BY <1>2, <2>1
  <2>3. QED
      BY <2>2 DEF Ahead
<1>4. QED
    BY <1>1, <1>3

\* Of indexes there is a least one.
LEMMA LeastIndex == ASSUME NEW T, T \subseteq Nat, T # {} PROVE \E x \in T : \A y \in T : x <= y
<1> DEFINE F == {0..x : x \in T}
<1>1. F \subseteq FiniteSubsetsOf(Nat) /\ F # {}
  <2>1. \A x \in T : IsFiniteSet(0..x)
      BY FS_Interval
  <2>2. \A x \in T : 0..x \in SUBSET Nat
      OBVIOUS
  <2>3. QED
      BY <2>1, <2>2 DEF FiniteSubsetsOf
<1>2. PICK I \in F : \A J \in F : <<J, I>> \notin StrictSubsetOrdering(Nat)
    BY <1>1, WFMin, FS_StrictSubsetOrderingWellFounded
<1>3. PICK x \in T : I = 0..x
    BY <1>2
<1>4. ASSUME NEW y \in T PROVE x <= y
  <2>0. <<0..y, 0..x>> \notin StrictSubsetOrdering(Nat)
      BY <1>2, <1>3
  <2>1. ~(0..y \subseteq 0..x /\ 0..y # 0..x)
      BY <2>0 DEF StrictSubsetOrdering
  <2>2. CASE y < x
    <3>1. 0..y \subseteq 0..x /\ x \in 0..x /\ x \notin 0..y
        BY <2>2
    <3>2. QED
        BY <2>1, <3>1
  <2>3. QED
      BY <2>2
<1>5. QED
    BY <1>4

\* A Set keeps everything.
LEMMA DistinctHas ==
    ASSUME NEW T, NEW s \in Seq(T), NEW d, d = Updates!S!Distinct(s)
    PROVE  /\ d \in Seq(T) /\ \A t : Ahead(s, 0, t) => Ahead(d, 0, t)
           /\ d = <<>> => s = <<>>
<1> DEFINE first == {i \in DOMAIN s : \A k \in 1..i - 1 : s[k] # s[i]}
           before == {p \in (DOMAIN s) \X (DOMAIN s) : p[1] < p[2]}
<1>1. Orders(before, first)
    BY DEF Orders
<1>2. first \in SUBSET DOMAIN s
    OBVIOUS
<1>3. d = Arranged(s, first, before)
    BY SameOperators, Zenon DEF Updates!S!Distinct
<1>4. ASSUME NEW t, Ahead(s, 0, t) PROVE \E i \in first : s[i] = t
  <2> DEFINE I == {i \in DOMAIN s : s[i] = t}
  <2>1. I \subseteq Nat /\ I # {}
      BY <1>4 DEF Ahead
  <2>2. PICK i \in I : \A k \in I : i <= k
      BY <2>1, LeastIndex
  <2>3. ASSUME NEW k \in 1..i - 1 PROVE s[k] # s[i]
      BY <2>2
  <2>4. QED
      BY <2>2, <2>3
<1>5. d \in Seq(T) /\ \A i \in first : Ahead(d, 0, s[i])
  <2> HIDE DEF first, before
  <2>1. QED
      BY <1>1, <1>2, <1>3, ArrangedHas
<1> HIDE DEF first, before
<1>6. \A t : Ahead(s, 0, t) => Ahead(d, 0, t)
    BY <1>4, <1>5
<1>7. ASSUME s # <<>> PROVE d # <<>>
  <2>1. Ahead(s, 0, s[1])
      BY <1>7 DEF Ahead
  <2>2. PICK k \in 1..Len(d) : d[k] = s[1]
      BY <1>6, <2>1 DEF Ahead
  <2>3. QED
      BY <2>2
<1>8. QED
    BY <1>5, <1>6, <1>7

\* The ids are numbers.
Ids == [t \in Updates!Updates \cup Updates!Watches \cup Updates!Hooks |-> IF t \in Updates!Updates THEN Updates!Position(t[2]) ELSE Updates!NoOrder]

LEMMA IdsAre == \A t \in Own : Ids[t] \in Nat
<1> DEFINE few == {Child[i] : i \in DOMAIN Child}
<1>1. Child \in Seq(few)
    BY UpdatesAssumption
<1>2. Len(Child) \in Nat /\ DOMAIN Child = 1..Len(Child)
    BY <1>1
<1>3. ASSUME NEW c \in Updates!Instance PROVE Updates!Position(c) \in Nat
  <2>1. CASE c = Updates!Root
      BY <2>1 DEF Updates!Position
  <2>2. CASE c # Updates!Root
    <3>1. \E i \in DOMAIN Child : Child[i] = c
        BY <2>2 DEF Updates!Instance
    <3>2. (CHOOSE i \in DOMAIN Child : Child[i] = c) \in DOMAIN Child
        BY <3>1
    <3>3. QED
        BY <1>2, <2>2, <3>2 DEF Updates!Position
  <2>3. QED
      BY <2>1, <2>2
<1>4. ASSUME NEW t \in Own PROVE Ids[t] \in Nat
  <2>1. CASE t \in Updates!Updates
    <3>1. PICK c \in Updates!Instance : t = <<"update", c>>
        BY <2>1 DEF Updates!Updates, Updates!Update
    <3>2. t[2] = c
        BY <3>1
    <3>3. QED
        BY <1>3, <1>4, <2>1, <3>2 DEF Ids, Own
  <2>2. CASE t \notin Updates!Updates
      BY <1>2, <1>4, <2>2 DEF Ids, Own, Updates!NoOrder
  <2>3. QED
      BY <2>1, <2>2
<1>5. QED
    BY <1>4

\* The sort keeps everything.
LEMMA SortHas ==
    ASSUME NEW T \in SUBSET Own, NEW s \in Seq(T), NEW a, a = Updates!S!SortById(s)
    PROVE  a \in Seq(T) /\ \A t : Ahead(s, 0, t) => Ahead(a, 0, t)
<1> DEFINE indexes == DOMAIN s
           before == {p \in (DOMAIN s) \X (DOMAIN s) :
                        \/ Ids[s[p[1]]] < Ids[s[p[2]]]
                        \/ Ids[s[p[1]]] = Ids[s[p[2]]] /\ p[1] < p[2]}
<1>1. \A i \in DOMAIN s : Ids[s[i]] \in Nat /\ i \in Nat
    BY IdsAre
<1>2. \A i, j \in DOMAIN s : <<i, j>> \in before <=> \/ Ids[s[i]] < Ids[s[j]]
                                                     \/ Ids[s[i]] = Ids[s[j]] /\ i < j
    OBVIOUS
<1>3. a = Arranged(s, indexes, before)
    BY SameOperators, Zenon DEF Updates!S!SortById, Ids
<1> HIDE DEF before
<1>4. Orders(before, indexes)
  <2>1. \A i \in DOMAIN s : <<i, i>> \notin before
      BY <1>1, <1>2
  <2>2. \A i, j \in DOMAIN s : i # j => <<i, j>> \in before \/ <<j, i>> \in before
      BY <1>1, <1>2
  <2>3. ASSUME NEW i \in DOMAIN s, NEW j \in DOMAIN s, NEW k \in DOMAIN s,
               <<i, j>> \in before, <<j, k>> \in before
        PROVE  <<i, k>> \in before
      BY <1>1, <1>2, <2>3
  <2>4. QED
      BY <2>1, <2>2, <2>3 DEF Orders
<1>5. indexes \in SUBSET DOMAIN s
    OBVIOUS
<1>6. a \in Seq(T) /\ \A i \in indexes : Ahead(a, 0, s[i])
  <2> HIDE DEF indexes
  <2>1. QED
      BY <1>3, <1>4, <1>5, ArrangedHas
<1>7. ASSUME NEW t, Ahead(s, 0, t) PROVE Ahead(a, 0, t)
  <2>1. PICK k \in 1..Len(s) : s[k] = t
      BY <1>7 DEF Ahead
  <2>2. QED
      BY <1>6, <2>1
<1>8. QED
    BY <1>6, <1>7

\* What is inserted is there, and what was there still is.
LEMMA InsertHas ==
    ASSUME NEW T, NEW q \in Seq(T), NEW p \in 1..Len(q) + 1, NEW t \in T, NEW n \in Nat, p > n,
           NEW r, r = Updates!S!InsertAt(q, p, t)
    PROVE  /\ r \in Seq(T) /\ Len(r) = Len(q) + 1 /\ Ahead(r, n, t)
           /\ \A u : Ahead(q, n, u) => Ahead(r, n, u)
<1>1. r = InsertAt(q, p, t)
    BY SameOperators
<1>2. /\ r \in Seq(T) /\ Len(r) = Len(q) + 1 /\ Len(q) \in Nat
      /\ \A k \in 1..Len(q) + 1 :
            /\ k < p => r[k] = q[k]
            /\ k = p => r[k] = t
            /\ k > p => r[k] = q[k - 1]
  <2> DEFINE x == InsertAt(q, p, t)
  <2>1. /\ x \in Seq(T) /\ Len(x) = Len(q) + 1 /\ Len(q) \in Nat
        /\ \A k \in 1..Len(q) + 1 :
              /\ k < p => x[k] = q[k]
              /\ k = p => x[k] = t
              /\ k > p => x[k] = q[k - 1]
      BY InsertAtIs, SMTT(60)
  <2> HIDE DEF x
  <2>2. r = x
      BY <1>1 DEF x
  <2>3. QED
      BY <2>1, <2>2
<1>3. Ahead(r, n, t)
    BY <1>2 DEF Ahead
<1>4. ASSUME NEW u, Ahead(q, n, u) PROVE Ahead(r, n, u)
  <2>1. PICK k \in 1..Len(q) : k > n /\ q[k] = u
      BY <1>4 DEF Ahead
  <2>2. CASE k < p
      BY <1>2, <2>1, <2>2 DEF Ahead
  <2>3. CASE k >= p
    <3>1. k + 1 \in 1..Len(r) /\ k + 1 > p /\ (k + 1) - 1 = k
        BY <1>2, <2>3
    <3>2. r[k + 1] = u
        BY <1>2, <2>1, <3>1
    <3>3. QED
        BY <2>1, <3>1, <3>2 DEF Ahead
  <2>4. QED
      BY <2>2, <2>3
<1>5. QED
    BY <1>2, <1>3, <1>4

\* Only what is removed is gone.
LEMMA RemoveHas ==
    ASSUME NEW T, NEW q \in Seq(T), NEW p \in 1..Len(q), NEW n \in Nat, p > n,
           NEW r, r = Updates!S!RemoveAt(q, p)
    PROVE  /\ r \in Seq(T) /\ Len(r) = Len(q) - 1 /\ Len(q) \in Nat
           /\ \A u : u # q[p] /\ Ahead(q, n, u) => Ahead(r, n, u)
<1>1. r = RemoveAt(q, p)
    BY SameOperators
<1>2. /\ r \in Seq(T) /\ Len(r) = Len(q) - 1 /\ Len(q) \in Nat
      /\ \A k \in 1..Len(q) - 1 :
            /\ k < p => r[k] = q[k]
            /\ k >= p => r[k] = q[k + 1]
    BY <1>1, RemoveAtIs
<1>3. ASSUME NEW u, u # q[p], Ahead(q, n, u) PROVE Ahead(r, n, u)
  <2>1. PICK k \in 1..Len(q) : k > n /\ q[k] = u
      BY <1>3 DEF Ahead
  <2>2. CASE k < p
      BY <1>2, <2>1, <2>2 DEF Ahead
  <2>3. CASE k > p
    <3>1. k - 1 \in 1..Len(q) - 1 /\ k - 1 >= p /\ (k - 1) + 1 = k /\ k - 1 > n
        BY <1>2, <2>3
    <3>2. r[k - 1] = u
        BY <1>2, <2>1, <3>1
    <3>3. QED
        BY <1>2, <3>1, <3>2 DEF Ahead
  <2>4. k # p
      BY <1>3, <2>1
  <2>5. QED
      BY <2>2, <2>3, <2>4
<1>4. QED
    BY <1>2, <1>3

\* What is appended is there.
LEMMA AppendHas ==
    ASSUME NEW T, NEW s \in Seq(T), NEW t \in T
    PROVE  /\ Append(s, t) \in Seq(T) /\ Ahead(Append(s, t), 0, t)
           /\ \A u : Ahead(s, 0, u) => Ahead(Append(s, t), 0, u)
<1> DEFINE r == Append(s, t)
<1>1. r \in Seq(T) /\ Len(r) = Len(s) + 1 /\ Len(s) \in Nat /\ r[Len(s) + 1] = t
      /\ \A k \in 1..Len(s) : r[k] = s[k]
    OBVIOUS
<1> HIDE DEF r
<1>2. Ahead(r, 0, t)
    BY <1>1 DEF Ahead
<1>3. \A u : Ahead(s, 0, u) => Ahead(r, 0, u)
    BY <1>1 DEF Ahead
<1>4. QED
    BY <1>1, <1>2, <1>3 DEF r

-----------------------------------------------------------------------------
(* The steps of the stack.                                                 *)

\* The same work is under way, whatever flushes run it.
SameWork(r, s) ==
    /\ \A n \in {1, 4} : OnLevel(r, n) <=> OnLevel(s, n)
    /\ \A c, ats : UpdateAt(r, c, ats) <=> UpdateAt(s, c, ats)
    /\ \A t : Scheduled(r, t) <=> Scheduled(s, t)
    /\ \A c : RunsWatch(r, c) <=> RunsWatch(s, c)
    /\ \A c : NoCallback(r, c) <=> NoCallback(s, c)
    /\ \A c : OneCallback(r, c) <=> OneCallback(s, c)
    /\ HasJob(r) <=> HasJob(s)

Flushes == {"flushJobs", "flushPre", "flushPost"}

LEMMA FlushOnTop ==
    ASSUME NEW s \in Seq(CallSet), NEW f \in CallSet, f.fn \in Flushes, NEW r, r = <<f>> \o s
    PROVE  SameWork(r, s)
<1>1. /\ \A n : OnLevel(r, n) <=> Level(f) = n \/ OnLevel(s, n)
      /\ \A c, ats : UpdateAt(r, c, ats) <=>
            \/ f.fn \in {"task", "update"} /\ f.task = Updates!Update(c) /\ f.at \in ats
            \/ UpdateAt(s, c, ats)
      /\ \A t : Scheduled(r, t) <=> (f.fn = "schedule" /\ f.task = t) \/ Scheduled(s, t)
      /\ \A c : RunsWatch(r, c) <=> IsJob(f, c, "runs") \/ RunsWatch(s, c)
      /\ \A c : NoCallback(r, c) <=> ~IsJob(f, c, "callback") /\ NoCallback(s, c)
      /\ \A c : ~IsJob(f, c, "callback") => (OneCallback(r, c) <=> OneCallback(s, c))
      /\ HasJob(r) <=> f.fn = "job" \/ HasJob(s)
    BY PushSees
<1>2. Level(f) \in {0, 3}
    BY DEF Flushes, Level
<1>3. f.fn \notin {"task", "update", "job", "schedule"} /\ \A c, at : ~IsJob(f, c, at)
    BY DEF Flushes, IsJob
<1>4. QED
    BY <1>1, <1>2, <1>3 DEF SameWork

LEMMA SameWorkIs ==
    ASSUME NEW r, NEW s, SameWork(r, s)
    PROVE  SameWork(s, r) /\ \A q : SameWork(s, q) => SameWork(r, q)
BY DEF SameWork

LEMMA SameCallsWork ==
    ASSUME NEW s \in Seq(CallSet), NEW r \in Seq(CallSet), SameCalls(s, r)
    PROVE  SameWork(s, r)
BY SameSees DEF SameWork

\* A call at another place.
LEMMA CallAt ==
    ASSUME NEW f \in CallSet,
           NEW at \in {"pre", "sort", "jobs", "finally", "ends", "begin", "loop",
                       "runs", "render", "rendered", "updated", "callback"}
    PROVE  /\ [f EXCEPT !.at = at] \in CallSet
           /\ [f EXCEPT !.at = at].fn = f.fn /\ [f EXCEPT !.at = at].at = at
           /\ [f EXCEPT !.at = at].task = f.task
BY DEF CallSet

LEMMA CallSeen ==
    ASSUME NEW f \in CallSet, NEW t
    PROVE  /\ [f EXCEPT !.seen[t] = @ + 1] \in CallSet
           /\ [f EXCEPT !.seen[t] = @ + 1].fn = f.fn
           /\ [f EXCEPT !.seen[t] = @ + 1].at = f.at
           /\ [f EXCEPT !.seen[t] = @ + 1].task = f.task
<1> DEFINE q == [f.seen EXCEPT ![t] = @ + 1]
<1>1. f.seen \in [Own -> Nat]
    BY DEF CallSet
<1>2. \A u \in Own : f.seen[u] \in Nat /\ q[u] \in Nat
    BY <1>1
<1>3. q \in [Own -> Nat]
    BY <1>1, <1>2
<1> HIDE DEF q
<1>4. /\ [f EXCEPT !.seen = q] \in CallSet
      /\ [f EXCEPT !.seen = q].fn = f.fn /\ [f EXCEPT !.seen = q].at = f.at
      /\ [f EXCEPT !.seen = q].task = f.task
    BY <1>3 DEF CallSet
<1>5. QED
    BY <1>4 DEF q

\* Two calls at once are one after the other.
LEMMA TwoMore ==
    ASSUME NEW T, NEW s \in Seq(T), NEW f \in T, NEW g \in T
    PROVE  <<f, g>> \o s = <<f>> \o (<<g>> \o s)
<1> DEFINE a == <<f, g>> \o s
           b == <<f>> \o (<<g>> \o s)
<1>1. a \in Seq(T) /\ b \in Seq(T) /\ Len(s) \in Nat
      /\ Len(a) = Len(s) + 2 /\ Len(b) = Len(s) + 2
    OBVIOUS
<1>2. \A i \in 1..Len(s) + 2 : a[i] = IF i = 1 THEN f ELSE IF i = 2 THEN g ELSE s[i - 2]
    OBVIOUS
<1>3. \A i \in 1..Len(s) + 2 : b[i] = IF i = 1 THEN f ELSE (<<g>> \o s)[i - 1]
    OBVIOUS
<1>4. \A i \in 1..Len(s) + 1 : (<<g>> \o s)[i] = IF i = 1 THEN g ELSE s[i - 1]
    OBVIOUS
<1>5. \A i \in 1..Len(s) + 2 : a[i] = b[i]
    BY <1>1, <1>2, <1>3, <1>4
<1> HIDE DEF a, b
<1>6. a = b
    BY <1>1, <1>5, SeqEqual
<1>7. QED
    BY <1>6 DEF a, b

\* The stack without its innermost call.
LEMMA Apart1 ==
    ASSUME NEW s \in Seq(CallSet), Nested(s), s # <<>>
    PROVE  /\ s = <<Head(s)>> \o Tail(s) /\ Head(s) \in CallSet /\ Tail(s) \in Seq(CallSet)
           /\ Nested(Tail(s)) /\ Fits(Head(s), Tail(s)) /\ Good(Head(s))
BY TakenApart, NestedPush DEF Fits

\* The innermost call goes on.
LEMMA GoesOn ==
    ASSUME NEW s \in Seq(CallSet), Nested(s), s # <<>>,
           NEW g \in CallSet, Good(g), g.fn = Head(s).fn, g.task = Head(s).task,
           NEW r, r = <<g>> \o Tail(s)
    PROVE  r \in Seq(CallSet) /\ Nested(r) /\ Head(r) = g /\ r # <<>> /\ Tail(r) = Tail(s)
<1> DEFINE h == Head(s)
           t == Tail(s)
<1>1. h \in CallSet /\ t \in Seq(CallSet) /\ Nested(t) /\ Fits(h, t)
    BY Apart1
<1>2. g.fn = h.fn /\ g.task = h.task
    OBVIOUS
<1> HIDE DEF h, t
<1>3. Level(g) = Level(h)
    BY <1>2 DEF Level
<1>4. \A x : (Over(h, x) => Over(g, x)) /\ (Makes(x, h) => Makes(x, g))
  <2> TAKE x
  <2>1. Over(h, x) => Over(g, x)
      BY <1>2, <1>3 DEF Over
  <2>2. Makes(x, h) => Makes(x, g)
      BY <1>2 DEF Makes
  <2>3. QED
      BY <2>1, <2>2
<1>5. Fits(g, t)
    BY <1>1, <1>2, <1>4 DEF Fits
<1>6. r = <<g>> \o t
    BY DEF t
<1>7. t \in Seq(CallSet)
    BY <1>1
<1>8. r \in Seq(CallSet) /\ Head(r) = g /\ r # <<>> /\ Tail(r) = t
    BY <1>6, <1>7, OneMore
<1>9. Nested(r)
    BY <1>1, <1>5, <1>6, <1>7, NestedPush
<1>10. QED
    BY <1>8, <1>9 DEF t

\* A call is made by the innermost one.
LEMMA CallsOne ==
    ASSUME NEW s \in Seq(CallSet), Nested(s), s # <<>>,
           NEW f \in CallSet, Good(f), Over(f, Head(s)), Makes(Head(s), f),
           NEW r, r = <<f>> \o s
    PROVE  r \in Seq(CallSet) /\ Nested(r) /\ Head(r) = f /\ r # <<>> /\ Tail(r) = s
<1>1. Head(s) = s[1] /\ Len(s) \in Nat /\ 1 \in 1..Len(s)
    OBVIOUS
<1>2. ASSUME NEW k \in 1..Len(s) PROVE Over(f, s[k])
  <2>1. CASE k = 1
      BY <1>1, <2>1
  <2>2. CASE k # 1
    <3>1. Over(s[1], s[k])
        BY <1>1, <2>2 DEF Nested
    <3>2. QED
        BY <1>1, <3>1, OverTransitive
  <2>3. QED
      BY <2>1, <2>2
<1>3. Fits(f, s)
    BY <1>1, <1>2 DEF Fits
<1>4. r \in Seq(CallSet) /\ Head(r) = f /\ r # <<>> /\ Tail(r) = s
    BY OneMore
<1>5. Nested(r)
    BY <1>3, NestedPush
<1>6. QED
    BY <1>4, <1>5

\* What a return of the scheduler leaves are the calls below.
LEMMA ReturnIs ==
    ASSUME stack \in Seq(CallSet), Nested(stack), stack # <<>>, Updates!S!Return
    PROVE  stack' \in Seq(CallSet) /\ SameCalls(stack', Tail(stack)) /\ Nested(stack')
<1> DEFINE t == Tail(stack)
<1>1. t \in Seq(CallSet) /\ Nested(t) /\ Head(stack) \in CallSet
    BY Apart1
<1>2. Head(stack).seen \in [Own -> Nat]
    BY <1>1 DEF CallSet
<1>3. SameCalls(t, t)
    BY DEF SameCalls
<1>4. CASE stack' = t
    BY <1>1, <1>3, <1>4
<1>5. CASE stack' # t
  <2> DEFINE f == [t[1] EXCEPT !.seen = Head(stack).seen]
  <2>1. t # <<>> /\ stack' = <<f>> \o Tail(t)
      BY <1>5 DEF Updates!S!Return, Updates!S!Below
  <2>2. t[1] = Head(t) /\ Head(t) \in CallSet /\ Tail(t) \in Seq(CallSet) /\ t = <<t[1]>> \o Tail(t)
      BY <1>1, <2>1, TakenApart
  <2>3. f \in CallSet /\ f.fn = t[1].fn /\ f.at = t[1].at /\ f.task = t[1].task
      BY <1>2, <2>2 DEF CallSet
  <2> HIDE DEF f, t
  <2>4. /\ stack' \in Seq(CallSet) /\ Len(stack') = Len(Tail(t)) + 1 /\ stack'[1] = f
        /\ \A i \in 1..Len(stack') : i = 1 \/ (i - 1 \in 1..Len(Tail(t)) /\ stack'[i] = Tail(t)[i - 1])
      BY <2>1, <2>2, <2>3, OneMore
  <2>5. /\ Len(t) = Len(Tail(t)) + 1
        /\ \A i \in 1..Len(t) : i = 1 \/ (i - 1 \in 1..Len(Tail(t)) /\ t[i] = Tail(t)[i - 1])
      BY <2>2, OneMore
  <2>6. SameCalls(stack', t)
      BY <2>3, <2>4, <2>5 DEF SameCalls
  <2>7. Nested(stack')
      BY <1>1, <2>4, <2>6, SameSees
  <2>8. QED
      BY <2>4, <2>6, <2>7 DEF t
<1>6. QED
    BY <1>4, <1>5

-----------------------------------------------------------------------------
(* The invariant of the scheduler.                                         *)

\* What calls there can be below the innermost one.
LEMMA BelowIs ==
    ASSUME NEW h, NEW t, Fits(h, t)
    PROVE  /\ \A n : OnLevel(t, n) => n < Level(h) \/ (n = Level(h) /\ n \in {0, 5})
           /\ h.fn = "flushJobs" => NoFlushing(t)
<1>1. \A k \in 1..Len(t) : Over(h, t[k])
    BY DEF Fits
<1>2. ASSUME NEW n, OnLevel(t, n) PROVE n < Level(h) \/ (n = Level(h) /\ n \in {0, 5})
  <2>1. PICK k \in 1..Len(t) : Level(t[k]) = n
      BY <1>2 DEF OnLevel
  <2>2. Over(h, t[k])
      BY <1>1
  <2>3. CASE h.fn = "flushJobs" /\ t[k].fn = "flushJobs"
    <3>1. Level(h) = 0 /\ n = 0
        BY <2>1, <2>3 DEF Level
    <3>2. QED
        BY <3>1
  <2>4. CASE ~(h.fn = "flushJobs" /\ t[k].fn = "flushJobs")
      BY <2>1, <2>2, <2>4 DEF Over
  <2>5. QED
      BY <2>3, <2>4
<1>3. ASSUME h.fn = "flushJobs" PROVE NoFlushing(t)
  <2> SUFFICES ASSUME NEW k \in 1..Len(t), Flushing(t[k]) PROVE FALSE
      BY DEF NoFlushing
  <2>1. Over(h, t[k]) /\ t[k].fn = "flushJobs" /\ t[k].at # "ends"
      BY <1>1 DEF Flushing
  <2>2. Level(h) = 0 /\ Level(t[k]) = 0
      BY <1>3, <2>1 DEF Level
  <2>3. QED
      BY <2>1, <2>2 DEF Over
<1>4. QED
    BY <1>2, <1>3

LEMMA LevelIs ==
    ASSUME NEW f
    PROVE  /\ Level(f) \in {0, 1, 2, 3, 4, 5}
           /\ f.fn = "flushJobs" => Level(f) = 0
           /\ f.fn = "task" /\ f.task \in Updates!Updates => Level(f) = 1
           /\ f.fn = "update" => Level(f) = 2
           /\ f.fn \in {"flushPre", "flushPost"} => Level(f) = 3
           /\ f.fn = "task" /\ f.task \notin Updates!Updates => Level(f) = 4
           /\ f.fn \in {"schedule", "job"} => Level(f) = 5
BY DEF Level

\* The tasks are of three kinds.
LEMMA TasksDiffer ==
    /\ \A c, d : /\ Updates!Update(c) # Updates!Watch(d) /\ Updates!Update(c) # Updates!Hook(d) /\ Updates!Watch(c) # Updates!Hook(d)
                 /\ Updates!Update(c) = Updates!Update(d) => c = d
                 /\ Updates!Watch(c) = Updates!Watch(d) => c = d
    /\ \A c : Updates!Update(c) # NoUpdate /\ Updates!Watch(c) # NoUpdate /\ Updates!Hook(c) # NoUpdate
    /\ \A c : Updates!Watch(c) \notin Updates!Updates /\ Updates!Hook(c) \notin Updates!Updates
    /\ \A c : Updates!Update(c) \notin Updates!Watches /\ Updates!Hook(c) \notin Updates!Watches
    /\ \A c : Updates!Update(c) \notin Updates!Hooks /\ Updates!Watch(c) \notin Updates!Hooks
    /\ NoUpdate \notin Own
    /\ \A c \in Updates!Instance : Updates!Update(c) \in Updates!Updates /\ Updates!Watch(c) \in Updates!Watches /\ Updates!Hook(c) \in Updates!Hooks
    /\ \A t \in Updates!Updates : t[2] \in Updates!Instance /\ t = Updates!Update(t[2])
    /\ \A t \in Updates!Watches : t[2] \in Updates!Instance /\ t = Updates!Watch(t[2])
    /\ \A t \in Updates!Hooks : t[2] \in Updates!Instance /\ t = Updates!Hook(t[2])
<1>1. /\ \A c, d : /\ Updates!Update(c) # Updates!Watch(d) /\ Updates!Update(c) # Updates!Hook(d) /\ Updates!Watch(c) # Updates!Hook(d)
                   /\ Updates!Update(c) = Updates!Update(d) => c = d
                   /\ Updates!Watch(c) = Updates!Watch(d) => c = d
      /\ \A c : Updates!Update(c) # NoUpdate /\ Updates!Watch(c) # NoUpdate /\ Updates!Hook(c) # NoUpdate
    BY DEF Updates!Update, Updates!Watch, Updates!Hook, NoUpdate
<1>2. \A c : (Updates!Update(c))[2] = c /\ (Updates!Watch(c))[2] = c /\ (Updates!Hook(c))[2] = c
    BY DEF Updates!Update, Updates!Watch, Updates!Hook
<1>3. \A c \in Updates!Instance : Updates!Update(c) \in Updates!Updates /\ Updates!Watch(c) \in Updates!Watches /\ Updates!Hook(c) \in Updates!Hooks
    BY DEF Updates!Updates, Updates!Watches, Updates!Hooks
<1>4. /\ \A t \in Updates!Updates : \E c \in Updates!Instance : t = Updates!Update(c)
      /\ \A t \in Updates!Watches : \E c \in Updates!Instance : t = Updates!Watch(c)
      /\ \A t \in Updates!Hooks : \E c \in Updates!Instance : t = Updates!Hook(c)
    BY DEF Updates!Updates, Updates!Watches, Updates!Hooks
<1> HIDE DEF Updates!Update, Updates!Watch, Updates!Hook
<1>5. /\ \A t \in Updates!Updates : t[2] \in Updates!Instance /\ t = Updates!Update(t[2])
      /\ \A t \in Updates!Watches : t[2] \in Updates!Instance /\ t = Updates!Watch(t[2])
      /\ \A t \in Updates!Hooks : t[2] \in Updates!Instance /\ t = Updates!Hook(t[2])
    BY <1>2, <1>4
<1>6. /\ \A c : Updates!Watch(c) \notin Updates!Updates /\ Updates!Hook(c) \notin Updates!Updates
      /\ \A c : Updates!Update(c) \notin Updates!Watches /\ Updates!Hook(c) \notin Updates!Watches
      /\ \A c : Updates!Update(c) \notin Updates!Hooks /\ Updates!Watch(c) \notin Updates!Hooks
    BY <1>1, <1>4
<1>7. NoUpdate \notin Own
    BY <1>1, <1>4 DEF Own
<1>8. QED
    BY <1>1, <1>3, <1>5, <1>6, <1>7

\* On which levels the work is.
LEMMA LevelOfWork ==
    ASSUME NEW s
    PROVE  /\ \A fn \in {"flushPre", "flushPost"} : \A t : Loops(s, fn, t) => OnLevel(s, 3)
           /\ \A c \in Updates!Instance : \A ats : UpdateAt(s, c, ats) => OnLevel(s, 1) \/ OnLevel(s, 2)
           /\ \A t : Scheduled(s, t) => OnLevel(s, 5)
           /\ \A c \in Updates!Instance : RunsWatch(s, c) => OnLevel(s, 4) \/ OnLevel(s, 5)
           /\ \A c \in Updates!Instance : ~NoCallback(s, c) => OnLevel(s, 4) \/ OnLevel(s, 5)
           /\ HasJob(s) => OnLevel(s, 5)
           /\ ~NoFlushing(s) => OnLevel(s, 0)
<1>1. ASSUME NEW fn \in {"flushPre", "flushPost"}, NEW t, Loops(s, fn, t) PROVE OnLevel(s, 3)
    BY <1>1, LevelIs DEF Loops, OnLevel
<1>2. ASSUME NEW c \in Updates!Instance, NEW ats, UpdateAt(s, c, ats) PROVE OnLevel(s, 1) \/ OnLevel(s, 2)
    BY <1>2, LevelIs, TasksDiffer DEF UpdateAt, OnLevel
<1>3. ASSUME NEW t, Scheduled(s, t) PROVE OnLevel(s, 5)
    BY <1>3, LevelIs DEF Scheduled, OnLevel
<1>4. ASSUME NEW c \in Updates!Instance, NEW at, NEW i \in 1..Len(s), IsJob(s[i], c, at)
      PROVE  OnLevel(s, 4) \/ OnLevel(s, 5)
    BY <1>4, LevelIs, TasksDiffer DEF IsJob, OnLevel
<1>5. HasJob(s) => OnLevel(s, 5)
    BY LevelIs DEF HasJob, OnLevel
<1>6. ~NoFlushing(s) => OnLevel(s, 0)
    BY LevelIs DEF NoFlushing, Flushing, OnLevel
<1>7. QED
    BY <1>1, <1>2, <1>3, <1>4, <1>5, <1>6 DEF RunsWatch, NoCallback

LeftOver == queue # <<>> \/ pendingPost # <<>>
SchedulerTypes ==
    /\ isFlushing \in BOOLEAN /\ isFlushPending \in BOOLEAN
    /\ queue \in Seq(Updates!Updates) /\ flushIndex \in Nat
    /\ pendingPre \in Seq(Updates!Watches) /\ activePre \in Seq(Updates!Watches) /\ preIndex \in Nat
    /\ pendingPost \in Seq(Updates!Watches \cup Updates!Hooks) /\ activePost \in Seq(Updates!Watches \cup Updates!Hooks)
    /\ postIndex \in Nat
    /\ parentJob \in Updates!Updates \cup {NoUpdate}
Stacked == stack \in Seq(CallSet) /\ Nested(stack)
Flags ==
    /\ ~isFlushing => NoFlushing(stack)
    /\ ~isFlushing /\ ~isFlushPending /\ LeftOver =>
          stack # <<>> /\ Head(stack).fn = "flushJobs" /\ Head(stack).at = "pre"
Indexed ==
    /\ flushIndex <= Len(queue)
    /\ OnLevel(stack, 1) => flushIndex < Len(queue)
Looping ==
    /\ parentJob # NoUpdate => Loops(stack, "flushPre", parentJob)
    /\ activePre # <<>> => \E t : Loops(stack, "flushPre", t)
    /\ activePost # <<>> => \E t : Loops(stack, "flushPost", t)
SchedulerInv == SchedulerTypes /\ Stacked /\ Flags /\ Indexed /\ Looping

\* The updates to come, and the watchers whose jobs are to come.
FirstUpdate == flushIndex + IF OnLevel(stack, 1) THEN 1 ELSE 0
UpdateWaits(c) == Ahead(queue, FirstUpdate, Updates!Update(c))
FirstPre == preIndex + IF OnLevel(stack, 4) THEN 1 ELSE 0
FirstPost == postIndex + IF OnLevel(stack, 4) THEN 1 ELSE 0
WatchWaits(c) ==
    \/ Ahead(pendingPre, 0, Updates!Watch(c)) \/ Ahead(pendingPost, 0, Updates!Watch(c))
    \/ Ahead(activePre, FirstPre, Updates!Watch(c)) \/ Ahead(activePost, FirstPost, Updates!Watch(c))
Coming(c) == UpdateWaits(c) \/ Scheduled(stack, Updates!Update(c)) \/ UpdateAt(stack, c, {"runs", "render"})
WatchComing(c) == Scheduled(stack, Updates!Watch(c)) \/ RunsWatch(stack, c) \/ WatchWaits(c)

\* No work is lost, and none is begun but what was to come.
WorkKept ==
    /\ \A c \in Updates!Instance : Coming(c) => Coming(c)'
    /\ \A c \in Updates!Instance : WatchComing(c) => WatchComing(c)'
    /\ \A c \in Updates!Instance : UpdateAt(stack', c, {"render"}) <=> UpdateAt(stack, c, {"render"})
    /\ \A c \in Updates!Instance : Scheduled(stack', Updates!Watch(c)) => Scheduled(stack, Updates!Watch(c))
    /\ \A c \in Updates!Instance : NoCallback(stack', c) <=> NoCallback(stack, c)
    /\ \A c \in Updates!Instance : OneCallback(stack', c) <=> OneCallback(stack, c)
    /\ HasJob(stack') => HasJob(stack) \/ mode = "sync"

LEMMA SameWorkKept ==
    ASSUME SameWork(stack', stack), \A c \in Updates!Instance : UpdateWaits(c) => UpdateWaits(c)',
           \A c \in Updates!Instance : WatchWaits(c) => WatchWaits(c)'
    PROVE  WorkKept
BY DEF SameWork, WorkKept, Coming, WatchComing

\* A flush that goes on, makes a call or returns does not change the work.
LEMMA FlushGoesOn ==
    ASSUME Stacked, stack # <<>>, Head(stack).fn \in Flushes,
           NEW g \in CallSet, Good(g), g.fn = Head(stack).fn, g.task = Head(stack).task,
           NEW r, r = <<g>> \o Tail(stack)
    PROVE  /\ r \in Seq(CallSet) /\ Nested(r) /\ Head(r) = g /\ r # <<>> /\ Tail(r) = Tail(stack)
           /\ SameWork(r, stack) /\ SameWork(Tail(stack), stack)
           /\ NoFlushing(Tail(stack)) /\ ~Flushing(g) => NoFlushing(r)
           /\ NoFlushing(stack) => NoFlushing(Tail(stack))
           /\ \A fn, t : Loops(stack, fn, t) =>
                 \/ Loops(r, fn, t)
                 \/ Head(stack).at = "loop" /\ fn = Head(stack).fn /\ t = Head(stack).task
           /\ g.at = "loop" => Loops(r, g.fn, g.task)
           /\ \A fn, t : Loops(Tail(stack), fn, t) => Loops(r, fn, t)
<1>1. /\ stack = <<Head(stack)>> \o Tail(stack) /\ Head(stack) \in CallSet
      /\ Tail(stack) \in Seq(CallSet) /\ Fits(Head(stack), Tail(stack))
    BY Apart1 DEF Stacked
<1>2. r \in Seq(CallSet) /\ Nested(r) /\ Head(r) = g /\ r # <<>> /\ Tail(r) = Tail(stack)
    BY GoesOn DEF Stacked
<1>3. SameWork(r, Tail(stack)) /\ SameWork(stack, Tail(stack))
    BY <1>1, FlushOnTop
<1>4. SameWork(r, stack) /\ SameWork(Tail(stack), stack)
    BY <1>3, SameWorkIs
<1>5. /\ NoFlushing(r) <=> ~Flushing(g) /\ NoFlushing(Tail(stack))
      /\ \A fn, t : Loops(r, fn, t) <=>
            (g.fn = fn /\ g.at = "loop" /\ g.task = t) \/ Loops(Tail(stack), fn, t)
    BY <1>1, PushSees
<1>6. /\ NoFlushing(stack) <=> ~Flushing(Head(stack)) /\ NoFlushing(Tail(stack))
      /\ \A fn, t : Loops(stack, fn, t) <=>
            \/ Head(stack).fn = fn /\ Head(stack).at = "loop" /\ Head(stack).task = t
            \/ Loops(Tail(stack), fn, t)
    BY <1>1, PushSees
<1>7. QED
    BY <1>2, <1>4, <1>5, <1>6

\* The waiting tasks stay when nothing about the queues changes.
LEMMA SameWaits ==
    ASSUME SameWork(stack', stack), UNCHANGED <<queue, flushIndex>>
    PROVE  \A c \in Updates!Instance : UpdateWaits(c) => UpdateWaits(c)'
BY DEF SameWork, UpdateWaits, FirstUpdate

LEMMA SameWatchWaits ==
    ASSUME SameWork(stack', stack),
           UNCHANGED <<pendingPre, activePre, preIndex, pendingPost, activePost, postIndex>>
    PROVE  \A c \in Updates!Instance : WatchWaits(c) => WatchWaits(c)'
BY DEF SameWork, WatchWaits, FirstPre, FirstPost

LEMMA SameIndexed ==
    ASSUME Indexed, SameWork(stack', stack), UNCHANGED <<queue, flushIndex>>
    PROVE  Indexed'
BY DEF SameWork, Indexed

\* A flush makes a call.
LEMMA FlushCalls ==
    ASSUME Stacked, stack # <<>>, Head(stack).fn \in Flushes,
           NEW g \in CallSet, Good(g), g.fn = Head(stack).fn, g.task = Head(stack).task,
           NEW f \in CallSet, Good(f), Over(f, g), Makes(g, f),
           NEW r, r = <<f, g>> \o Tail(stack), NEW q, q = <<g>> \o Tail(stack)
    PROVE  /\ r \in Seq(CallSet) /\ Nested(r) /\ Head(r) = f /\ r # <<>> /\ Tail(r) = q
           /\ q \in Seq(CallSet) /\ Nested(q) /\ r = <<f>> \o q /\ SameWork(q, stack)
           /\ f.fn \in Flushes => SameWork(r, stack)
           /\ ~Flushing(f) /\ ~Flushing(g) /\ NoFlushing(Tail(stack)) => NoFlushing(r)
           /\ \A fn, t : Loops(stack, fn, t) =>
                 \/ Loops(r, fn, t)
                 \/ g.at # "loop" /\ Head(stack).at = "loop"
<1>1. Tail(stack) \in Seq(CallSet)
    BY Apart1 DEF Stacked
<1>2. r = <<f>> \o q
    BY <1>1, TwoMore
<1>3. /\ q \in Seq(CallSet) /\ Nested(q) /\ Head(q) = g /\ q # <<>>
      /\ SameWork(q, stack)
      /\ NoFlushing(Tail(stack)) /\ ~Flushing(g) => NoFlushing(q)
      /\ \A fn, t : Loops(stack, fn, t) =>
            \/ Loops(q, fn, t)
            \/ Head(stack).at = "loop" /\ fn = Head(stack).fn /\ t = Head(stack).task
      /\ g.at = "loop" => Loops(q, g.fn, g.task)
    BY FlushGoesOn
<1>4. r \in Seq(CallSet) /\ Nested(r) /\ Head(r) = f /\ r # <<>> /\ Tail(r) = q
    BY <1>2, <1>3, CallsOne
<1>5. /\ NoFlushing(r) <=> ~Flushing(f) /\ NoFlushing(q)
      /\ \A fn, t : Loops(r, fn, t) <=> (f.fn = fn /\ f.at = "loop" /\ f.task = t) \/ Loops(q, fn, t)
  <2>1. q \in Seq(CallSet)
      BY <1>3
  <2>2. QED
      BY <1>2, <2>1, PushSees, ZenonT(60)
<1>6. f.fn \in Flushes => SameWork(r, stack)
  <2>1. f.fn \in Flushes => SameWork(r, q)
      BY <1>2, <1>3, FlushOnTop
  <2>2. QED
      BY <1>3, <2>1, SameWorkIs
<1>7. ASSUME NEW fn, NEW t, Loops(stack, fn, t)
      PROVE  Loops(r, fn, t) \/ (g.at # "loop" /\ Head(stack).at = "loop")
    BY <1>3, <1>5, <1>7
<1>8. QED
    BY <1>2, <1>3, <1>4, <1>5, <1>6, <1>7

\* A flush returns.
LEMMA FlushReturns ==
    ASSUME Stacked, stack # <<>>, Head(stack).fn \in Flushes, Updates!S!Return
    PROVE  /\ Stacked' /\ SameWork(stack', stack)
           /\ NoFlushing(Tail(stack)) => NoFlushing(stack')
           /\ NoFlushing(stack) => NoFlushing(stack')
           /\ \A fn, t : Loops(stack, fn, t) =>
                 \/ Loops(stack', fn, t)
                 \/ Head(stack).at = "loop" /\ fn = Head(stack).fn /\ t = Head(stack).task
<1>1. stack' \in Seq(CallSet) /\ SameCalls(stack', Tail(stack)) /\ Nested(stack')
    BY ReturnIs DEF Stacked
<1>2. /\ stack = <<Head(stack)>> \o Tail(stack) /\ Head(stack) \in CallSet /\ Tail(stack) \in Seq(CallSet)
    BY Apart1 DEF Stacked
<1>3. SameWork(stack, Tail(stack))
    BY <1>2, FlushOnTop
<1>4. SameWork(stack', Tail(stack))
    BY <1>1, <1>2, SameCallsWork
<1>5. SameWork(stack', stack)
    BY <1>3, <1>4, SameWorkIs
<1>6. /\ NoFlushing(stack') <=> NoFlushing(Tail(stack))
      /\ \A fn, t : Loops(stack', fn, t) <=> Loops(Tail(stack), fn, t)
    BY <1>1, <1>2, SameSees
<1>7. /\ NoFlushing(stack) <=> ~Flushing(Head(stack)) /\ NoFlushing(Tail(stack))
      /\ \A fn, t : Loops(stack, fn, t) <=>
            \/ Head(stack).fn = fn /\ Head(stack).at = "loop" /\ Head(stack).task = t
            \/ Loops(Tail(stack), fn, t)
    BY <1>2, PushSees
<1>8. QED
    BY <1>1, <1>5, <1>6, <1>7 DEF Stacked

\* A flush that is under way flushes.
LEMMA FlushIsOn ==
    ASSUME Flags, SchedulerTypes, Stacked, stack # <<>>, Flushing(Head(stack))
    PROVE  isFlushing = TRUE
<1>1. 1 \in 1..Len(stack) /\ Head(stack) = stack[1]
    BY DEF Stacked
<1>2. QED
    BY <1>1 DEF Flags, NoFlushing, SchedulerTypes

LEMMA FlagsKept ==
    ASSUME Flags, UNCHANGED <<isFlushing, isFlushPending>>, LeftOver' => LeftOver,
           NoFlushing(stack) => NoFlushing(stack'),
           ~(stack # <<>> /\ Head(stack).fn = "flushJobs" /\ Head(stack).at = "pre")
    PROVE  Flags'
BY DEF Flags

LEMMA LoopingKept ==
    ASSUME Looping, UNCHANGED <<parentJob, activePre, activePost>>,
           \A fn, t : Loops(stack, fn, t) => Loops(stack', fn, t)
    PROVE  Looping'
BY DEF Looping

\* A step that only moves the flushes.
LEMMA OnlyMoves ==
    ASSUME SchedulerInv, Stacked', SameWork(stack', stack), Flags',
           isFlushing' \in BOOLEAN, isFlushPending' \in BOOLEAN,
           UNCHANGED <<queue, flushIndex, pendingPre, activePre, preIndex, parentJob,
                       pendingPost, activePost, postIndex>>,
           \A fn, t : Loops(stack, fn, t) => Loops(stack', fn, t)
    PROVE  SchedulerInv' /\ WorkKept
<1>1. SchedulerTypes'
    BY DEF SchedulerInv, SchedulerTypes
<1>2. Indexed'
    BY SameIndexed DEF SchedulerInv
<1>3. Looping'
    BY LoopingKept DEF SchedulerInv
<1>4. WorkKept
    BY SameWaits, SameWatchWaits, SameWorkKept
<1>5. QED
    BY <1>1, <1>2, <1>3, <1>4 DEF SchedulerInv

\* What the scheduler calls.
LEMMA FlushCallsAre ==
    ASSUME NEW seen \in [Own -> Nat]
    PROVE  /\ Updates!S!JobsCall(seen) \in CallSet /\ Updates!S!JobsCall(seen).fn = "flushJobs"
           /\ Updates!S!JobsCall(seen).at = "pre" /\ Updates!S!JobsCall(seen).task = NoUpdate
           /\ \A t \in Updates!Updates \cup {NoUpdate} :
                 /\ Updates!S!PreCall(seen, t) \in CallSet /\ Updates!S!PreCall(seen, t).fn = "flushPre"
                 /\ Updates!S!PreCall(seen, t).at = "begin" /\ Updates!S!PreCall(seen, t).task = t
           /\ Updates!S!PostCall(seen) \in CallSet /\ Updates!S!PostCall(seen).fn = "flushPost"
           /\ Updates!S!PostCall(seen).at = "begin" /\ Updates!S!PostCall(seen).task = NoUpdate
           /\ \A t \in Own :
                 /\ Updates!S!TaskCall(t) \in CallSet /\ Updates!S!TaskCall(t).fn = "task"
                 /\ Updates!S!TaskCall(t).at = "runs" /\ Updates!S!TaskCall(t).task = t
<1>1. Updates!S!NotSeen \in [Own -> Nat]
    BY TaskIs DEF Updates!S!NotSeen
<1>2. Updates!S!JobsCall(seen) \in CallSet /\ Updates!S!JobsCall(seen).fn = "flushJobs"
      /\ Updates!S!JobsCall(seen).at = "pre" /\ Updates!S!JobsCall(seen).task = NoUpdate
    BY DEF Updates!S!JobsCall, Updates!S!Call, CallSet, NoUpdate
<1>3. ASSUME NEW t \in Updates!Updates \cup {NoUpdate}
      PROVE  /\ Updates!S!PreCall(seen, t) \in CallSet /\ Updates!S!PreCall(seen, t).fn = "flushPre"
             /\ Updates!S!PreCall(seen, t).at = "begin" /\ Updates!S!PreCall(seen, t).task = t
  <2>1. t \in Own \cup {NoUpdate}
      BY DEF Own
  <2>2. QED
      BY <2>1 DEF Updates!S!PreCall, Updates!S!Call, CallSet
<1>4. Updates!S!PostCall(seen) \in CallSet /\ Updates!S!PostCall(seen).fn = "flushPost"
      /\ Updates!S!PostCall(seen).at = "begin" /\ Updates!S!PostCall(seen).task = NoUpdate
    BY DEF Updates!S!PostCall, Updates!S!Call, CallSet, NoUpdate
<1>5. ASSUME NEW t \in Own
      PROVE  /\ Updates!S!TaskCall(t) \in CallSet /\ Updates!S!TaskCall(t).fn = "task"
             /\ Updates!S!TaskCall(t).at = "runs" /\ Updates!S!TaskCall(t).task = t
    BY <1>1 DEF Updates!S!TaskCall, Updates!S!Call, CallSet
<1>6. QED
    BY <1>2, <1>3, <1>4, <1>5

\* The innermost call.
LEMMA InnermostIs ==
    ASSUME Stacked, stack # <<>>
    PROVE  /\ Head(stack) \in CallSet /\ Good(Head(stack)) /\ Head(stack).seen \in [Own -> Nat]
           /\ \A n : OnLevel(stack, n) => n < Level(Head(stack)) \/ n = Level(Head(stack))
           /\ \A n : OnLevel(Tail(stack), n) =>
                 n < Level(Head(stack)) \/ (n = Level(Head(stack)) /\ n \in {0, 5})
           /\ Head(stack).fn = "flushJobs" => NoFlushing(Tail(stack))
<1>1. /\ stack = <<Head(stack)>> \o Tail(stack) /\ Head(stack) \in CallSet
      /\ Tail(stack) \in Seq(CallSet) /\ Fits(Head(stack), Tail(stack)) /\ Good(Head(stack))
  <2>1. stack \in Seq(CallSet) /\ Nested(stack)
      BY DEF Stacked
  <2>2. QED
      BY <2>1, Apart1
<1>2. /\ \A n : OnLevel(Tail(stack), n) =>
            n < Level(Head(stack)) \/ (n = Level(Head(stack)) /\ n \in {0, 5})
      /\ Head(stack).fn = "flushJobs" => NoFlushing(Tail(stack))
    BY <1>1, BelowIs
<1>3. \A n : OnLevel(stack, n) <=> Level(Head(stack)) = n \/ OnLevel(Tail(stack), n)
    BY <1>1, PushSees
<1>4. Head(stack).seen \in [Own -> Nat]
    BY <1>1 DEF CallSet
<1>5. QED
    BY <1>1, <1>2, <1>3, <1>4

-----------------------------------------------------------------------------
(* The steps of flushJobs.                                                 *)

LEMMA FlushBeginsKeeps ==
    ASSUME SchedulerInv, Updates!S!FlushBegins
    PROVE  SchedulerInv' /\ WorkKept
<1> DEFINE p == Updates!S!PreCall(Updates!S!NotSeen, NoUpdate)
           j == [Updates!S!JobsCall(Updates!S!NotSeen) EXCEPT !.at = "sort"]
<1>1. Updates!S!NotSeen \in [Own -> Nat]
    BY TaskIs DEF Updates!S!NotSeen
<1>2. p \in CallSet /\ p.fn = "flushPre" /\ p.at = "begin" /\ p.task = NoUpdate
    BY <1>1, FlushCallsAre
<1>3. j \in CallSet /\ j.fn = "flushJobs" /\ j.at = "sort" /\ j.task = NoUpdate
  <2> DEFINE b == Updates!S!JobsCall(Updates!S!NotSeen)
  <2>1. b \in CallSet /\ b.fn = "flushJobs" /\ b.task = NoUpdate
      BY <1>1, FlushCallsAre
  <2> HIDE DEF b
  <2>2. /\ [b EXCEPT !.at = "sort"] \in CallSet /\ [b EXCEPT !.at = "sort"].fn = b.fn
        /\ [b EXCEPT !.at = "sort"].at = "sort" /\ [b EXCEPT !.at = "sort"].task = b.task
      BY <2>1, CallAt
  <2>3. QED
      BY <2>1, <2>2 DEF b
<1>4. /\ stack = <<>> /\ stack' = <<p, j>> /\ isFlushPending' = FALSE /\ isFlushing' = TRUE
      /\ UNCHANGED <<queue, flushIndex, pendingPre, activePre, preIndex, parentJob,
                     pendingPost, activePost, postIndex>>
    BY DEF Updates!S!FlushBegins, Updates!S!preVars, Updates!S!postVars, NoUpdate
<1> HIDE DEF p, j
<1>5. <<j>> \in Seq(CallSet) /\ <<j>> = <<j>> \o <<>> /\ stack' = <<p>> \o <<j>> /\ <<>> \in Seq(CallSet)
  <2>1. <<j>> \in Seq(CallSet) /\ <<>> \in Seq(CallSet) /\ <<p, j>> \in Seq(CallSet)
      BY <1>2, <1>3
  <2>2. <<j>> \o <<>> = <<j>> /\ <<p, j>> \o <<>> = <<p, j>>
      BY <2>1, ConcatEmptySeq
  <2>3. <<p, j>> \o <<>> = <<p>> \o (<<j>> \o <<>>)
      BY <1>2, <1>3, <2>1, TwoMore
  <2>4. QED
      BY <1>4, <2>1, <2>2, <2>3
<1>6. Good(j) /\ Good(p) /\ Over(p, j) /\ Makes(j, p)
    BY <1>2, <1>3 DEF Good, Over, Makes, Level
<1>7. Nested(<<>>) /\ Fits(j, <<>>)
  <2>1. Len(<<>>) = 0
      OBVIOUS
  <2>2. Nested(<<>>)
      BY <2>1 DEF Nested
  <2>3. QED
      BY <1>3, <1>6, <2>1, <2>2 DEF Fits
<1>8. Nested(<<j>>)
    BY <1>3, <1>5, <1>7, NestedPush
<1>9. <<j>> # <<>> /\ Head(<<j>>) = j
    OBVIOUS
<1>10. stack' \in Seq(CallSet) /\ Nested(stack')
    BY <1>2, <1>5, <1>6, <1>8, <1>9, CallsOne
<1>11. SameWork(<<j>>, <<>>) /\ SameWork(stack', <<j>>)
    BY <1>2, <1>3, <1>5, FlushOnTop DEF Flushes
<1>12. SameWork(stack', stack)
    BY <1>4, <1>11, SameWorkIs
<1>13. \A fn, t : ~Loops(stack, fn, t)
    BY <1>4 DEF Loops
<1>14. Flags'
    BY <1>4 DEF Flags
<1>15. QED
    BY <1>4, <1>10, <1>12, <1>13, <1>14, OnlyMoves DEF Stacked

LEMMA FlushRestartsKeeps ==
    ASSUME SchedulerInv, Updates!S!FlushRestarts
    PROVE  SchedulerInv' /\ WorkKept
<1> DEFINE f == Updates!S!PreCall(Head(stack).seen, NoUpdate)
           g == [Head(stack) EXCEPT !.at = "sort"]
<1>1. /\ stack # <<>> /\ Head(stack).fn = "flushJobs" /\ Head(stack).at = "pre"
      /\ stack' = <<f, g>> \o Tail(stack) /\ isFlushPending' = FALSE /\ isFlushing' = TRUE
      /\ UNCHANGED <<queue, flushIndex, pendingPre, activePre, preIndex, parentJob,
                     pendingPost, activePost, postIndex>>
    BY DEF Updates!S!FlushRestarts, Updates!S!Runs, Updates!S!GoesAndCalls, Updates!S!Below, Updates!S!preVars, Updates!S!postVars, NoUpdate
<1>2. Head(stack) \in CallSet /\ Good(Head(stack)) /\ Head(stack).seen \in [Own -> Nat]
    BY <1>1, InnermostIs DEF SchedulerInv
<1>3. f \in CallSet /\ f.fn = "flushPre" /\ f.at = "begin" /\ f.task = NoUpdate
    BY <1>2, FlushCallsAre
<1>4. g \in CallSet /\ g.fn = "flushJobs" /\ g.at = "sort" /\ g.task = Head(stack).task
    BY <1>1, <1>2, CallAt
<1>5. Head(stack).task = NoUpdate
    BY <1>1, <1>2 DEF Good
<1> HIDE DEF f, g
<1>6. Good(f) /\ Good(g) /\ Over(f, g) /\ Makes(g, f)
    BY <1>3, <1>4, <1>5 DEF Good, Over, Makes, Level
<1>7. /\ Stacked' /\ SameWork(stack', stack)
      /\ \A fn, t : Loops(stack, fn, t) => Loops(stack', fn, t)
    BY <1>1, <1>3, <1>4, <1>6, FlushCalls DEF SchedulerInv, Stacked, Flushes
<1>8. Flags'
    BY <1>1 DEF Flags
<1>9. QED
    BY <1>1, <1>7, <1>8, OnlyMoves

LEMMA QueueIsSortedKeeps ==
    ASSUME SchedulerInv, Updates!S!QueueIsSorted
    PROVE  SchedulerInv' /\ WorkKept
<1> DEFINE g == [Head(stack) EXCEPT !.at = "jobs"]
<1>1. /\ stack # <<>> /\ Head(stack).fn = "flushJobs" /\ Head(stack).at = "sort"
      /\ stack' = <<g>> \o Tail(stack) /\ queue' = Updates!S!SortById(queue) /\ flushIndex' = 0
      /\ UNCHANGED <<isFlushing, isFlushPending, pendingPre, activePre, preIndex, parentJob,
                     pendingPost, activePost, postIndex>>
    BY DEF Updates!S!QueueIsSorted, Updates!S!Sorts, Updates!S!Runs, Updates!S!Goes, Updates!S!Below, Updates!S!preVars, Updates!S!postVars
<1>2. /\ Head(stack) \in CallSet /\ Good(Head(stack)) /\ Level(Head(stack)) = 0
      /\ \A n : OnLevel(stack, n) => n < Level(Head(stack)) \/ n = Level(Head(stack))
    BY <1>1, InnermostIs, LevelIs DEF SchedulerInv
<1>3. g \in CallSet /\ g.fn = "flushJobs" /\ g.at = "jobs" /\ g.task = Head(stack).task
    BY <1>1, <1>2, CallAt
<1>4. Head(stack).task = NoUpdate
    BY <1>1, <1>2 DEF Good
<1>5. ~OnLevel(stack, 1)
    BY <1>2
<1> HIDE DEF g
<1>6. Good(g)
    BY <1>3, <1>4 DEF Good
<1>7. /\ Stacked' /\ SameWork(stack', stack)
      /\ \A fn, t : Loops(stack, fn, t) => Loops(stack', fn, t)
    BY <1>1, <1>3, <1>6, FlushGoesOn DEF SchedulerInv, Stacked, Flushes
<1>8. isFlushing = TRUE
    BY <1>1, FlushIsOn DEF SchedulerInv, Flushing
<1>9. queue' \in Seq(Updates!Updates) /\ \A t : Ahead(queue, 0, t) => Ahead(queue', 0, t)
  <2>1. Updates!Updates \in SUBSET Own /\ queue \in Seq(Updates!Updates)
      BY DEF Own, SchedulerInv, SchedulerTypes
  <2>2. QED
      BY <1>1, <2>1, SortHas
<1>10. SchedulerTypes'
    BY <1>1, <1>9 DEF SchedulerInv, SchedulerTypes
<1>11. Flags'
    BY <1>1, <1>8 DEF Flags
<1>12. ~OnLevel(stack', 1)
    BY <1>5, <1>7 DEF SameWork
<1>13. Indexed'
    BY <1>1, <1>9, <1>12 DEF Indexed
<1>14. Looping'
    BY <1>1, <1>7, LoopingKept DEF SchedulerInv
<1>15. ASSUME NEW c \in Updates!Instance, UpdateWaits(c) PROVE UpdateWaits(c)'
  <2>1. PICK k \in 1..Len(queue) : k > flushIndex + 0 /\ queue[k] = Updates!Update(c)
      BY <1>5, <1>15 DEF UpdateWaits, FirstUpdate, Ahead
  <2>2. k > 0 /\ FirstUpdate' = 0
      BY <1>1, <1>12 DEF FirstUpdate
  <2>3. Ahead(queue', 0, Updates!Update(c))
      BY <1>9, <2>1, <2>2 DEF Ahead
  <2>4. QED
      BY <2>2, <2>3 DEF UpdateWaits
<1>16. WorkKept
    BY <1>1, <1>7, <1>15, SameWatchWaits, SameWorkKept
<1>17. QED
    BY <1>7, <1>10, <1>11, <1>13, <1>14, <1>16 DEF SchedulerInv

LEMMA QueueIsDoneKeeps ==
    ASSUME SchedulerInv, Updates!S!QueueIsDone
    PROVE  SchedulerInv' /\ WorkKept
<1> DEFINE f == Updates!S!PostCall(Head(stack).seen)
           g == [Head(stack) EXCEPT !.at = "finally"]
<1>1. /\ stack # <<>> /\ Head(stack).fn = "flushJobs" /\ Head(stack).at = "jobs"
      /\ stack' = <<f, g>> \o Tail(stack) /\ queue' = <<>> /\ flushIndex' = 0
      /\ flushIndex = Len(queue)
      /\ UNCHANGED <<isFlushing, isFlushPending, pendingPre, activePre, preIndex, parentJob,
                     pendingPost, activePost, postIndex>>
    BY DEF Updates!S!QueueIsDone, Updates!S!Finally, Updates!S!Runs, Updates!S!GoesAndCalls, Updates!S!Below, Updates!S!preVars, Updates!S!postVars
<1>2. /\ Head(stack) \in CallSet /\ Good(Head(stack)) /\ Level(Head(stack)) = 0
      /\ Head(stack).seen \in [Own -> Nat]
      /\ \A n : OnLevel(stack, n) => n < Level(Head(stack)) \/ n = Level(Head(stack))
    BY <1>1, InnermostIs, LevelIs DEF SchedulerInv
<1>3. f \in CallSet /\ f.fn = "flushPost" /\ f.at = "begin" /\ f.task = NoUpdate
    BY <1>2, FlushCallsAre
<1>4. g \in CallSet /\ g.fn = "flushJobs" /\ g.at = "finally" /\ g.task = Head(stack).task
    BY <1>1, <1>2, CallAt
<1>5. Head(stack).task = NoUpdate
    BY <1>1, <1>2 DEF Good
<1>6. ~OnLevel(stack, 1)
    BY <1>2
<1> HIDE DEF f, g
<1>7. Good(f) /\ Good(g) /\ Over(f, g) /\ Makes(g, f)
    BY <1>3, <1>4, <1>5 DEF Good, Over, Makes, Level
<1>8. /\ Stacked' /\ SameWork(stack', stack)
      /\ \A fn, t : Loops(stack, fn, t) => Loops(stack', fn, t)
    BY <1>1, <1>3, <1>4, <1>7, FlushCalls DEF SchedulerInv, Stacked, Flushes
<1>9. isFlushing = TRUE
    BY <1>1, FlushIsOn DEF SchedulerInv, Flushing
<1>10. SchedulerTypes'
    BY <1>1 DEF SchedulerInv, SchedulerTypes
<1>11. Flags'
    BY <1>1, <1>9 DEF Flags
<1>12. ~OnLevel(stack', 1)
    BY <1>6, <1>8 DEF SameWork
<1>13. Indexed'
    BY <1>1, <1>12 DEF Indexed
<1>14. Looping'
    BY <1>1, <1>8, LoopingKept DEF SchedulerInv
<1>15. ASSUME NEW c \in Updates!Instance PROVE ~UpdateWaits(c)
  <2>1. Len(queue) \in Nat /\ FirstUpdate = Len(queue)
      BY <1>1, <1>6 DEF FirstUpdate, SchedulerInv, SchedulerTypes
  <2>2. QED
      BY <2>1 DEF UpdateWaits, Ahead
<1>16. WorkKept
    BY <1>1, <1>8, <1>15, SameWatchWaits, SameWorkKept
<1>17. QED
    BY <1>8, <1>10, <1>11, <1>13, <1>14, <1>16 DEF SchedulerInv

LEMMA FlushEndsKeeps ==
    ASSUME SchedulerInv, Updates!S!FlushEnds, ~thrown'
    PROVE  SchedulerInv' /\ WorkKept
<1>1. /\ stack # <<>> /\ Head(stack).fn = "flushJobs" /\ Head(stack).at \in {"finally", "failed"}
      /\ isFlushing' = FALSE
      /\ UNCHANGED <<queue, flushIndex, isFlushPending, pendingPre, activePre, preIndex, parentJob,
                     pendingPost, activePost, postIndex>>
    BY DEF Updates!S!FlushEnds, Updates!S!Runs, Updates!S!preVars, Updates!S!postVars
<1>2. /\ Head(stack) \in CallSet /\ Good(Head(stack)) /\ Level(Head(stack)) = 0
      /\ Head(stack).seen \in [Own -> Nat]
      /\ \A n : OnLevel(stack, n) => n < Level(Head(stack)) \/ n = Level(Head(stack))
      /\ NoFlushing(Tail(stack))
    BY <1>1, InnermostIs, LevelIs DEF SchedulerInv
<1>3. Head(stack).task = NoUpdate /\ Head(stack).at = "finally"
    BY <1>1, <1>2 DEF Good
<1>4. isFlushPending' \in BOOLEAN
    BY <1>1 DEF SchedulerInv, SchedulerTypes
<1>5. CASE Updates!S!FlushAgain
  <2> DEFINE f == Updates!S!JobsCall(Head(stack).seen)
             g == [Head(stack) EXCEPT !.at = "ends"]
  <2>1. stack' = <<f, g>> \o Tail(stack)
      BY <1>3, <1>5 DEF Updates!S!FlushEnds, Updates!S!GoesAndCalls, Updates!S!Below
  <2>2. f \in CallSet /\ f.fn = "flushJobs" /\ f.at = "pre" /\ f.task = NoUpdate
      BY <1>2, FlushCallsAre
  <2>3. g \in CallSet /\ g.fn = "flushJobs" /\ g.at = "ends" /\ g.task = Head(stack).task
      BY <1>1, <1>2, CallAt
  <2> HIDE DEF f, g
  <2>4. Good(f) /\ Good(g) /\ Over(f, g) /\ Makes(g, f) /\ ~Flushing(f) /\ ~Flushing(g)
      BY <1>3, <2>2, <2>3 DEF Good, Over, Makes, Level, Flushing
  <2>5. /\ Stacked' /\ SameWork(stack', stack) /\ NoFlushing(stack')
        /\ stack' # <<>> /\ Head(stack') = f
        /\ \A fn, t : Loops(stack, fn, t) => Loops(stack', fn, t)
      BY <1>1, <1>2, <1>3, <2>1, <2>2, <2>3, <2>4, FlushCalls DEF SchedulerInv, Stacked, Flushes
  <2>6. Flags'
      BY <2>2, <2>5 DEF Flags
  <2>7. QED
      BY <1>1, <1>4, <2>5, <2>6, OnlyMoves
<1>6. CASE ~Updates!S!FlushAgain
  <2>1. Updates!S!Return
      BY <1>6 DEF Updates!S!FlushEnds
  <2>2. /\ Stacked' /\ SameWork(stack', stack) /\ NoFlushing(stack')
        /\ \A fn, t : Loops(stack, fn, t) => Loops(stack', fn, t)
      BY <1>1, <1>2, <1>3, <2>1, FlushReturns DEF SchedulerInv, Flushes
  <2>3. ~LeftOver'
      BY <1>1, <1>6 DEF LeftOver, Updates!S!FlushAgain
  <2>4. Flags'
      BY <2>2, <2>3 DEF Flags
  <2>5. QED
      BY <1>1, <1>4, <2>2, <2>4, OnlyMoves
<1>7. QED
    BY <1>5, <1>6

LEMMA OuterFlushEndsKeeps ==
    ASSUME SchedulerInv, Updates!S!OuterFlushEnds
    PROVE  SchedulerInv' /\ WorkKept
<1>1. /\ stack # <<>> /\ Head(stack).fn = "flushJobs" /\ Head(stack).at \in {"ends", "throws"}
      /\ Updates!S!Return
      /\ UNCHANGED <<queue, flushIndex, isFlushing, isFlushPending, pendingPre, activePre, preIndex,
                     parentJob, pendingPost, activePost, postIndex>>
    BY DEF Updates!S!OuterFlushEnds, Updates!S!Runs, Updates!S!queueVars, Updates!S!preVars, Updates!S!postVars
<1>2. /\ Stacked' /\ SameWork(stack', stack) /\ (NoFlushing(stack) => NoFlushing(stack'))
      /\ \A fn, t : Loops(stack, fn, t) => Loops(stack', fn, t)
    BY <1>1, FlushReturns DEF SchedulerInv, Flushes
<1>3. Flags'
    BY <1>1, <1>2, FlagsKept DEF SchedulerInv, LeftOver
<1>4. isFlushing' \in BOOLEAN /\ isFlushPending' \in BOOLEAN
    BY <1>1 DEF SchedulerInv, SchedulerTypes
<1>5. QED
    BY <1>1, <1>2, <1>3, <1>4, OnlyMoves

-----------------------------------------------------------------------------
(* The loops.                                                              *)

\* A loop runs a task.
LEMMA RunsTaskIs ==
    ASSUME Stacked, stack # <<>>, NEW t \in Own, Updates!S!RunsTask(t), ~thrown',
           \/ t \in Updates!Updates /\ Head(stack).fn = "flushJobs" /\ Head(stack).at = "jobs"
           \/ t \notin Updates!Updates /\ Head(stack).fn \in {"flushPre", "flushPost"} /\ Head(stack).at = "loop"
    PROVE  /\ Stacked' /\ (NoFlushing(stack) => NoFlushing(stack'))
           /\ \A fn, u : Loops(stack, fn, u) => Loops(stack', fn, u)
           /\ \A n \in {1, 4} : OnLevel(stack', n) <=> OnLevel(stack, n) \/ n = IF t \in Updates!Updates THEN 1 ELSE 4
           /\ \A c, ats : UpdateAt(stack', c, ats) <=>
                 (t = Updates!Update(c) /\ "runs" \in ats) \/ UpdateAt(stack, c, ats)
           /\ \A u : Scheduled(stack', u) <=> Scheduled(stack, u)
           /\ \A c : RunsWatch(stack', c) <=> t = Updates!Watch(c) \/ RunsWatch(stack, c)
           /\ \A c : NoCallback(stack', c) <=> NoCallback(stack, c)
           /\ \A c : OneCallback(stack', c) <=> OneCallback(stack, c)
           /\ HasJob(stack') <=> HasJob(stack)
<1> DEFINE f == Updates!S!TaskCall(t)
           g == [Head(stack) EXCEPT !.seen[t] = @ + 1]
           q == <<g>> \o Tail(stack)
<1>1. stack' = <<f, g>> \o Tail(stack)
    BY DEF Updates!S!RunsTask, Updates!S!Below
<1>2. /\ Head(stack) \in CallSet /\ Good(Head(stack)) /\ Head(stack).seen \in [Own -> Nat]
    BY InnermostIs
<1>3. f \in CallSet /\ f.fn = "task" /\ f.at = "runs" /\ f.task = t
    BY <1>2, FlushCallsAre
<1>4. g \in CallSet /\ g.fn = Head(stack).fn /\ g.at = Head(stack).at /\ g.task = Head(stack).task
    BY <1>2, CallSeen
<1> HIDE DEF f, g
<1>5. Good(f) /\ Good(g)
    BY <1>2, <1>3, <1>4 DEF Good, Own
<1>6. Over(f, g) /\ Makes(g, f)
  <2>1. Level(g) \in {0, 3} /\ (t \in Updates!Updates => Level(g) = 0)
      BY <1>4, LevelIs
  <2>2. Level(f) = IF t \in Updates!Updates THEN 1 ELSE 4
      BY <1>3, LevelIs
  <2>3. Over(f, g)
      BY <2>1, <2>2 DEF Over
  <2>4. Makes(g, f)
      BY <1>3, <1>4 DEF Makes
  <2>5. QED
      BY <2>3, <2>4
<1>7. Head(stack).fn \in Flushes
    BY DEF Flushes
<1>8. /\ stack' \in Seq(CallSet) /\ Nested(stack') /\ q \in Seq(CallSet) /\ stack' = <<f>> \o q
      /\ SameWork(q, stack)
      /\ ~Flushing(f) /\ ~Flushing(g) /\ NoFlushing(Tail(stack)) => NoFlushing(stack')
      /\ \A fn, u : Loops(stack, fn, u) => Loops(stack', fn, u) \/ (g.at # "loop" /\ Head(stack).at = "loop")
    BY <1>1, <1>3, <1>4, <1>5, <1>6, <1>7, FlushCalls, ZenonT(60)
<1> HIDE DEF q
<1>9. NoFlushing(stack) => NoFlushing(stack')
  <2>1. /\ stack = <<Head(stack)>> \o Tail(stack) /\ Tail(stack) \in Seq(CallSet)
        /\ stack \in Seq(CallSet)
      BY Apart1 DEF Stacked
  <2>2. NoFlushing(stack) <=> ~Flushing(Head(stack)) /\ NoFlushing(Tail(stack))
      BY <1>2, <2>1, PushSees
  <2>3. ~Flushing(f)
      BY <1>3 DEF Flushing
  <2>4. Flushing(g) => Flushing(Head(stack))
      BY <1>4 DEF Flushing
  <2>5. QED
      BY <1>8, <2>2, <2>3, <2>4
<1>10. q \in Seq(CallSet) /\ stack' = <<f>> \o q
    BY <1>8
<1>11. /\ \A n : OnLevel(stack', n) <=> Level(f) = n \/ OnLevel(q, n)
       /\ \A c, ats : UpdateAt(stack', c, ats) <=>
             \/ f.fn \in {"task", "update"} /\ f.task = Updates!Update(c) /\ f.at \in ats
             \/ UpdateAt(q, c, ats)
       /\ \A u : Scheduled(stack', u) <=> (f.fn = "schedule" /\ f.task = u) \/ Scheduled(q, u)
       /\ \A c : RunsWatch(stack', c) <=> IsJob(f, c, "runs") \/ RunsWatch(q, c)
       /\ \A c : NoCallback(stack', c) <=> ~IsJob(f, c, "callback") /\ NoCallback(q, c)
       /\ \A c : ~IsJob(f, c, "callback") => (OneCallback(stack', c) <=> OneCallback(q, c))
       /\ HasJob(stack') <=> f.fn = "job" \/ HasJob(q)
    BY <1>3, <1>10, PushSees
<1>12. /\ Level(f) = IF t \in Updates!Updates THEN 1 ELSE 4
       /\ \A c : IsJob(f, c, "runs") <=> t = Updates!Watch(c)
       /\ \A c : ~IsJob(f, c, "callback")
    BY <1>3, LevelIs DEF IsJob
<1>13. SameWork(q, stack)
    BY <1>8
<1>14. \A n \in {1, 4} : OnLevel(stack', n) <=> OnLevel(stack, n) \/ n = IF t \in Updates!Updates THEN 1 ELSE 4
    BY <1>11, <1>12, <1>13 DEF SameWork
<1>15. /\ \A c, ats : UpdateAt(stack', c, ats) <=>
             (t = Updates!Update(c) /\ "runs" \in ats) \/ UpdateAt(stack, c, ats)
       /\ \A u : Scheduled(stack', u) <=> Scheduled(stack, u)
    BY <1>3, <1>11, <1>13 DEF SameWork
<1>16. /\ \A c : RunsWatch(stack', c) <=> t = Updates!Watch(c) \/ RunsWatch(stack, c)
       /\ \A c : NoCallback(stack', c) <=> NoCallback(stack, c)
       /\ \A c : OneCallback(stack', c) <=> OneCallback(stack, c)
       /\ HasJob(stack') <=> HasJob(stack)
    BY <1>3, <1>11, <1>12, <1>13 DEF SameWork
<1>17. \A fn, u : Loops(stack, fn, u) => Loops(stack', fn, u)
    BY <1>4, <1>8
<1>18. QED
    BY <1>8, <1>9, <1>14, <1>15, <1>16, <1>17 DEF Stacked

LEMMA NextJobRunsKeeps ==
    ASSUME SchedulerInv, Updates!S!NextJobRuns, ~thrown'
    PROVE  SchedulerInv' /\ WorkKept
<1> DEFINE t == queue[flushIndex + 1]
<1>1. /\ stack # <<>> /\ Head(stack).fn = "flushJobs" /\ Head(stack).at = "jobs"
      /\ flushIndex < Len(queue) /\ Updates!S!RunsTask(t)
      /\ UNCHANGED <<queue, flushIndex, isFlushing, isFlushPending, pendingPre, activePre, preIndex,
                     parentJob, pendingPost, activePost, postIndex>>
    BY DEF Updates!S!NextJobRuns, Updates!S!Runs, Updates!S!queueVars, Updates!S!preVars, Updates!S!postVars
<1>2. queue \in Seq(Updates!Updates) /\ flushIndex \in Nat /\ Len(queue) \in Nat
    BY DEF SchedulerInv, SchedulerTypes
<1>3. t \in Updates!Updates /\ t \in Own
    BY <1>1, <1>2 DEF Own
<1>4. /\ Level(Head(stack)) = 0
      /\ \A n : OnLevel(stack, n) => n < Level(Head(stack)) \/ n = Level(Head(stack))
    BY <1>1, InnermostIs, LevelIs DEF SchedulerInv
<1>5. ~OnLevel(stack, 1) /\ ~OnLevel(stack, 4)
    BY <1>4
<1> HIDE DEF t
<1>6. /\ Stacked' /\ (NoFlushing(stack) => NoFlushing(stack'))
      /\ \A fn, u : Loops(stack, fn, u) => Loops(stack', fn, u)
      /\ \A n \in {1, 4} : OnLevel(stack', n) <=> OnLevel(stack, n) \/ n = IF t \in Updates!Updates THEN 1 ELSE 4
      /\ \A c, ats : UpdateAt(stack', c, ats) <=>
            (t = Updates!Update(c) /\ "runs" \in ats) \/ UpdateAt(stack, c, ats)
      /\ \A u : Scheduled(stack', u) <=> Scheduled(stack, u)
      /\ \A c : RunsWatch(stack', c) <=> t = Updates!Watch(c) \/ RunsWatch(stack, c)
      /\ \A c : NoCallback(stack', c) <=> NoCallback(stack, c)
      /\ \A c : OneCallback(stack', c) <=> OneCallback(stack, c)
      /\ HasJob(stack') <=> HasJob(stack)
    BY <1>1, <1>3, RunsTaskIs DEF SchedulerInv
<1>7. OnLevel(stack', 1) /\ ~OnLevel(stack', 4)
    BY <1>3, <1>5, <1>6
<1>8. SchedulerTypes'
    BY <1>1 DEF SchedulerInv, SchedulerTypes
<1>9. Flags'
    BY <1>1, <1>6, FlagsKept DEF SchedulerInv, LeftOver
<1>10. Indexed'
    BY <1>1, <1>2 DEF Indexed
<1>11. Looping'
    BY <1>1, <1>6, LoopingKept DEF SchedulerInv
<1>12. ASSUME NEW c \in Updates!Instance, Coming(c) PROVE Coming(c)'
  <2>1. CASE UpdateWaits(c)
    <3>1. PICK k \in 1..Len(queue) : k > flushIndex /\ queue[k] = Updates!Update(c)
        BY <1>2, <1>5, <2>1 DEF UpdateWaits, FirstUpdate, Ahead
    <3>2. CASE k = flushIndex + 1
      <4>1. t = Updates!Update(c)
          BY <3>1, <3>2 DEF t
      <4>2. UpdateAt(stack', c, {"runs", "render"})
          BY <1>6, <4>1
      <4>3. QED
          BY <4>2 DEF Coming
    <3>3. CASE k # flushIndex + 1
      <4>1. k > flushIndex + 1 /\ FirstUpdate' = flushIndex + 1
          BY <1>1, <1>2, <1>7, <3>1, <3>3 DEF FirstUpdate
      <4>2. UpdateWaits(c)'
          BY <1>1, <3>1, <4>1 DEF UpdateWaits, Ahead
      <4>3. QED
          BY <4>2 DEF Coming
    <3>4. QED
        BY <3>2, <3>3
  <2>2. CASE Scheduled(stack, Updates!Update(c)) \/ UpdateAt(stack, c, {"runs", "render"})
      BY <1>6, <2>2 DEF Coming
  <2>3. QED
      BY <1>12, <2>1, <2>2 DEF Coming
<1>13. ASSUME NEW c \in Updates!Instance, WatchComing(c) PROVE WatchComing(c)'
  <2>1. WatchWaits(c) => WatchWaits(c)'
      BY <1>1, <1>5, <1>7 DEF WatchWaits, FirstPre, FirstPost
  <2>2. QED
      BY <1>6, <1>13, <2>1 DEF WatchComing
<1>14. \A c \in Updates!Instance : UpdateAt(stack', c, {"render"}) <=> UpdateAt(stack, c, {"render"})
    BY <1>6
<1>15. WorkKept
    BY <1>6, <1>12, <1>13, <1>14 DEF WorkKept
<1>16. QED
    BY <1>6, <1>8, <1>9, <1>10, <1>11, <1>15 DEF SchedulerInv

\* The callbacks are flushed by one call at a time.
LEMMA OneLoop ==
    ASSUME SchedulerInv, stack # <<>>, Head(stack).fn \in {"flushPre", "flushPost"}
    PROVE  /\ Head(stack).fn # "flushPre" \/ Head(stack).at # "loop" => activePre = <<>>
           /\ Head(stack).fn # "flushPost" \/ Head(stack).at # "loop" => activePost = <<>>
           /\ ~OnLevel(stack, 4) /\ Head(stack).fn \in Flushes
           /\ Head(stack) \in CallSet /\ Good(Head(stack)) /\ Head(stack).seen \in [Own -> Nat]
<1>1. /\ Level(Head(stack)) = 3 /\ Head(stack) \in CallSet /\ Good(Head(stack))
      /\ Head(stack).seen \in [Own -> Nat]
      /\ \A n : OnLevel(stack, n) => n < Level(Head(stack)) \/ n = Level(Head(stack))
      /\ \A n : OnLevel(Tail(stack), n) =>
                 n < Level(Head(stack)) \/ (n = Level(Head(stack)) /\ n \in {0, 5})
    BY InnermostIs, LevelIs DEF SchedulerInv
<1>2. ~OnLevel(stack, 4) /\ ~OnLevel(Tail(stack), 3)
    BY <1>1
<1>3. \A fn \in {"flushPre", "flushPost"} : \A t : ~Loops(Tail(stack), fn, t)
    BY <1>2, LevelOfWork
<1>4. \A fn, t : Loops(stack, fn, t) <=>
            \/ Head(stack).fn = fn /\ Head(stack).at = "loop" /\ Head(stack).task = t
            \/ Loops(Tail(stack), fn, t)
  <2>1. stack \in Seq(CallSet) /\ Nested(stack)
      BY DEF SchedulerInv, Stacked
  <2>2. stack = <<Head(stack)>> \o Tail(stack) /\ Tail(stack) \in Seq(CallSet)
      BY <2>1, Apart1
  <2>3. QED
      BY <1>1, <2>2, PushSees
<1>5. Looping
    BY DEF SchedulerInv
<1>6. activePre # <<>> => Head(stack).fn = "flushPre" /\ Head(stack).at = "loop"
    BY <1>3, <1>4, <1>5 DEF Looping
<1>7. activePost # <<>> => Head(stack).fn = "flushPost" /\ Head(stack).at = "loop"
    BY <1>3, <1>4, <1>5 DEF Looping
<1>8. QED
    BY <1>1, <1>2, <1>6, <1>7 DEF Flushes

LEMMA PreCbsBeginKeeps ==
    ASSUME SchedulerInv, Updates!S!PreCbsBegin
    PROVE  SchedulerInv' /\ WorkKept
<1>1. /\ stack # <<>> /\ Head(stack).fn = "flushPre" /\ Head(stack).at = "begin"
      /\ UNCHANGED <<queue, flushIndex, isFlushing, isFlushPending, pendingPost, activePost, postIndex>>
    BY DEF Updates!S!PreCbsBegin, Updates!S!Runs, Updates!S!queueVars, Updates!S!postVars
<1>2. /\ activePre = <<>> /\ activePost = <<>> /\ ~OnLevel(stack, 4) /\ Head(stack).fn \in Flushes
      /\ Head(stack) \in CallSet /\ Good(Head(stack))
    BY <1>1, OneLoop
<1>3. isFlushing' \in BOOLEAN /\ isFlushPending' \in BOOLEAN
    BY <1>1 DEF SchedulerInv, SchedulerTypes
<1>4. CASE pendingPre = <<>>
  <2>1. Updates!S!Return /\ UNCHANGED <<pendingPre, activePre, preIndex, parentJob>>
      BY <1>4 DEF Updates!S!PreCbsBegin, Updates!S!preVars
  <2>2. /\ Stacked' /\ SameWork(stack', stack) /\ (NoFlushing(stack) => NoFlushing(stack'))
        /\ \A fn, t : Loops(stack, fn, t) => Loops(stack', fn, t)
      BY <1>1, <1>2, <2>1, FlushReturns DEF SchedulerInv
  <2>3. Flags'
      BY <1>1, <2>2, FlagsKept DEF SchedulerInv, LeftOver
  <2>4. QED
      BY <1>1, <1>3, <2>1, <2>2, <2>3, OnlyMoves
<1>5. CASE pendingPre # <<>>
  <2> DEFINE g == [Head(stack) EXCEPT !.at = "loop"]
  <2>1. /\ stack' = <<g>> \o Tail(stack) /\ parentJob' = Head(stack).task
        /\ activePre' = Updates!S!Distinct(pendingPre) /\ pendingPre' = <<>> /\ preIndex' = 0
      BY <1>5 DEF Updates!S!PreCbsBegin, Updates!S!Goes, Updates!S!Below
  <2>2. g \in CallSet /\ g.fn = "flushPre" /\ g.at = "loop" /\ g.task = Head(stack).task
      BY <1>1, <1>2, CallAt
  <2> HIDE DEF g
  <2>3. Head(stack).task \in Updates!Updates \cup {NoUpdate} /\ Good(g)
      BY <1>1, <1>2, <2>2 DEF Good
  <2>4. /\ Stacked' /\ SameWork(stack', stack)
        /\ \A fn, t : Loops(stack, fn, t) => Loops(stack', fn, t)
        /\ Loops(stack', "flushPre", Head(stack).task)
      BY <1>1, <1>2, <2>1, <2>2, <2>3, FlushGoesOn DEF SchedulerInv, Stacked
  <2>5. NoFlushing(stack) => NoFlushing(stack')
    <3>1. ~Flushing(g)
        BY <2>2 DEF Flushing
    <3>2. QED
        BY <1>1, <1>2, <2>1, <2>2, <2>3, <3>1, FlushGoesOn DEF SchedulerInv
  <2>6. pendingPre \in Seq(Updates!Watches)
      BY DEF SchedulerInv, SchedulerTypes
  <2>7. activePre' \in Seq(Updates!Watches) /\ \A t : Ahead(pendingPre, 0, t) => Ahead(activePre', 0, t)
      BY <2>1, <2>6, DistinctHas
  <2>8. SchedulerTypes'
      BY <1>1, <2>1, <2>3, <2>7 DEF SchedulerInv, SchedulerTypes
  <2>9. Flags'
      BY <1>1, <2>5, FlagsKept DEF SchedulerInv, LeftOver
  <2>10. Indexed'
      BY <1>1, <2>4, SameIndexed DEF SchedulerInv
  <2>11. Looping'
      BY <1>1, <1>2, <2>1, <2>4 DEF Looping
  <2>12. ~OnLevel(stack', 4)
      BY <1>2, <2>4 DEF SameWork
  <2>13. ASSUME NEW c \in Updates!Instance, WatchWaits(c) PROVE WatchWaits(c)'
    <3>1. \A n, t : ~Ahead(<<>>, n, t)
      <4>1. Len(<<>>) = 0
          OBVIOUS
      <4>2. QED
          BY <4>1 DEF Ahead
    <3>2. Ahead(pendingPre, 0, Updates!Watch(c)) \/ Ahead(pendingPost, 0, Updates!Watch(c))
        BY <1>2, <2>13, <3>1 DEF WatchWaits
    <3>3. FirstPre' = 0
        BY <2>1, <2>12 DEF FirstPre
    <3>4. QED
        BY <1>1, <2>7, <3>2, <3>3 DEF WatchWaits
  <2>14. WorkKept
      BY <1>1, <2>4, <2>13, SameWaits, SameWorkKept
  <2>15. QED
      BY <2>4, <2>8, <2>9, <2>10, <2>11, <2>14 DEF SchedulerInv
<1>6. QED
    BY <1>4, <1>5

LEMMA NextPreCbRunsKeeps ==
    ASSUME SchedulerInv, Updates!S!NextPreCbRuns, ~thrown'
    PROVE  SchedulerInv' /\ WorkKept
<1> DEFINE t == activePre[preIndex + 1]
<1>1. /\ stack # <<>> /\ Head(stack).fn = "flushPre" /\ Head(stack).at = "loop"
      /\ preIndex < Len(activePre) /\ Updates!S!RunsTask(t)
      /\ UNCHANGED <<queue, flushIndex, isFlushing, isFlushPending, pendingPre, activePre, preIndex,
                     parentJob, pendingPost, activePost, postIndex>>
    BY DEF Updates!S!NextPreCbRuns, Updates!S!Runs, Updates!S!queueVars, Updates!S!preVars, Updates!S!postVars
<1>2. activePre \in Seq(Updates!Watches) /\ preIndex \in Nat /\ Len(activePre) \in Nat
    BY DEF SchedulerInv, SchedulerTypes
<1>3. t \in Updates!Watches /\ t \in Own /\ t \notin Updates!Updates
  <2>1. t \in Updates!Watches
      BY <1>1, <1>2
  <2>2. QED
      BY <2>1, TasksDiffer DEF Own
<1>4. activePost = <<>> /\ ~OnLevel(stack, 4)
    BY <1>1, OneLoop
<1> HIDE DEF t
<1>5. /\ Stacked' /\ (NoFlushing(stack) => NoFlushing(stack'))
      /\ \A fn, u : Loops(stack, fn, u) => Loops(stack', fn, u)
      /\ \A n \in {1, 4} : OnLevel(stack', n) <=> OnLevel(stack, n) \/ n = IF t \in Updates!Updates THEN 1 ELSE 4
      /\ \A c, ats : UpdateAt(stack', c, ats) <=>
            (t = Updates!Update(c) /\ "runs" \in ats) \/ UpdateAt(stack, c, ats)
      /\ \A u : Scheduled(stack', u) <=> Scheduled(stack, u)
      /\ \A c : RunsWatch(stack', c) <=> t = Updates!Watch(c) \/ RunsWatch(stack, c)
      /\ \A c : NoCallback(stack', c) <=> NoCallback(stack, c)
      /\ \A c : OneCallback(stack', c) <=> OneCallback(stack, c)
      /\ HasJob(stack') <=> HasJob(stack)
    BY <1>1, <1>3, RunsTaskIs DEF SchedulerInv
<1>6. OnLevel(stack', 4) /\ (OnLevel(stack', 1) <=> OnLevel(stack, 1))
    BY <1>3, <1>4, <1>5
<1>7. SchedulerTypes'
    BY <1>1 DEF SchedulerInv, SchedulerTypes
<1>8. Flags'
    BY <1>1, <1>5, FlagsKept DEF SchedulerInv, LeftOver
<1>9. Indexed'
    BY <1>1, <1>6 DEF Indexed, SchedulerInv
<1>10. Looping'
    BY <1>1, <1>5, LoopingKept DEF SchedulerInv
<1>11. ASSUME NEW c \in Updates!Instance, WatchComing(c) PROVE WatchComing(c)'
  <2>1. \A n, u : ~Ahead(<<>>, n, u)
    <3>1. Len(<<>>) = 0
        OBVIOUS
    <3>2. QED
        BY <3>1 DEF Ahead
  <2>2. CASE Ahead(activePre, FirstPre, Updates!Watch(c))
    <3>1. PICK k \in 1..Len(activePre) : k > preIndex /\ activePre[k] = Updates!Watch(c)
        BY <1>2, <1>4, <2>2 DEF FirstPre, Ahead
    <3>2. CASE k = preIndex + 1
      <4>1. t = Updates!Watch(c)
          BY <3>1, <3>2 DEF t
      <4>2. QED
          BY <1>5, <4>1 DEF WatchComing
    <3>3. CASE k # preIndex + 1
      <4>1. k > preIndex + 1 /\ FirstPre' = preIndex + 1
          BY <1>1, <1>2, <1>6, <3>1, <3>3 DEF FirstPre
      <4>2. WatchWaits(c)'
          BY <1>1, <3>1, <4>1 DEF WatchWaits, Ahead
      <4>3. QED
          BY <4>2 DEF WatchComing
    <3>4. QED
        BY <3>2, <3>3
  <2>3. CASE Scheduled(stack, Updates!Watch(c)) \/ RunsWatch(stack, c)
      BY <1>5, <2>3 DEF WatchComing
  <2>4. CASE Ahead(pendingPre, 0, Updates!Watch(c)) \/ Ahead(pendingPost, 0, Updates!Watch(c))
      BY <1>1, <2>4 DEF WatchComing, WatchWaits
  <2>5. QED
      BY <1>4, <1>11, <2>1, <2>2, <2>3, <2>4 DEF WatchComing, WatchWaits
<1>12. ASSUME NEW c \in Updates!Instance PROVE t # Updates!Update(c)
    BY <1>3, TasksDiffer
<1>13. \A c \in Updates!Instance : UpdateAt(stack', c, {"render"}) <=> UpdateAt(stack, c, {"render"})
    BY <1>5
<1>14. ASSUME NEW c \in Updates!Instance, Coming(c) PROVE Coming(c)'
  <2>1. UpdateWaits(c) => UpdateWaits(c)'
      BY <1>1, <1>6 DEF UpdateWaits, FirstUpdate
  <2>2. QED
      BY <1>5, <1>14, <2>1 DEF Coming
<1>15. WorkKept
    BY <1>5, <1>11, <1>13, <1>14 DEF WorkKept
<1>16. QED
    BY <1>5, <1>7, <1>8, <1>9, <1>10, <1>15 DEF SchedulerInv

LEMMA PreCbsEndKeeps ==
    ASSUME SchedulerInv, Updates!S!PreCbsEnd
    PROVE  SchedulerInv' /\ WorkKept
<1> DEFINE g == [Head(stack) EXCEPT !.at = "begin"]
<1>1. /\ stack # <<>> /\ Head(stack).fn = "flushPre" /\ Head(stack).at = "loop"
      /\ preIndex = Len(activePre) /\ activePre' = <<>> /\ preIndex' = 0 /\ parentJob' = NoUpdate
      /\ stack' = <<g>> \o Tail(stack)
      /\ UNCHANGED <<queue, flushIndex, isFlushing, isFlushPending, pendingPre,
                     pendingPost, activePost, postIndex>>
    BY DEF Updates!S!PreCbsEnd, Updates!S!Drains, Updates!S!Goes, Updates!S!Below, Updates!S!Runs, Updates!S!queueVars, Updates!S!postVars, NoUpdate
<1>2. /\ activePost = <<>> /\ ~OnLevel(stack, 4) /\ Head(stack).fn \in Flushes
      /\ Head(stack) \in CallSet /\ Good(Head(stack))
    BY <1>1, OneLoop
<1>3. g \in CallSet /\ g.fn = "flushPre" /\ g.at = "begin" /\ g.task = Head(stack).task
    BY <1>1, <1>2, CallAt
<1> HIDE DEF g
<1>4. Good(g) /\ ~Flushing(g)
    BY <1>1, <1>2, <1>3 DEF Good, Flushing
<1>5. /\ Stacked' /\ SameWork(stack', stack) /\ (NoFlushing(stack) => NoFlushing(stack'))
    BY <1>1, <1>2, <1>3, <1>4, FlushGoesOn DEF SchedulerInv, Stacked
<1>6. SchedulerTypes'
    BY <1>1 DEF SchedulerInv, SchedulerTypes
<1>7. Flags'
    BY <1>1, <1>5, FlagsKept DEF SchedulerInv, LeftOver
<1>8. Indexed'
    BY <1>1, <1>5, SameIndexed DEF SchedulerInv
<1>9. Looping'
    BY <1>1, <1>2 DEF Looping
<1>10. ASSUME NEW c \in Updates!Instance, WatchWaits(c) PROVE WatchWaits(c)'
  <2>1. \A n, u : ~Ahead(<<>>, n, u)
    <3>1. Len(<<>>) = 0
        OBVIOUS
    <3>2. QED
        BY <3>1 DEF Ahead
  <2>2. Len(activePre) \in Nat /\ FirstPre = Len(activePre)
      BY <1>1, <1>2 DEF FirstPre, SchedulerInv, SchedulerTypes
  <2>3. ~Ahead(activePre, FirstPre, Updates!Watch(c))
      BY <2>2 DEF Ahead
  <2>4. QED
      BY <1>1, <1>2, <1>10, <2>1, <2>3 DEF WatchWaits
<1>11. WorkKept
    BY <1>1, <1>5, <1>10, SameWaits, SameWorkKept
<1>12. QED
    BY <1>5, <1>6, <1>7, <1>8, <1>9, <1>11 DEF SchedulerInv

LEMMA PostCbsBeginKeeps ==
    ASSUME SchedulerInv, Updates!S!PostCbsBegin
    PROVE  SchedulerInv' /\ WorkKept
<1> DEFINE d == Updates!S!Distinct(pendingPost)
           g == [Head(stack) EXCEPT !.at = "loop"]
<1>1. /\ stack # <<>> /\ Head(stack).fn = "flushPost" /\ Head(stack).at = "begin"
      /\ pendingPost' = <<>>
      /\ UNCHANGED <<queue, flushIndex, isFlushing, isFlushPending, pendingPre, activePre, preIndex,
                     parentJob>>
    BY DEF Updates!S!PostCbsBegin, Updates!S!Runs, Updates!S!queueVars, Updates!S!preVars
<1>2. /\ activePre = <<>> /\ activePost = <<>> /\ ~OnLevel(stack, 4) /\ Head(stack).fn \in Flushes
      /\ Head(stack) \in CallSet /\ Good(Head(stack))
    BY <1>1, OneLoop
<1>3. IF d = <<>> THEN Updates!S!Return /\ UNCHANGED <<activePost, postIndex>>
      ELSE stack' = <<g>> \o Tail(stack) /\ activePost' = Updates!S!SortById(d) /\ postIndex' = 0
    BY <1>2 DEF Updates!S!PostCbsBegin, Updates!S!Goes, Updates!S!Below
<1>4. pendingPost \in Seq(Updates!Watches \cup Updates!Hooks)
    BY DEF SchedulerInv, SchedulerTypes
<1>5. /\ d \in Seq(Updates!Watches \cup Updates!Hooks) /\ \A t : Ahead(pendingPost, 0, t) => Ahead(d, 0, t)
      /\ d = <<>> => pendingPost = <<>>
    BY <1>4, DistinctHas
<1>6. isFlushing' \in BOOLEAN /\ isFlushPending' \in BOOLEAN
    BY <1>1 DEF SchedulerInv, SchedulerTypes
<1> HIDE DEF d
<1>7. CASE d = <<>>
  <2> HIDE DEF g
  <2>1. Updates!S!Return /\ UNCHANGED <<activePost, postIndex>> /\ pendingPost' = pendingPost
      BY <1>1, <1>3, <1>5, <1>7
  <2>2. /\ Stacked' /\ SameWork(stack', stack) /\ (NoFlushing(stack) => NoFlushing(stack'))
        /\ \A fn, t : Loops(stack, fn, t) => Loops(stack', fn, t)
      BY <1>1, <1>2, <2>1, FlushReturns DEF SchedulerInv
  <2>3. Flags'
      BY <1>1, <2>1, <2>2, FlagsKept DEF SchedulerInv, LeftOver
  <2>4. QED
      BY <1>1, <1>6, <2>1, <2>2, <2>3, OnlyMoves
<1>8. CASE d # <<>>
  <2>1. stack' = <<g>> \o Tail(stack) /\ activePost' = Updates!S!SortById(d) /\ postIndex' = 0
      BY <1>3, <1>8
  <2>2. g \in CallSet /\ g.fn = "flushPost" /\ g.at = "loop" /\ g.task = Head(stack).task
      BY <1>1, <1>2, CallAt
  <2> HIDE DEF g
  <2>3. Good(g) /\ ~Flushing(g)
      BY <1>1, <1>2, <2>2 DEF Good, Flushing
  <2>4. /\ Stacked' /\ SameWork(stack', stack) /\ (NoFlushing(stack) => NoFlushing(stack'))
        /\ \A fn, t : Loops(stack, fn, t) => Loops(stack', fn, t)
        /\ Loops(stack', "flushPost", g.task)
      BY <1>1, <1>2, <2>1, <2>2, <2>3, FlushGoesOn DEF SchedulerInv, Stacked
  <2>5. activePost' \in Seq(Updates!Watches \cup Updates!Hooks) /\ \A t : Ahead(d, 0, t) => Ahead(activePost', 0, t)
    <3>1. (Updates!Watches \cup Updates!Hooks) \in SUBSET Own
        BY DEF Own
    <3>2. QED
        BY <1>5, <2>1, <3>1, SortHas
  <2>6. SchedulerTypes'
      BY <1>1, <2>1, <2>5 DEF SchedulerInv, SchedulerTypes
  <2>7. Flags'
      BY <1>1, <2>4, FlagsKept DEF SchedulerInv, LeftOver
  <2>8. Indexed'
      BY <1>1, <2>4, SameIndexed DEF SchedulerInv
  <2>9. Looping'
      BY <1>1, <1>2, <2>4 DEF Looping, SchedulerInv
  <2>10. ASSUME NEW c \in Updates!Instance, WatchWaits(c) PROVE WatchWaits(c)'
    <3>1. \A n, t : ~Ahead(<<>>, n, t)
      <4>1. Len(<<>>) = 0
          OBVIOUS
      <4>2. QED
          BY <4>1 DEF Ahead
    <3>2. Ahead(pendingPre, 0, Updates!Watch(c)) \/ Ahead(pendingPost, 0, Updates!Watch(c))
        BY <1>2, <2>10, <3>1 DEF WatchWaits
    <3>3. FirstPost' = 0
      <4>1. ~OnLevel(stack', 4)
          BY <1>2, <2>4 DEF SameWork
      <4>2. QED
          BY <2>1, <4>1 DEF FirstPost
    <3>4. QED
        BY <1>1, <1>5, <2>5, <3>2, <3>3 DEF WatchWaits
  <2>11. WorkKept
      BY <1>1, <2>4, <2>10, SameWaits, SameWorkKept
  <2>12. QED
      BY <2>4, <2>6, <2>7, <2>8, <2>9, <2>11 DEF SchedulerInv
<1>9. QED
    BY <1>7, <1>8

LEMMA NextPostCbRunsKeeps ==
    ASSUME SchedulerInv, Updates!S!NextPostCbRuns, ~thrown'
    PROVE  SchedulerInv' /\ WorkKept
<1> DEFINE t == activePost[postIndex + 1]
<1>1. /\ stack # <<>> /\ Head(stack).fn = "flushPost" /\ Head(stack).at = "loop"
      /\ postIndex < Len(activePost) /\ Updates!S!RunsTask(t)
      /\ UNCHANGED <<queue, flushIndex, isFlushing, isFlushPending, pendingPre, activePre, preIndex,
                     parentJob, pendingPost, activePost, postIndex>>
    BY DEF Updates!S!NextPostCbRuns, Updates!S!Runs, Updates!S!queueVars, Updates!S!preVars, Updates!S!postVars
<1>2. activePost \in Seq(Updates!Watches \cup Updates!Hooks) /\ postIndex \in Nat /\ Len(activePost) \in Nat
    BY DEF SchedulerInv, SchedulerTypes
<1>3. t \in Own /\ t \notin Updates!Updates
  <2>1. t \in Updates!Watches \cup Updates!Hooks
      BY <1>1, <1>2
  <2>2. QED
      BY <2>1, TasksDiffer DEF Own
<1>4. activePre = <<>> /\ ~OnLevel(stack, 4)
    BY <1>1, OneLoop
<1> HIDE DEF t
<1>5. /\ Stacked' /\ (NoFlushing(stack) => NoFlushing(stack'))
      /\ \A fn, u : Loops(stack, fn, u) => Loops(stack', fn, u)
      /\ \A n \in {1, 4} : OnLevel(stack', n) <=> OnLevel(stack, n) \/ n = IF t \in Updates!Updates THEN 1 ELSE 4
      /\ \A c, ats : UpdateAt(stack', c, ats) <=>
            (t = Updates!Update(c) /\ "runs" \in ats) \/ UpdateAt(stack, c, ats)
      /\ \A u : Scheduled(stack', u) <=> Scheduled(stack, u)
      /\ \A c : RunsWatch(stack', c) <=> t = Updates!Watch(c) \/ RunsWatch(stack, c)
      /\ \A c : NoCallback(stack', c) <=> NoCallback(stack, c)
      /\ \A c : OneCallback(stack', c) <=> OneCallback(stack, c)
      /\ HasJob(stack') <=> HasJob(stack)
    BY <1>1, <1>3, RunsTaskIs DEF SchedulerInv
<1>6. OnLevel(stack', 4) /\ (OnLevel(stack', 1) <=> OnLevel(stack, 1))
    BY <1>3, <1>4, <1>5
<1>7. SchedulerTypes'
    BY <1>1 DEF SchedulerInv, SchedulerTypes
<1>8. Flags'
    BY <1>1, <1>5, FlagsKept DEF SchedulerInv, LeftOver
<1>9. Indexed'
    BY <1>1, <1>6 DEF Indexed, SchedulerInv
<1>10. Looping'
    BY <1>1, <1>5, LoopingKept DEF SchedulerInv
<1>11. ASSUME NEW c \in Updates!Instance, WatchComing(c) PROVE WatchComing(c)'
  <2>1. \A n, u : ~Ahead(<<>>, n, u)
    <3>1. Len(<<>>) = 0
        OBVIOUS
    <3>2. QED
        BY <3>1 DEF Ahead
  <2>2. CASE Ahead(activePost, FirstPost, Updates!Watch(c))
    <3>1. PICK k \in 1..Len(activePost) : k > postIndex /\ activePost[k] = Updates!Watch(c)
        BY <1>2, <1>4, <2>2 DEF FirstPost, Ahead
    <3>2. CASE k = postIndex + 1
      <4>1. t = Updates!Watch(c)
          BY <3>1, <3>2 DEF t
      <4>2. QED
          BY <1>5, <4>1 DEF WatchComing
    <3>3. CASE k # postIndex + 1
      <4>1. k > postIndex + 1 /\ FirstPost' = postIndex + 1
          BY <1>1, <1>2, <1>6, <3>1, <3>3 DEF FirstPost
      <4>2. WatchWaits(c)'
          BY <1>1, <3>1, <4>1 DEF WatchWaits, Ahead
      <4>3. QED
          BY <4>2 DEF WatchComing
    <3>4. QED
        BY <3>2, <3>3
  <2>3. CASE Scheduled(stack, Updates!Watch(c)) \/ RunsWatch(stack, c)
      BY <1>5, <2>3 DEF WatchComing
  <2>4. CASE Ahead(pendingPre, 0, Updates!Watch(c)) \/ Ahead(pendingPost, 0, Updates!Watch(c))
      BY <1>1, <2>4 DEF WatchComing, WatchWaits
  <2>5. QED
      BY <1>4, <1>11, <2>1, <2>2, <2>3, <2>4 DEF WatchComing, WatchWaits
<1>12. ASSUME NEW c \in Updates!Instance PROVE t # Updates!Update(c)
    BY <1>3, TasksDiffer
<1>13. \A c \in Updates!Instance : UpdateAt(stack', c, {"render"}) <=> UpdateAt(stack, c, {"render"})
    BY <1>5
<1>14. ASSUME NEW c \in Updates!Instance, Coming(c) PROVE Coming(c)'
  <2>1. UpdateWaits(c) => UpdateWaits(c)'
      BY <1>1, <1>6 DEF UpdateWaits, FirstUpdate
  <2>2. QED
      BY <1>5, <1>14, <2>1 DEF Coming
<1>15. WorkKept
    BY <1>5, <1>11, <1>13, <1>14 DEF WorkKept
<1>16. QED
    BY <1>5, <1>7, <1>8, <1>9, <1>10, <1>15 DEF SchedulerInv

LEMMA PostCbsEndKeeps ==
    ASSUME SchedulerInv, Updates!S!PostCbsEnd
    PROVE  SchedulerInv' /\ WorkKept
<1>1. /\ stack # <<>> /\ Head(stack).fn = "flushPost" /\ Head(stack).at = "loop"
      /\ postIndex = Len(activePost) /\ activePost' = <<>> /\ postIndex' = 0
      /\ Updates!S!Return
      /\ UNCHANGED <<queue, flushIndex, isFlushing, isFlushPending, pendingPre, activePre, preIndex,
                     parentJob, pendingPost>>
    BY DEF Updates!S!PostCbsEnd, Updates!S!Runs, Updates!S!queueVars, Updates!S!preVars
<1>2. /\ activePre = <<>> /\ ~OnLevel(stack, 4) /\ Head(stack).fn \in Flushes
    BY <1>1, OneLoop
<1>3. /\ Stacked' /\ SameWork(stack', stack) /\ (NoFlushing(stack) => NoFlushing(stack'))
      /\ \A fn, t : Loops(stack, fn, t) =>
            Loops(stack', fn, t) \/ (fn = Head(stack).fn /\ t = Head(stack).task)
    BY <1>1, <1>2, FlushReturns DEF SchedulerInv
<1>4. SchedulerTypes'
    BY <1>1 DEF SchedulerInv, SchedulerTypes
<1>5. Flags'
    BY <1>1, <1>3, FlagsKept DEF SchedulerInv, LeftOver
<1>6. Indexed'
    BY <1>1, <1>3, SameIndexed DEF SchedulerInv
<1>7. Looping'
    BY <1>1, <1>2, <1>3 DEF Looping, SchedulerInv
<1>8. ASSUME NEW c \in Updates!Instance, WatchWaits(c) PROVE WatchWaits(c)'
  <2>1. \A n, u : ~Ahead(<<>>, n, u)
    <3>1. Len(<<>>) = 0
        OBVIOUS
    <3>2. QED
        BY <3>1 DEF Ahead
  <2>2. Len(activePost) \in Nat /\ FirstPost = Len(activePost)
      BY <1>1, <1>2 DEF FirstPost, SchedulerInv, SchedulerTypes
  <2>3. ~Ahead(activePost, FirstPost, Updates!Watch(c))
      BY <2>2 DEF Ahead
  <2>4. QED
      BY <1>1, <1>2, <1>8, <2>1, <2>3 DEF WatchWaits
<1>9. WorkKept
    BY <1>1, <1>3, <1>8, SameWaits, SameWorkKept
<1>10. QED
    BY <1>3, <1>4, <1>5, <1>6, <1>7, <1>9 DEF SchedulerInv

\* A step of the scheduler keeps the work.
LEMMA SchedulerKeeps ==
    ASSUME SchedulerInv, Updates!SchedulerProceeds, ~thrown, ~thrown'
    PROVE  SchedulerInv' /\ WorkKept
<1>1. ~Updates!S!Unwinds
    BY DEF Updates!S!Unwinds
<1>2. QED
    BY <1>1, FlushBeginsKeeps, FlushRestartsKeeps, QueueIsSortedKeeps, NextJobRunsKeeps,
       QueueIsDoneKeeps, FlushEndsKeeps, OuterFlushEndsKeeps, PreCbsBeginKeeps,
       NextPreCbRunsKeeps, PreCbsEndKeeps, PostCbsBeginKeeps, NextPostCbRunsKeeps,
       PostCbsEndKeeps DEF Updates!SchedulerProceeds
=============================================================================
