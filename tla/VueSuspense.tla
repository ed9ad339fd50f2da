----------------------------- MODULE VueSuspense ----------------------------
(***************************************************************************)
(* A Suspense boundary of the Vue runtime that vue.html loads: content     *)
(* with asynchronous components is mounted off the page, a fallback is     *)
(* shown meanwhile, and the boundary resolves when every component it      *)
(* waits for is ready.  Renders toggle and change the content, promises    *)
(* settle and the timeout passes at any time between.  Transitions,        *)
(* hydration and boundaries in boundaries are left out.                    *)
(***************************************************************************)
EXTENDS Naturals, Sequences, FiniteSets, FiniteSetsExt, SequencesExt

CONSTANTS Type,       \* the types of the content's root
          Kid,        \* the asynchronous components that it may hold
          Timeout,    \* the values of the timeout property: "none", "zero" or "some"
          MaxRenders  \* how often the parent renders (a bound for TLC)

\* A branch is the content, or the fallback, with the components in it: kids maps those
\* that it holds to their instances.
Branch(type, kids) == [type |-> type, kids |-> kids]
NoBranch == Branch("none", <<>>)
Fallback == Branch("fallback", <<>>)
NoKids == [k \in {} |-> 0]
Ids(branch) == {branch.kids[k] : k \in DOMAIN branch.kids}

VARIABLES s,         \* the boundary and what it holds, see Mounted
          content,   \* the type and the kids of the last render
          rendered   \* how many renders there were

vars == <<s, content, rendered>>

\* An asynchronous component: created under suspenseId, counted when the boundary was
\* pending, asyncResolved when its promise has settled and it was rendered, removed when a
\* patch of its branch took it out.
Instance(id) == [suspenseId |-> id, counted |-> FALSE, asyncResolved |-> FALSE,
                 removed |-> FALSE, isUnmounted |-> FALSE]

-----------------------------------------------------------------------------
\* queueEffectWithSuspense: hooks wait for a pending boundary.  The effects are an
\* instance's hook for its mount, and the end of a removed one.
Ran(t, effects) ==
    [t EXCEPT !.hooks = @ \cup {e[2] : e \in {x \in Range(effects) : x[1] = "mounted"}},
              !.instances = [i \in DOMAIN @ |->
                  IF <<"gone", i>> \in Range(effects) THEN [@[i] EXCEPT !.isUnmounted = TRUE] ELSE @[i]]]
QueueEffect(t, effect) ==
    IF t.pendingBranch # NoBranch THEN [t EXCEPT !.effects = Append(@, effect)]
    ELSE Ran(t, <<effect>>)

\* The error that the code raises; what it interrupts is not done.
Throws(t) == [t EXCEPT !.thrown = TRUE]

RECURSIVE Resolve(_, _)

\* A component that was counted is ready, or gone: the last one resolves the boundary.
CountsDown(t) ==
    LET less == [t EXCEPT !.deps = @ - 1]
    IN  IF less.deps = 0 THEN Resolve(less, FALSE) ELSE less

\* unmountComponent, for an asynchronous component.
IsCounted(t, i) ==
    /\ t.pendingBranch # NoBranch /\ ~t.isUnmounted
    /\ ~t.instances[i].asyncResolved /\ t.instances[i].suspenseId = t.pendingId
UnmountKid(t, i) ==
    LET gone == QueueEffect(t, <<"gone", i>>)
    IN  IF IsCounted(t, i) THEN CountsDown(gone) ELSE gone
Unmount(t, branch) == FoldLeft(UnmountKid, t, SetToSeq(Ids(branch)))

\* unmount without a boundary: the instances are gone at once and nothing is counted.
UnmountNow(t, branch) ==
    Ran(t, [n \in DOMAIN t.instances |-> <<IF n \in Ids(branch) THEN "gone" ELSE "stays", n>>])

\* resolve
Resolve(t, resume) ==
    IF (~resume /\ t.pendingBranch = NoBranch) \/ t.isUnmounted THEN Throws(t)
    ELSE LET left == IF resume THEN t ELSE Unmount(t, t.activeBranch)
             settled == [left EXCEPT !.activeBranch = left.pendingBranch, !.pendingBranch = NoBranch,
                                     !.isInFallback = FALSE, !.effects = <<>>,
                                     !.page = left.pendingBranch]
         IN  Ran(settled, left.effects)

ResolveIfReady(t) == IF t.deps <= 0 THEN Resolve(t, FALSE) ELSE t

\* fallback, which asks whether a branch is still pending.
FallsBack(t) ==
    [UnmountNow(t, t.activeBranch) EXCEPT !.isInFallback = TRUE, !.activeBranch = Fallback,
                                          !.page = Fallback]
ShowFallback(t) ==
    IF t.pendingBranch = NoBranch THEN t
    ELSE FallsBack(t)

\* mountComponent and registerDep: the kids ks become part of the branch of a field.
MountKids(t, field, ks) ==
    LET first == Len(t.instances)
        order == SetToSeq(ks)
        counted == t.pendingBranch # NoBranch
    IN  [t EXCEPT !.instances = @ \o [n \in DOMAIN order |->
                                         [Instance(t.pendingId) EXCEPT !.counted = counted]],
                  !.deps = IF counted THEN @ + Len(order) ELSE @,
                  ![field].kids = [k \in DOMAIN @ \cup ks |->
                      IF k \in ks THEN first + (CHOOSE n \in DOMAIN order : order[n] = k) ELSE @[k]]]

\* patch of a branch that stays: kids go and come.  The vnode that is patched may become
\* the active branch meanwhile.
PatchKids(t, field, ks) ==
    LET was == t[field].kids
        kept == [t EXCEPT ![field].kids = [k \in DOMAIN was \cap ks |-> was[k]]]
        gone == {was[k] : k \in DOMAIN was \ ks}
        less == FoldLeft(UnmountKid, [kept EXCEPT !.instances = [i \in DOMAIN @ |->
                                         [@[i] EXCEPT !.removed = @ \/ i \in gone]]], SetToSeq(gone))
    IN  IF ks \ DOMAIN was = {} THEN less ELSE MountKids(less, field, ks \ DOMAIN was)

\* A branch is mounted in the hidden container.
MountPending(t, c) ==
    MountKids([t EXCEPT !.pendingBranch = Branch(c.type, NoKids)], "pendingBranch", c.kids)

-----------------------------------------------------------------------------
\* patchSuspense, while a branch is pending.
PatchPendingSame(t, c) == ResolveIfReady(PatchKids(t, "pendingBranch", c.kids))

\* "reset suspense state".  A wrong variant: the components of the branch that is thrown
\* away stay counted.
KeepsDeps(t) == [t EXCEPT !.effects = <<>>]
Reset(t) == [t EXCEPT !.deps = 0, !.effects = <<>>, !.overcounted = FALSE]
NextPendingId(t) == [t EXCEPT !.pendingId = @ + 1]

PatchPendingOther(t, c) ==
    LET cleared == Reset(Unmount([NextPendingId(t) EXCEPT !.pendingBranch.type = c.type],
                                 t.pendingBranch))
    IN  IF t.activeBranch.type = c.type
        THEN LET t1 == [cleared EXCEPT !.pendingBranch = cleared.activeBranch]
                 t2 == PatchKids(t1, "pendingBranch", c.kids)  \* activeBranch to newBranch
             IN  Resolve(t2, TRUE)
        ELSE ResolveIfReady(MountPending(cleared, c))

\* deps is not reset here: what "toggled back" left in it is counted on, though the
\* answers that would take it off are outdated by the new pendingId.
PatchSettledOther(t, c) ==
    LET t1 == MountPending([NextPendingId(t) EXCEPT !.overcounted = t.deps > 0], c)
    IN  IF t1.deps <= 0 THEN Resolve(t1, FALSE)
        ELSE IF t.timeout = "zero" THEN ShowFallback(t1)
        ELSE IF t.timeout = "some" THEN [t1 EXCEPT !.timers = @ \cup {t1.pendingId}] ELSE t1

PatchSuspense(t, c) ==
    IF t.pendingBranch # NoBranch
    THEN IF t.pendingBranch.type = c.type THEN PatchPendingSame(t, c) ELSE PatchPendingOther(t, c)
    ELSE IF t.activeBranch.type = c.type
    THEN LET t1 == PatchKids(t, "activeBranch", c.kids) IN [t1 EXCEPT !.page = t1.activeBranch]
    ELSE PatchSettledOther(t, c)

Contents == [type : Type, kids : SUBSET Kid]

Render(c) ==
    /\ rendered < MaxRenders /\ ~s.isUnmounted
    /\ c.type = content.type => c.kids \subseteq content.kids \/ content.kids \subseteq c.kids
    /\ s' = PatchSuspense(s, c)
    /\ content' = c
    /\ rendered' = rendered + 1

\* The timer of patchSuspense; one that was set for an earlier branch finds another
\* pendingId and does nothing.
TimerFires(id) ==
    /\ id \in s.timers /\ s.pendingId = id
    /\ s' = ShowFallback([s EXCEPT !.timers = @ \ {id}])
    /\ UNCHANGED <<content, rendered>>

Outdated(i) == \/ s.instances[i].isUnmounted \/ s.isUnmounted
               \/ s.pendingId # s.instances[i].suspenseId

\* registerDep's callback: the promise of setup() settles; a rejected one is reported
\* and counts as well.  An outdated answer is given up, and stays outdated.  A component
\* that was removed, and whose end still waits among the effects, is not seen to be
\* unmounted: it is rendered at its placeholder, which stays.
Settles(i) ==
    /\ ~s.instances[i].asyncResolved /\ ~Outdated(i)
    /\ \E ready \in {QueueEffect([s EXCEPT !.instances[i].asyncResolved = TRUE,
                                          !.misled = @ \/ s.instances[i].removed],
                                <<"mounted", i>>)} :
           s' = IF s.instances[i].counted THEN CountsDown(ready) ELSE ready
    /\ UNCHANGED <<content, rendered>>

\* The boundary's own component goes.
UnmountBoundary ==
    /\ ~s.isUnmounted
    /\ s' = UnmountNow(UnmountNow([s EXCEPT !.isUnmounted = TRUE, !.page = NoBranch],
                                  s.activeBranch), s.pendingBranch)
    /\ UNCHANGED <<content, rendered>>

\* mountSuspense
Mounted(c, timeout) ==
    LET t == MountPending([activeBranch |-> NoBranch, pendingBranch |-> NoBranch, deps |-> 0,
                           pendingId |-> 0, isInFallback |-> TRUE, isUnmounted |-> FALSE,
                           effects |-> <<>>, hooks |-> {}, timers |-> {}, timeout |-> timeout,
                           instances |-> <<>>, page |-> NoBranch, thrown |-> FALSE,
                           misled |-> FALSE, overcounted |-> FALSE], c)
    IN  IF t.deps > 0 THEN [t EXCEPT !.activeBranch = Fallback, !.page = Fallback]
        ELSE Resolve(t, FALSE)

Init ==
    /\ content \in Contents
    /\ \E timeout \in Timeout : s = Mounted(content, timeout)
    /\ rendered = 0

Settle == \E i \in DOMAIN s.instances : Settles(i)
Next ==
    \/ \E c \in Contents : Render(c)
    \/ \E id \in s.timers : TimerFires(id)
    \/ Settle
    \/ UnmountBoundary

\* The promises settle.
Spec == Init /\ [][Next]_vars /\ WF_vars(Settle)

-----------------------------------------------------------------------------
Waits == s.pendingBranch # NoBranch
Waiting(branch) == {i \in Ids(branch) : ~s.instances[i].asyncResolved}

\* When nothing is pending, the page shows what was rendered last.
SettledIsCurrent ==
    ~Waits /\ ~s.isUnmounted => s.page.type = content.type /\ DOMAIN s.page.kids = content.kids

\* A pending branch is shown when all it was waiting for is ready, as long as no component
\* was rendered that had been removed.
ShownIsReady ==
    [][s'.page # s.page /\ ~s'.misled /\ s'.page.type = s.pendingBranch.type =>
          \A i \in Ids(s'.page) : s'.instances[i].counted => s'.instances[i].asyncResolved]_vars

\* deps is the number of the components that it waits for, under the same condition and
\* unless it began to wait with components still counted, after a toggle back to the branch
\* on the page that had such components.
DepsAreRight ==
    Waits /\ ~s.isUnmounted /\ ~s.misled /\ ~s.overcounted =>
        s.deps = Cardinality(Waiting(s.pendingBranch))

\* A component is told that it is mounted once it is on the page, or when it was removed
\* from the branch that resolved.
HooksOnPage ==
    [][\A i \in (s'.hooks \ s.hooks) :
          \/ i \in Ids(s'.page)
          \/ s'.instances[i].removed /\ s'.instances[i].suspenseId = s'.pendingId]_vars

\* The boundary resolves, however it is toggled, under the second condition only: one that
\* began to wait with components still counted waits for answers that nobody counts.
Resolves == []<>(~Waits \/ s.isUnmounted \/ s.overcounted)
=============================================================================
