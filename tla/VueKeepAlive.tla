---------------------------- MODULE VueKeepAlive ----------------------------
(***************************************************************************)
(* KeepAlive of the Vue runtime that vue.html loads: a child that is       *)
(* replaced is put aside with its state and comes back when it is shown    *)
(* again; the number of the children kept and the names of those that may  *)
(* be are limited.  A render changes the child and the names; the hooks    *)
(* that keep the cache run later, one by one, and the component may be     *)
(* rendered again, or go, before they have.                                *)
(***************************************************************************)
EXTENDS Naturals, Sequences, FiniteSets, Functions

CONSTANTS Child,      \* the children, by type and key: pairs
          NoChild,    \* nothing is shown
          Included,   \* the values of the include property: sets of types
          Limit,      \* the values of the max property; 0: none
          MaxRenders  \* how often it is rendered (a bound for TLC)

VARIABLES k,       \* what KeepAlive and the renderer know, see Init
          max,     \* the max property
          renders  \* how often it was rendered

vars == <<k, max, renders>>

TypeOf(child) == IF child = NoChild THEN "nothing" ELSE child[1]
Included1(t, child) == child # NoChild /\ TypeOf(child) \in t.include

\* The vnode in the tree: its child and instance (0 for nothing), and the flag
\* COMPONENT_SHOULD_KEEP_ALIVE.
VNode(child, inst, keep) == [child |-> child, inst |-> inst, keep |-> keep]

\* queuePostRenderEffect; a function is queued once.
Queue(t, effect) ==
    [t EXCEPT !.posts = IF effect \in Range(@) THEN @ ELSE Append(@, effect)]

Unmount(t, i) == [t EXCEPT !.life[i] = "gone"]

\* The entry of a Map.
Put(map, key, value) == [c \in DOMAIN map \cup {key} |-> IF c = key THEN value ELSE map[c]]

-----------------------------------------------------------------------------
\* pruneCacheEntry, of each of some keys.  What has the type of the current child is taken
\* for it.
\* A wrong variant, and a part of it: the entry is forgotten and its component left alive.
ForgetsEntries(t, cs) ==
    [t EXCEPT !.cache = Restrict(@, DOMAIN @ \ cs), !.keys = Restrict(@, DOMAIN @ \ cs)]
PruneCacheEntries(t, cs) ==
    LET same == {c \in cs : TypeOf(c) = TypeOf(t.current)}
        gone == {t.cache[c] : c \in cs \ same}
    IN  ForgetsEntries(
            [t EXCEPT !.life = [i \in DOMAIN @ |-> IF i \in gone THEN "gone" ELSE @[i]],
                      !.tree.keep = @ /\ same = {},
                      !.untidy = @ \/ \E c \in same : t.cache[c] # t.tree.inst], cs)

\* pruneCache, when include has changed.
PruneCache(t) == PruneCacheEntries(t, {c \in DOMAIN t.cache : ~Included1(t, c)})

\* The keys in the order of their last use, a new one, and the oldest one over the limit,
\* which without an entry in the cache is an error.
OverLimit(t) == max > 0 /\ Cardinality(DOMAIN t.keys) > max
Oldest(keys) == CHOOSE c \in DOMAIN keys : \A d \in DOMAIN keys : keys[c] <= keys[d]
FreshestKey(t, key) == [t EXCEPT !.keys = Put(@, key, renders)]
AddKey(t, key) ==
    LET added == IF key \in DOMAIN t.keys THEN t ELSE FreshestKey(t, key)
    IN  IF ~OverLimit(added) THEN added
        ELSE IF Oldest(added.keys) \notin DOMAIN t.cache THEN [added EXCEPT !.failed = TRUE]
        ELSE PruneCacheEntries(added, {Oldest(added.keys)})

-----------------------------------------------------------------------------
\* patch of the old vnode and the one that was rendered: the same child stays; another
\* one is put aside or unmounted, and the new one activated or mounted.
Leaves(t) ==
    LET i == t.tree.inst
    IN  IF i = 0 THEN t
        ELSE IF t.tree.keep THEN Queue([t EXCEPT !.life[i] = "hidden"], <<"deactivated", i>>)
        ELSE Unmount(t, i)
Enters(t, child, keep, kept) ==
    IF child = NoChild THEN [t EXCEPT !.tree = VNode(NoChild, 0, FALSE)]
    ELSE IF kept # 0
    THEN Queue([t EXCEPT !.tree = VNode(child, kept, keep), !.life[kept] = "shown",
                         !.revived = @ \/ t.life[kept] = "gone"], <<"activated", kept>>)
    ELSE [t EXCEPT !.tree = VNode(child, Len(t.life) + 1, keep),
                   !.life = Append(@, "shown"), !.off = Append(@, FALSE)]
Patch(t, child, keep, kept) ==
    IF child = t.tree.child THEN [t EXCEPT !.tree.keep = keep]
    ELSE Enters(Leaves(t), child, keep, kept)

\* The render function of KeepAlive and the patch of what it returns.
RenderChild(t, child) ==
    IF ~Included1(t, child)
    THEN Patch([t EXCEPT !.current = child, !.pendingKey = NoChild], child, FALSE, 0)
    ELSE LET cached == child \in DOMAIN t.cache
             keyed == IF cached THEN FreshestKey(t, child) ELSE AddKey(t, child)
         IN  Patch([keyed EXCEPT !.current = child, !.pendingKey = child], child, TRUE,
                   IF cached THEN t.cache[child] ELSE 0)

\* The parent renders KeepAlive, with a child and names; the watcher of the names is
\* queued before the hook that keeps the child.
Render(child, include) ==
    /\ renders < MaxRenders /\ ~k.unmounted
    /\ LET told == IF include = k.include THEN k
                   ELSE Queue([k EXCEPT !.include = include], <<"prune">>)
           asked == [told EXCEPT !.untidy = @ \/ k.posts # <<>>]
           rendered == RenderChild(asked, child)
       IN  k' = IF rendered.failed THEN [asked EXCEPT !.failed = TRUE]
                ELSE Queue(rendered, <<"cache">>)
    /\ renders' = renders + 1
    /\ UNCHANGED max

\* The queued functions: watcher, cacheSubtree, and the ends of activate and deactivate.
CacheSubtree(t) ==
    IF t.pendingKey = NoChild THEN t
    ELSE [t EXCEPT !.cache = Put(@, t.pendingKey, t.tree.inst)]
Runs(t, effect) ==
    CASE effect[1] = "prune" -> PruneCache(t)
      [] effect[1] = "cache" -> CacheSubtree(t)
      [] OTHER -> [t EXCEPT !.off[effect[2]] = effect[1] = "deactivated"]
Post ==
    /\ k.posts # <<>>
    /\ k' = Runs([k EXCEPT !.posts = Tail(@)], Head(k.posts))
    /\ UNCHANGED <<max, renders>>

\* onBeforeUnmount, and the unmount of the tree.  What has the type of the tree's child
\* is taken for it.
NoLongerKept(t) ==
    IF \E c \in DOMAIN t.cache : TypeOf(c) = TypeOf(t.tree.child)
    THEN [t EXCEPT !.tree.keep = FALSE] ELSE t
UnmountKeepAlive ==
    /\ ~k.unmounted
    /\ LET same == {c \in DOMAIN k.cache : TypeOf(c) = TypeOf(k.tree.child)}
           others == {k.cache[c] : c \in DOMAIN k.cache \ same}
           pruned == [NoLongerKept(k) EXCEPT
                          !.life = [i \in DOMAIN @ |-> IF i \in others THEN "gone" ELSE @[i]],
                          !.untidy = @ \/ k.posts # <<>> \/ {k.cache[c] : c \in same} \ {k.tree.inst} # {}]
       IN  k' = [Leaves(pruned) EXCEPT !.unmounted = TRUE, !.tree = VNode(NoChild, 0, FALSE)]
    /\ UNCHANGED <<max, renders>>

Init ==
    /\ max \in Limit
    /\ \E include \in Included :
           k = [tree |-> VNode(NoChild, 0, FALSE), cache |-> <<>>, keys |-> <<>>,
                current |-> NoChild, pendingKey |-> NoChild, include |-> include,
                life |-> <<>>, off |-> <<>>, posts |-> <<>>, unmounted |-> FALSE,
                untidy |-> FALSE, revived |-> FALSE, failed |-> FALSE]
    /\ renders = 0

Next ==
    \/ \E child \in Child \cup {NoChild}, include \in Included : Render(child, include)
    \/ Post
    \/ UnmountKeepAlive

Spec == Init /\ [][Next]_vars

-----------------------------------------------------------------------------
\* The hooks have run, they always had before the next render, and no instance was taken
\* for the current one of its type (see the README for what happens otherwise).
Tidy == ~k.untidy /\ k.posts = <<>>

\* "avoid vnode being unmounted": what is put aside is in the cache, to be found or pruned.
HiddenIsCached == Tidy /\ ~k.unmounted =>
    \A i \in DOMAIN k.life : k.life[i] = "hidden" => i \in Range(k.cache)

\* A child that comes back from the cache was not unmounted meanwhile.
NoneIsRevived == ~k.untidy => ~k.revived /\ ~k.failed

\* The cache keeps to max and include.
WithinLimits == Tidy /\ ~k.unmounted =>
    /\ max > 0 => Cardinality(DOMAIN k.cache) <= max
    /\ \A c \in DOMAIN k.cache : Included1(k, c)
    /\ DOMAIN k.keys = DOMAIN k.cache

\* isDeactivated, which silences the hooks of a branch, says what is on the page.
DeactivatedIsHidden == Tidy =>
    \A i \in DOMAIN k.life : k.life[i] # "gone" => (k.off[i] <=> k.life[i] = "hidden")

\* With KeepAlive go all that it kept.
NothingOutlives == Tidy /\ k.unmounted => \A i \in DOMAIN k.life : k.life[i] = "gone"
=============================================================================
