--------------------------- MODULE VueTransition ----------------------------
(***************************************************************************)
(* BaseTransition of the Vue runtime that vue.html loads: the child that   *)
(* is replaced stays on the page until the user's leave hook calls done,   *)
(* and the new one enters at once ("default"), after the old one has left  *)
(* ("out-in") or before it starts to leave ("in-out").  Renders come at    *)
(* any time between the hooks.  v-show, KeepAlive and Suspense inside a    *)
(* transition are left out.                                                *)
(***************************************************************************)
EXTENDS Naturals, Sequences, FiniteSets

CONSTANTS Child,      \* the children that may be shown
          NoChild,    \* nothing is shown (v-if: a comment)
          Mode,       \* the values of the mode property
          MaxRenders  \* how often it is rendered (a bound for TLC)

VARIABLES option,   \* mode, appear, and whether the user gave hooks
          wanted,   \* the child of the last render
          t,        \* the state of the transition and the elements, see Init
          renders   \* how often it was rendered

vars == <<option, wanted, t, renders>>

Options == [mode : Mode, appear : BOOLEAN, hooks : BOOLEAN]

\* An element: its child, whether it is on the page, how far its enter hook and its leave
\* are, the element whose leave waits for its enter (delayedLeave; 0: none), and whether
\* the transition is rendered when it has left (afterLeave).
Element(child) == [child |-> child, page |-> FALSE, enter |-> "none", leave |-> "no",
                   delayedLeave |-> 0, afterLeave |-> FALSE]
Silent(u) == ~u.isMounted /\ ~option.appear

-----------------------------------------------------------------------------
\* hostRemove
Remove(u, e) == [u EXCEPT !.els[e].page = FALSE]

\* delete leavingVNodesCache[key], of the element that it holds
Forget(u, e) ==
    IF u.leaving[u.els[e].child] = e THEN [u EXCEPT !.leaving[u.els[e].child] = 0] ELSE u

\* beforeEnter: an element of the same child that still leaves is removed at once.
RemovesEarly(u, child) ==
    LET old == u.leaving[child]
    IN  IF Silent(u) \/ old = 0 THEN u
        ELSE CASE u.els[old].leave = "running" ->
                      Forget(Remove([u EXCEPT !.els[old].leave = "done"], old), old)
               [] u.els[old].leave = "delayed" ->
                      LET by == {e \in DOMAIN u.els : u.els[e].delayedLeave = old}
                      IN  Remove([u EXCEPT !.els = [e \in DOMAIN @ |->
                              [@[e] EXCEPT !.delayedLeave = IF e \in by THEN 0 ELSE @,
                                           !.leave = IF e = old THEN "done" ELSE @]]], old)
               [] OTHER -> u

\* mountElement: the new element is inserted, and its enter hook queued.
MountElement(u, child) ==
    IF child = NoChild THEN [u EXCEPT !.tree = 0]
    ELSE LET e == Len(u.els) + 1
         IN  [RemovesEarly(u, child) EXCEPT
                  !.els = Append(@, [Element(child) EXCEPT !.page = TRUE, !.enter = "queued"]),
                  !.posts = Append(@, e), !.tree = e]

\* The end of a leave: the element goes, and with out-in the transition is rendered
\* again, unless it was unmounted.  Without hooks the end comes within the update that
\* starts the leave, and an update within itself does nothing.
\* A wrong variant: it is not rendered.
StaysEmpty(u, e) == Forget(Remove([u EXCEPT !.els[e].leave = "done"], e), e)
LeaveDone(u, e) ==
    LET left == Remove([u EXCEPT !.els[e].leave = "done"], e)
        updated == [left EXCEPT !.isLeaving = FALSE]
    IN  IF ~left.els[e].afterLeave THEN Forget(left, e)
        ELSE IF left.isUnmounting THEN Forget(updated, e)
        ELSE IF ~option.hooks THEN Forget([updated EXCEPT !.missed = TRUE], e)
        ELSE Forget(MountElement(updated, wanted), e)

StartLeave(u, e) ==
    IF u.isUnmounting THEN Remove([u EXCEPT !.els[e].leave = "done"], e)
    ELSE LET leaving == [u EXCEPT !.els[e].leave = "running", !.leaving[u.els[e].child] = e]
         IN  IF option.hooks THEN leaving ELSE LeaveDone(leaving, e)

\* The end of an enter, cancelled or not, starts the leave that waits for it.
EnterDone(u, e) ==
    LET entered == [u EXCEPT !.els[e].enter = "done"]
        waiting == u.els[e].delayedLeave
    IN  IF waiting = 0 THEN entered ELSE StartLeave(entered, waiting)

\* leave
Leave(u, e) ==
    StartLeave(IF u.els[e].enter = "running" THEN EnterDone(u, e) ELSE u, e)

\* delayLeave, with the element that enters, which is the next to be made.
DelayLeave(u, e) == [u EXCEPT !.els[e].leave = "delayed", !.leaving[u.els[e].child] = e]

-----------------------------------------------------------------------------
ShownChild(u) == IF u.tree = 0 THEN NoChild ELSE u.els[u.tree].child

\* The render function and the patch of what it returns, by mode.
RenderChild(u, child) ==
    IF u.isLeaving \/ child = ShownChild(u) THEN u
    ELSE IF u.tree = 0 THEN MountElement(u, child)
    ELSE IF option.mode = "out-in"
    THEN Leave([u EXCEPT !.isLeaving = TRUE, !.els[u.tree].afterLeave = TRUE, !.tree = 0], u.tree)
    ELSE IF option.mode = "in-out" /\ child # NoChild
    THEN LET mounted == MountElement(DelayLeave(u, u.tree), child)
         IN  [mounted EXCEPT !.els[mounted.tree].delayedLeave = u.tree]
    ELSE MountElement(Leave(u, u.tree), child)

Render(child) ==
    /\ renders < MaxRenders /\ ~t.isUnmounting
    /\ wanted' = child
    /\ t' = RenderChild([t EXCEPT !.missed = FALSE, !.early = @ \/ Silent(t)], child)
    /\ renders' = renders + 1
    /\ UNCHANGED option

\* A queued hook runs: enter of an element, or onMounted (0).
Enter(u, e) ==
    IF Silent(u) THEN [u EXCEPT !.els[e].enter = "done"]
    ELSE LET entering == [u EXCEPT !.els[e].enter = "running"]
         IN  IF option.hooks THEN entering ELSE EnterDone(entering, e)
Post ==
    /\ t.posts # <<>>
    /\ LET u == [t EXCEPT !.posts = Tail(@)]
       IN  t' = IF Head(t.posts) = 0 THEN [u EXCEPT !.isMounted = TRUE] ELSE Enter(u, Head(t.posts))
    /\ UNCHANGED <<option, wanted, renders>>

\* The user's hooks call done.
EnterEnds(e) == /\ t.els[e].enter = "running"
                /\ t' = EnterDone(t, e)
                /\ UNCHANGED <<option, wanted, renders>>
LeaveEnds(e) == /\ t.els[e].leave = "running"
                /\ t' = LeaveDone(t, e)
                /\ UNCHANGED <<option, wanted, renders>>

\* The transition goes, and its tree.
UnmountTransition ==
    /\ ~t.isUnmounting
    /\ LET u == [t EXCEPT !.isUnmounting = TRUE, !.tree = 0]
       IN  t' = IF t.tree = 0 THEN u ELSE Leave(u, t.tree)
    /\ UNCHANGED <<option, wanted, renders>>

Init ==
    /\ option \in Options
    /\ wanted \in Child \cup {NoChild}
    /\ LET empty == [isMounted |-> FALSE, isLeaving |-> FALSE, isUnmounting |-> FALSE, tree |-> 0,
                     els |-> <<>>, leaving |-> [c \in Child |-> 0], posts |-> <<>>,
                     missed |-> FALSE, early |-> FALSE]
           mounted == MountElement(empty, wanted)
       IN  t = [mounted EXCEPT !.posts = Append(@, 0)]
    /\ renders = 0

Next ==
    \/ \E child \in Child \cup {NoChild} : Render(child)
    \/ Post
    \/ \E e \in DOMAIN t.els : EnterEnds(e) \/ LeaveEnds(e)
    \/ UnmountTransition

\* The queue of the hooks is flushed, and the user's hooks call done.
Fairness ==
    /\ WF_vars(Post)
    /\ WF_vars(\E e \in DOMAIN t.els : EnterEnds(e) \/ LeaveEnds(e))
Spec == Init /\ [][Next]_vars /\ Fairness

-----------------------------------------------------------------------------
OnPage == {e \in DOMAIN t.els : t.els[e].page}
Quiet == /\ t.posts = <<>>
         /\ \A e \in DOMAIN t.els : t.els[e].enter # "running" /\ t.els[e].leave # "running"

\* When no hook is under way, the page shows the child that was rendered last, once, and
\* nothing after the transition has gone; unless an update was missed.
QuietPageIsWanted ==
    Quiet /\ ~t.missed =>
        /\ OnPage = IF t.tree = 0 THEN {} ELSE {t.tree}
        /\ ~t.isUnmounting => ShownChild(t) = wanted

\* "for toggled element with same key": the page never shows one child twice, unless it
\* was replaced before the transition was told that it is mounted.
NoChildTwice ==
    ~t.early => \A d, e \in OnPage : t.els[d].child = t.els[e].child => d = e

\* out-in: the next child comes when the one before has gone.
OneAtATime == option.mode = "out-in" => Cardinality(OnPage) <= 1

\* in-out: a child that another one replaces does not start to leave before that one has
\* entered, or was itself replaced.
LeavesAfterEnter ==
    [][\A e \in DOMAIN t.els :
           option.mode = "in-out" /\ ~t'.isUnmounting /\ t.els[e].leave # "running"
           /\ t'.els[e].leave = "running" /\ wanted' # NoChild =>
               \E d \in DOMAIN t.els : t.els[d].delayedLeave = e /\ t'.els[d].enter = "done"]_vars

\* What leaves goes.
LeavingGoes ==
    \A e \in 1..(MaxRenders + 1) :
        []<>(e \in DOMAIN t.els => t.els[e].leave \notin {"delayed", "running"} \/ ~t.els[e].page)
=============================================================================
