--------------------------- MODULE MCVueRendering ---------------------------
(***************************************************************************)
(* How the Vue renderer brings a new tree to the page, in parts side by    *)
(* side: the diff of a list of children, compiled templates, a Suspense    *)
(* boundary, and transitions.  The initial state picks the part that runs; *)
(* the others stand still.                                                 *)
(***************************************************************************)
EXTENDS VueChildren

CONSTANTS Items, Type, Kid, Timeout, SuspenseRenders, NoChild, Toggled, Mode, MaxRenders

VARIABLES template, code, data, vnode, page,
          boundary, branch, rendered,
          option, wanted, transition, transitionRenders,
          part

-----------------------------------------------------------------------------
(* The templates: elements with every sort of attribute and of child, v-if *)
(* and v-for around them, one within the other, beside siblings and at the *)
(* root.  No comment stands beside the root (see the README).              *)

Syntax == INSTANCE VueTemplates WITH dom <- page, Templates <- {}, ItemLists <- {}
E(props, children) == Syntax!El(props, children)
Static == Syntax!Text(FALSE)
Dynamic == Syntax!Text(TRUE)
NoElse == <<>>

PropSets == {{}, {"id"}, {"boundId"}, {"boundClass"}, {"name"}, {"object"}, {"dir"},
             {"class", "boundClass"}, {"id", "object"}, {"boundId", "dir"}, {"boundId", "name"}}
Leaves == {E(props, <<>>) : props \in PropSets}
              \cup {E({}, <<Static>>), E({}, <<Dynamic>>), E({}, <<Static, Dynamic>>),
                    E({"boundClass"}, <<Dynamic>>)}
Few == {E({}, <<>>), E({"boundId"}, <<>>)}
Some == Few \cup {E({"name"}, <<>>), E({"dir"}, <<>>), E({}, <<Dynamic>>),
                  E({}, <<E({"boundId"}, <<>>)>>), E({}, <<Dynamic, E({}, <<>>)>>)}
Ifs(ns) ==
    {Syntax!If(<<a>>, <<b>>) : a, b \in ns} \cup {Syntax!If(<<a>>, NoElse) : a \in ns}
        \cup {Syntax!If(<<a, b>>, NoElse) : a, b \in ns}
Fors(ns) ==
    {Syntax!For(keyed, <<a>>) : keyed \in BOOLEAN, a \in ns}
        \cup {Syntax!For(keyed, <<a, b>>) : keyed \in BOOLEAN, a, b \in ns}
Nested ==
    {Syntax!If(<<f>>, NoElse) : f \in {Syntax!For(TRUE, <<E({}, <<Dynamic>>)>>),
                                       Syntax!For(FALSE, <<E({"boundId"}, <<>>)>>)}}
        \cup {Syntax!For(keyed, <<f>>) :
                  keyed \in BOOLEAN,
                  f \in {Syntax!If(<<E({}, <<Dynamic>>)>>, NoElse),
                         Syntax!If(<<E({}, <<>>)>>, <<E({"boundId"}, <<>>)>>)}}
Kids == {Static, Dynamic} \cup Some \cup Ifs(Few) \cup Fors(Few) \cup Nested
MCTemplates ==
    {<<E(props, <<>>)>> : props \in PropSets}
        \cup {<<E({}, <<kid>>)>> : kid \in Kids \cup Leaves}
        \cup {<<E({"boundId"}, <<a, b>>)>> : a \in Kids, b \in Few}
        \cup {<<kid>> : kid \in Ifs(Some) \cup Fors(Some)}
        \cup {<<a, b>> : a \in Some, b \in Some \cup Ifs(Few) \cup Fors(Few)}
        \cup {<<E({}, <<Syntax!UserComment, a>>)>> : a \in Leaves}

MCLists == {<<>>, <<"i">>, <<"i", "j">>, <<"j", "i">>}

Template == INSTANCE VueTemplates WITH dom <- page, Templates <- MCTemplates, ItemLists <- Items
Suspense == INSTANCE VueSuspense WITH s <- boundary, content <- branch, MaxRenders <- SuspenseRenders
Transition == INSTANCE VueTransition WITH t <- transition, renders <- transitionRenders,
                                          Child <- Toggled

-----------------------------------------------------------------------------
templateVars == <<template, code, data, vnode, page>>
suspenseVars == <<boundary, branch, rendered>>
transitionVars == <<option, wanted, transition, transitionRenders>>
mcVars == <<vars, templateVars, suspenseVars, transitionVars, part>>

First(S) == CHOOSE x \in S : TRUE

MCInit ==
    /\ part \in {"children", "template", "suspense", "transition"}
    /\ part # "children" => path = "full" /\ oldShape = "none" /\ newShape = "none"
    /\ Init
    /\ part # "template" => template = <<E({}, <<>>)>>
                            /\ data = Template!Env("a", FALSE, <<>>, {}, "")
    /\ Template!Init
    /\ part # "suspense" =>
           boundary = Suspense!Mounted(CHOOSE c \in Suspense!Contents : c.type = First(Type),
                                       First(Timeout))
    /\ Suspense!Init
    /\ branch.type = First(Type)  \* types are only compared
    /\ part # "transition" => wanted = NoChild /\ option = CHOOSE o \in Transition!Options : TRUE
    /\ Transition!Init

Diff(step) ==
    /\ part = "children" /\ step
    /\ UNCHANGED <<templateVars, suspenseVars, transitionVars, part>>
Compiled(step) ==
    /\ part = "template" /\ step
    /\ UNCHANGED <<vars, suspenseVars, transitionVars, part>>
Suspend(step) ==
    /\ part = "suspense" /\ step
    /\ UNCHANGED <<vars, templateVars, transitionVars, part>>
Transit(step) ==
    /\ part = "transition" /\ step
    /\ UNCHANGED <<vars, templateVars, suspenseVars, part>>

MCNext ==
    \/ Diff(Next)
    \/ Compiled(Template!Next)
    \/ Suspend(Suspense!Next)
    \/ Transit(Transition!Next)

HookEnds == \E e \in DOMAIN transition.els : Transition!EnterEnds(e) \/ Transition!LeaveEnds(e)

\* The fairness of the parts.
MCSpec ==
    /\ MCInit /\ [][MCNext]_mcVars
    /\ WF_mcVars(Diff(Next))
    /\ WF_mcVars(Suspend(Suspense!Settle))
    /\ WF_mcVars(Transit(Transition!Post)) /\ WF_mcVars(Transit(HookEnds))

-----------------------------------------------------------------------------
\* patchChildren: the diff ends, the page then holds the new children in order, a child
\* with a key has kept its nodes, and no fewer moves would have done.
ChildrenArePatched ==
    /\ [](DomIsNewChildren /\ KeyedChildKeepsNodes /\ FewestMoves)
    /\ []<>(part = "children" => Done)

\* The compiler and patchElement: the page shows what the template means with the data, and
\* what may be moved knows its nodes.
TemplateIsShown == Template!PageIsTemplate /\ Template!MovedElementsKnowTheirNodes

\* createSuspenseBoundary: a branch is shown when all it waits for is ready, its components
\* learn that they are mounted when they are on the page, the count of those it waits for
\* is right, and the boundary resolves with what was rendered last; unless it began to wait
\* with components still counted, or rendered one that had been removed.
SuspenseResolves ==
    /\ [](Suspense!SettledIsCurrent /\ Suspense!DepsAreRight)
    /\ Suspense!ShownIsReady /\ Suspense!HooksOnPage
    /\ Suspense!Resolves

\* BaseTransition: a quiet page shows the child that was rendered last, and once; the
\* modes keep their order; what leaves goes.
TransitionsEnd ==
    /\ [](Transition!QuietPageIsWanted /\ Transition!NoChildTwice /\ Transition!OneAtATime)
    /\ Transition!LeavesAfterEnter
    /\ Transition!LeavingGoes
=============================================================================
