---------------------------- MODULE VueTemplates ----------------------------
(***************************************************************************)
(* Templates of the Vue runtime that vue.html loads: what the compiler     *)
(* says of each node (patch flags, blocks, keys, hoisting), the virtual    *)
(* nodes a render makes of it, and the patch of the page that trusts what  *)
(* the compiler said and skips everything else.  An update renders the     *)
(* template with new data and patches; nothing interrupts it.              *)
(***************************************************************************)
EXTENDS Naturals, Sequences, FiniteSets, SequencesExt

CONSTANTS Templates,  \* the sequences of nodes at the root
          ItemLists       \* what a v-for runs over: sequences of distinct items

VARIABLES template,
          code,   \* compileCache: what it is compiled to, once
          data,   \* the values of the expressions, and the attributes from the parent
          vnode,  \* the component's subTree
          dom     \* what the page holds for it; a fragment's nodes are its children

vars == <<template, code, data, vnode, dom>>

-----------------------------------------------------------------------------
(* Templates.  Attributes: "id" and "class" are static, "boundId" and      *)
(* "boundClass" are :id="x" and :class="x", "name" is :[x]="...", "object" *)
(* is v-bind="{ ... }" with a key of that x, and "dir" is v-dir="x".       *)

Node(type, props, content, children, other) ==
    [type |-> type, props |-> props, content |-> content, children |-> children, other |-> other]

El(props, children) == Node("el", props, <<>>, children, <<>>)
Text(dynamic) == Node("text", {}, <<dynamic>>, <<>>, <<>>)   \* {{ x }}, or plain text
UserComment == Node("comment", {}, <<FALSE>>, <<>>, <<>>)
If(yes, no) == Node("if", {}, <<>>, yes, no)     \* v-if, and v-else unless no is empty
For(keyed, item) == Node("for", IF keyed THEN {"key"} ELSE {}, <<>>, item, <<>>)

RECURSIVE Has(_, _)
Has(type, nodes) ==
    \E n \in DOMAIN nodes : \/ nodes[n].type = type
                            \/ Has(type, nodes[n].children) \/ Has(type, nodes[n].other)

\* What a render sees: x and item are shown by texts and bindings.
Env(x, c, list, attrs, item) == [x |-> x, c |-> c, list |-> list, attrs |-> attrs, item |-> item]
Unset == Env("unset", FALSE, <<>>, {}, 0)
Named(x) == CASE x = "a" -> "data-a" [] x = "b" -> "data-b" [] OTHER -> "data-unset"
Bound(x) == CASE x = "a" -> "aria-a" [] x = "b" -> "aria-b" [] OTHER -> "aria-unset"

Class(props, env) == (IF "class" \in props THEN {"static"} ELSE {})
                         \cup (IF "boundClass" \in props THEN {env.x} ELSE {})
Evaluated(props, env) ==
    UNION {IF "id" \in props THEN {<<"id", "static">>} ELSE {},
           IF "boundId" \in props THEN {<<"id", env.x>>} ELSE {},
           IF "name" \in props THEN {<<Named(env.x), "set">>} ELSE {},
           IF "object" \in props THEN {<<Bound(env.x), "set">>} ELSE {},
           IF Class(props, env) # {} THEN {<<"class", Class(props, env)>>} ELSE {}}
Dirs(props, env) == IF "dir" \in props THEN {<<"dir", env.x>>} ELSE {}
Shows(content, env) ==
    [k \in DOMAIN content |-> IF content[k] THEN <<env.x, env.item>> ELSE <<"static", 0>>]

-----------------------------------------------------------------------------
(* The compiler.  A call is what it generates for a node.                  *)

VNodeCall(type, props, content, children, flag, names) ==
    [type |-> type, key |-> "none", props |-> props, content |-> content,
     children |-> children, flag |-> flag, names |-> names,
     block |-> FALSE, hoisted |-> FALSE]

\* A wrong variant: a directive alone asks for no patch.
ForgetsDirectives(props, flag) == {}

\* "hasRef || hasVnodeHook || runtimeDirectives.length > 0"
NeedPatch(props, flag) == IF flag = {} /\ "dir" \in props THEN {"NEED_PATCH"} ELSE {}

HasDynamicKeys(props) == props \cap {"name", "object"} # {}

BuildProps(props) ==
    LET names == IF "boundId" \in props THEN {"id"} ELSE {}
        flag == IF HasDynamicKeys(props) THEN {"FULL_PROPS"}
                ELSE (IF "boundClass" \in props THEN {"CLASS"} ELSE {})
                     \cup (IF names # {} THEN {"PROPS"} ELSE {})
    IN  [flag |-> flag \cup NeedPatch(props, flag), names |-> names]

IsText(n) == n.type = "text"

\* transformText: adjacent texts become one.
MergedTexts(nodes) ==
    FoldLeft(LAMBDA r, n : IF IsText(n) /\ r # <<>> /\ IsText(Last(r))
                           THEN Append(Front(r), [Last(r) EXCEPT !.content = @ \o n.content])
                           ELSE Append(r, n), <<>>, nodes)

IsDynamicText(n) == TRUE \in Range(n.content)
TextFlag(n) == IF IsDynamicText(n) THEN {"TEXT"} ELSE {}

AsBlock(call) == [call EXCEPT !.block = TRUE]

\* injectProp
WithKey(call, key) == IF call.key = "none" THEN [call EXCEPT !.key = key] ELSE call

StableFragment(calls, nodes) ==
    AsBlock(VNodeCall("fragment", {}, <<>>, calls,
        {"STABLE_FRAGMENT"} \cup
            (IF Len(SelectSeq(nodes, LAMBDA n : n.type # "comment")) = 1
             THEN {"DEV_ROOT_FRAGMENT"} ELSE {}), {}))

RECURSIVE Code(_)
Codes(nodes) == [k \in DOMAIN MergedTexts(nodes) |-> Code(MergedTexts(nodes)[k])]

\* createChildrenCodegenNode, and the child block of a v-for
Single(nodes) == Len(nodes) = 1 /\ nodes[1].type = "el"
BranchCode(nodes) ==
    IF Single(nodes) \/ (Len(nodes) = 1 /\ nodes[1].type = "for")
    THEN Codes(nodes)[1] ELSE StableFragment(Codes(nodes), nodes)
ItemCode(nodes) == IF Single(nodes) THEN Codes(nodes)[1]
                   ELSE [StableFragment(Codes(nodes), nodes) EXCEPT !.flag = {"STABLE_FRAGMENT"}]

Code(n) ==
    CASE n.type = "el" ->   \* transformElement
           LET built == BuildProps(n.props)
               kids == MergedTexts(n.children)
               text == Len(kids) = 1 /\ IsText(kids[1])
           IN  VNodeCall("el", n.props, IF text THEN kids[1].content ELSE <<>>,
                         IF text THEN <<>> ELSE Codes(n.children),
                         built.flag \cup (IF text THEN TextFlag(kids[1]) ELSE {}), built.names)
      [] n.type = "text" -> VNodeCall("text", {}, n.content, <<>>, TextFlag(n), {})
      [] n.type = "comment" -> VNodeCall("comment", {}, n.content, <<>>, {}, {})
      [] n.type = "if" ->   \* a missing v-else is a comment, created as a block
           VNodeCall("if", {}, <<>>,
               <<WithKey(AsBlock(BranchCode(n.children)), "yes"),
                 IF n.other = <<>> THEN AsBlock(VNodeCall("comment", {}, <<>>, <<>>, {}, {}))
                 ELSE WithKey(AsBlock(BranchCode(n.other)), "no")>>, {}, {})
      [] n.type = "for" ->  \* the items are always blocks, since no source is constant
           VNodeCall("for", n.props, <<>>, <<AsBlock(ItemCode(n.children))>>,
                     {IF "key" \in n.props THEN "KEYED_FRAGMENT" ELSE "UNKEYED_FRAGMENT"}, {})

\* getConstantType, without the kinds of constants; browsers take every expression
\* for one that varies.
PropsConstant(props) == props \subseteq {"id", "class"}

RECURSIVE IsConstant(_)
IsConstant(call) ==
    CASE call.type = "el" -> /\ call.flag = {} /\ PropsConstant(call.props)
                             /\ \A k \in DOMAIN call.children : IsConstant(call.children[k])
      [] call.type \in {"text", "comment"} -> TRUE \notin Range(call.content)
      [] OTHER -> FALSE

\* hoistStatic's walk: what is constant is created once.
RECURSIVE Hoist(_, _)
Hoist(call, doNotHoistNode) ==
    CASE call.type = "el" /\ ~doNotHoistNode /\ IsConstant(call) ->
           [call EXCEPT !.hoisted = TRUE, !.flag = {"HOISTED"}]
      [] call.type = "text" /\ IsConstant(call) -> [call EXCEPT !.hoisted = TRUE]
      [] call.type \in {"el", "fragment"} ->
           [call EXCEPT !.children = [k \in DOMAIN @ |-> Hoist(@[k], FALSE)]]
      [] call.type \in {"if", "for"} ->  \* their single children are blocks
           [call EXCEPT !.children = [k \in DOMAIN @ |-> Hoist(@[k], TRUE)]]
      [] OTHER -> call

\* createRootCodegen
RootCode(nodes) ==
    IF Len(nodes) = 1
    THEN LET call == Hoist(Code(nodes[1]), TRUE)
         IN  IF nodes[1].type = "el" THEN AsBlock(call) ELSE call
    ELSE Hoist(StableFragment(Codes(nodes), nodes), FALSE)

-----------------------------------------------------------------------------
(* Virtual nodes.  el says what a vnode knows of the page: its "own" node, *)
(* that of the vnode it was "hoisted" for, or none ("null").               *)

\* openBlock, createVNode and createBlock: a block collects the paths to the nodes in
\* it that may change, in the order of their creation, but not what is in its blocks.
RECURSIVE DynamicIn(_)
Tracked(v) ==
    IF v.hoisted THEN <<>>
    ELSE IF v.block THEN <<<<>>>>
    ELSE DynamicIn(v.children) \o (IF v.flag # {} THEN <<<<>>>> ELSE <<>>)
DynamicIn(children) ==
    FlattenSeq([k \in DOMAIN children |->
        LET paths == Tracked(children[k]) IN [m \in DOMAIN paths |-> <<k>> \o paths[m]]])

Created(call, key, env, children) ==
    [type |-> IF call.type = "for" THEN "fragment" ELSE call.type, key |-> key,
     props |-> Evaluated(call.props, env), dirs |-> Dirs(call.props, env),
     text |-> Shows(call.content, env), children |-> children,
     flag |-> call.flag, names |-> call.names,
     block |-> call.block \/ call.type = "for",
     dyn |-> IF call.block THEN DynamicIn(children) ELSE <<>>,  \* a v-for does not track
     hoisted |-> call.hoisted, el |-> IF call.hoisted THEN "hoisted" ELSE "null"]

RECURSIVE Render(_, _)
Render(call, env) ==
    CASE call.type = "if" -> Render(call.children[IF env.c THEN 1 ELSE 2], env)
      [] call.type = "for" ->   \* renderList
           Created(call, call.key, env,
               [k \in DOMAIN env.list |->
                   LET item == Render(call.children[1], [env EXCEPT !.item = env.list[k]])
                   IN  IF "key" \in call.props THEN [item EXCEPT !.key = env.list[k]] ELSE item])
      [] OTHER ->
           LET seen == IF call.hoisted THEN Unset ELSE env
           IN  Created(call, call.key, seen,
                       [k \in DOMAIN call.children |-> Render(call.children[k], seen)])

\* mergeProps: classes are joined, any other attribute takes the parent's value.
Merged(props, attrs) ==
    LET classes == UNION {p[2] : p \in {q \in props \cup attrs : q[1] = "class"}}
    IN  {p \in props : p[1] # "class" /\ \A a \in attrs : a[1] # p[1]}
            \cup {a \in attrs : a[1] # "class"}
            \cup (IF classes = {} THEN {} ELSE {<<"class", classes>>})

\* cloneVNode with extra props, which the compiler's flags know nothing of
Cloned(v, attrs) ==
    [v EXCEPT !.props = Merged(@, attrs), !.flag = (@ \ {"HOISTED"}) \cup {"FULL_PROPS"}]

\* getChildRoot: the only child that is no comment of the user's (that of a v-if counts)
Roots(v) == {k \in DOMAIN v.children : v.children[k].type # "comment" \/ v.children[k].text = <<>>}

\* renderComponentRoot: the attributes that are no props go to the root element.
WithAttrs(v, attrs) ==
    IF attrs = {} THEN v
    ELSE IF v.type = "el" THEN Cloned(v, attrs)
    ELSE IF "DEV_ROOT_FRAGMENT" \in v.flag /\ Cardinality(Roots(v)) = 1
    THEN LET k == CHOOSE r \in Roots(v) : TRUE
         IN  IF v.children[k].type # "el" THEN v
             ELSE [v EXCEPT !.children[k] = Cloned(@, attrs),
                            !.dyn = IF Contains(@, <<k>>) THEN @ ELSE Append(@, <<k>>)]
    ELSE v

SubTree(env) == WithAttrs(Render(code, env), env.attrs)

-----------------------------------------------------------------------------
(* The page.                                                               *)

Element(type, props, text, children) ==
    [type |-> type, props |-> props, text |-> text, children |-> children]

RECURSIVE Mounted(_)
Mounted(v) == Element(v.type, v.props \cup v.dirs, v.text,
                      [k \in DOMAIN v.children |-> Mounted(v.children[k])])

\* The vnodes that are mounted know their nodes; a hoisted one is cloned for it.
RECURSIVE Owning(_)
Owning(v) == [v EXCEPT !.el = "own", !.children = [k \in DOMAIN @ |-> Owning(@[k])]]

RECURSIVE At(_, _)
At(tree, path) == IF path = <<>> THEN tree ELSE At(tree.children[Head(path)], Tail(path))
RECURSIVE Put(_, _, _)
Put(tree, path, sub) ==
    IF path = <<>> THEN sub
    ELSE [tree EXCEPT !.children[Head(path)] = Put(@, Tail(path), sub)]

\* A patch gives the page's node and the vnode with what it has learnt.
Result(page, v) == [page |-> page, v |-> v]
Broken == Element("broken", {}, <<>>, <<>>)

IsSameVNodeType(n1, n2) == n1.type = n2.type /\ n1.key = n2.key

Only(props, names) == {p \in props : p[1] \in names}
Changed(props, n2, names) == (props \ Only(props, names)) \cup Only(n2.props, names)

\* "#1426 take the old vnode's patch flag into account"
Flags(n1, n2) == n2.flag \cup (n1.flag \cap {"FULL_PROPS"})

\* patchElement, the part of the attributes: those left alone keep their values.
PatchedProps(n1, n2, props, optimized) ==
    LET flag == Flags(n1, n2) \ {"HOISTED"}
        names == (IF "CLASS" \in flag THEN {"class"} ELSE {})
                     \cup (IF "PROPS" \in flag THEN n2.names ELSE {})
    IN  IF "FULL_PROPS" \in flag \/ (flag = {} /\ ~optimized /\ ~n2.block)
        THEN (props \ n1.props) \cup n2.props ELSE Changed(props, n2, names)

\* traverseStaticChildren(n1, n2, true)
InheritsEl(n1, n2) ==
    [n2 EXCEPT !.children = [k \in DOMAIN @ |->
        IF \/ @[k].type = "el" /\ ~@[k].block /\ @[k].flag \in {{}, {"HOISTED"}}
           \/ @[k].type = "comment" /\ @[k].el = "null"
        THEN [@[k] EXCEPT !.el = n1.children[k].el] ELSE @[k]]]

RECURSIVE Patch(_, _, _, _)

PatchBlockChildren(n1, n2, page) ==
    IF Len(n1.dyn) < Len(n2.dyn) THEN Result(Broken, n2)  \* it reads the type of undefined
    ELSE FoldLeftDomain(LAMBDA r, k :
             LET old == n1.dyn[k]
                 new == n2.dyn[k]
                 sub == Patch(At(n1, old), At(n2, new), At(r.page, old), TRUE)
             IN  Result(Put(r.page, old, sub.page), Put(r.v, new, sub.v)),
         Result(page, n2), n2.dyn)

\* patchKeyedChildren and patchUnkeyedChildren, by what they achieve (VueChildren).
PatchChildren(n1, n2, page, optimized) ==
    LET old(k) == IF "UNKEYED_FRAGMENT" \in n2.flag THEN {k} \cap DOMAIN n1.children
                  ELSE {m \in DOMAIN n1.children : IsSameVNodeType(n1.children[m], n2.children[k])}
        subs == [k \in DOMAIN n2.children |->
                    IF old(k) = {} THEN Result(Mounted(n2.children[k]), Owning(n2.children[k]))
                    ELSE LET m == CHOOSE m \in old(k) : TRUE
                         IN  Patch(n1.children[m], n2.children[k], page.children[m], optimized)]
    IN  Result([page EXCEPT !.children = [k \in DOMAIN subs |-> subs[k].page]],
               [n2 EXCEPT !.children = [k \in DOMAIN subs |-> subs[k].v]])

PatchElement(n1, n2, page, optimized) ==
    LET shown == [page EXCEPT
            !.props = (PatchedProps(n1, n2, @ \ n1.dirs, optimized)) \cup n2.dirs,
            !.text = IF "TEXT" \in n2.flag \/ ~(optimized \/ n2.block) THEN n2.text ELSE @]
    IN  IF n2.block THEN PatchBlockChildren(n1, n2, shown)
        ELSE IF ~optimized THEN PatchChildren(n1, n2, shown, FALSE)
        ELSE Result(shown, n2)

\* processFragment; a vnode that is the subTree may be moved with its component.
PatchFragment(n1, n2, page, isSubTree) ==
    IF "STABLE_FRAGMENT" \in n2.flag
    THEN LET r == PatchBlockChildren(n1, n2, page)
         IN  IF n2.key # "none" \/ isSubTree THEN Result(r.page, InheritsEl(n1, r.v)) ELSE r
    ELSE PatchChildren(n1, n2, page, TRUE)

Patch(n1, n2, page, optimized) ==
    LET r == CASE ~IsSameVNodeType(n1, n2) -> Result(Mounted(n2), Owning(n2))
               [] n2.type = "text"     -> Result([page EXCEPT !.text = n2.text], n2)
               [] n2.type = "comment"  -> Result(page, n2)
               [] n2.type = "el"       -> PatchElement(n1, n2, page, optimized)
               [] n2.type = "fragment" -> PatchFragment(n1, n2, page, ~optimized)
    IN  Result(r.page, [r.v EXCEPT !.el = "own"])

-----------------------------------------------------------------------------
\* Only a single root, comments aside, takes attributes, and no list does.
SingleRoot(nodes) ==
    LET roots == SelectSeq(nodes, LAMBDA n : n.type # "comment")
    IN  Len(roots) = 1 /\ roots[1].type # "for"

\* What varies is only what the template uses.
Data(nodes) ==
    {Env(x, c, list, attrs, "") : x \in {"a", "b"},
         c \in IF Has("if", nodes) THEN BOOLEAN ELSE {FALSE},
         list \in IF Has("for", nodes) THEN ItemLists ELSE {<<>>},
         attrs \in IF SingleRoot(nodes) THEN {{}, {<<"class", {"parents"}>>}} ELSE {{}}}

Init ==
    /\ template \in Templates
    /\ code = RootCode(template)
    /\ data \in {d \in Data(template) : d.x = "a"}
    /\ vnode = Owning(SubTree(data))
    /\ dom = Mounted(SubTree(data))

\* setupRenderEffect's update: new data, a new tree, and its patch.
Update ==
    /\ data' \in Data(template)
    /\ LET r == Patch(vnode, SubTree(data'), dom, FALSE)
       IN  dom' = r.page /\ vnode' = r.v
    /\ UNCHANGED <<template, code>>

Next == Update
Spec == Init /\ [][Next]_vars

-----------------------------------------------------------------------------
(* What a template means, without flags, blocks and hoisting.              *)

RECURSIVE Shown(_, _)
ShownAll(nodes, env) == FlattenSeq([k \in DOMAIN MergedTexts(nodes) |-> Shown(MergedTexts(nodes)[k], env)])
Shown(n, env) ==
    CASE n.type = "el" ->
           LET text == Len(MergedTexts(n.children)) = 1 /\ IsText(MergedTexts(n.children)[1])
           IN  <<Element("el", Evaluated(n.props, env) \cup Dirs(n.props, env),
                         IF text THEN Shows(MergedTexts(n.children)[1].content, env) ELSE <<>>,
                         IF text THEN <<>> ELSE ShownAll(n.children, env))>>
      [] n.type \in {"text", "comment"} -> <<Element(n.type, {}, Shows(n.content, env), <<>>)>>
      [] n.type = "if" -> IF env.c THEN ShownAll(n.children, env)
                          ELSE IF n.other = <<>> THEN <<Element("comment", {}, <<>>, <<>>)>>
                          ELSE ShownAll(n.other, env)
      [] n.type = "for" ->
           FlattenSeq([k \in DOMAIN env.list |->
                          ShownAll(n.children, [env EXCEPT !.item = env.list[k]])])

\* Fragments leave no trace but their anchors.
RECURSIVE Flat(_)
Flat(page) ==
    LET kids == FlattenSeq([k \in DOMAIN page.children |-> Flat(page.children[k])])
    IN  IF page.type = "fragment" THEN kids ELSE <<[page EXCEPT !.children = kids]>>

\* The parent's attributes are on the root when it is one element, comments aside.
IsRoot(node) == node.type # "comment" \/ node.text = <<>>
GivenAttrs(nodes, attrs) ==
    IF Cardinality({k \in DOMAIN nodes : IsRoot(nodes[k])}) # 1 THEN nodes
    ELSE [k \in DOMAIN nodes |-> IF nodes[k].type = "el"
                                 THEN [nodes[k] EXCEPT !.props = Merged(@, attrs)] ELSE nodes[k]]

\* However often and whatever the data changes, the page shows what the template
\* means with the data: the nodes the compiler lets the patch skip need none.
PageIsTemplate == Flat(dom) = GivenAttrs(ShownAll(template, data), data.attrs)

Exempt(v, exempt) == v.type \in exempt \/ v.flag \cap exempt # {}
RECURSIVE KnowsNodes(_, _)
KnowsNodes(v, exempt) ==
    Exempt(v, exempt) \/ /\ v.el = "own"
                         /\ v.type = "fragment" =>
                               \A k \in DOMAIN v.children : KnowsNodes(v.children[k], exempt)
RECURSIVE ItemsKnow(_, _)
ItemsKnow(v, exempt) ==
    /\ "KEYED_FRAGMENT" \in v.flag => \A k \in DOMAIN v.children : KnowsNodes(v.children[k], exempt)
    /\ \A k \in DOMAIN v.children : ItemsKnow(v.children[k], exempt)

\* "Make sure all root level vnodes inherit el": whatever may be moved, the items of a
\* keyed v-for and the component's own roots, knows its nodes; texts and the items of
\* lists without keys aside.
MovedElementsKnowTheirNodes ==
    LET exempt == {"text", "UNKEYED_FRAGMENT"}
    IN  KnowsNodes(vnode, exempt) /\ ItemsKnow(vnode, exempt)
=============================================================================
