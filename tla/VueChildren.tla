----------------------------- MODULE VueChildren ----------------------------
(***************************************************************************)
(* How the Vue renderer turns one list of children into another: the       *)
(* dispatch of patchChildren, the diff of unkeyed and of keyed lists with  *)
(* its longest stable subsequence, and the patch, mount, move and removal  *)
(* of a child in the DOM.  A child is an element, which is one node, or a  *)
(* fragment, which is a run of nodes between two anchors.  A step is one   *)
(* pass of a loop; indexes count from 1.                                   *)
(***************************************************************************)
EXTENDS Naturals, Sequences, FiniteSets, FiniteSetsExt, SequencesExt

CONSTANTS VNodeType,  \* the types of children, "fragment" or the tag of an element
          MaxKeyed,   \* the length of lists in which every child has a key
          MaxMixed,   \* the length of other lists
          MaxFragments  \* how many children of a list are fragments

NoKey == 0
\* What a child shows differs between the lists.
VNode(text) == [key : NoKey..MaxKeyed + 1, type : VNodeType, text : {text}]

VARIABLES path,      \* "keyed" or "unkeyed" for a v-for, "full" for an element's children
          oldShape, newShape,  \* "array", "text" or "none"
          c1, c2,    \* the children before and after
          el1, el2,  \* el1[i], el2[i]: which nodes are those of a child; 0 when it has none
          dom,       \* the nodes of the container, in order
          fresh,     \* the number of the next node
          phase, i, e1, e2,
          newIndexToOldIndex, patched, moved, maxNewIndexSoFar, j,
          stable, p, \* getSequence's result, and its table of predecessors
          moves      \* how often a child was moved

inputs == <<path, oldShape, newShape, c1, c2, el1>>
diff == <<newIndexToOldIndex, patched, moved, maxNewIndexSoFar, j, stable, p, moves>>
vars == <<inputs, el2, dom, fresh, phase, i, e1, e2, diff>>

-----------------------------------------------------------------------------
(* The nodes.                                                              *)

Node(id, part, text) == [id |-> id, part |-> part, text |-> text]
Nodes(v, id) ==
    IF v.type = "fragment"
    THEN <<Node(id, "start", ""), Node(id, "item", v.text), Node(id, "end", "")>>
    ELSE <<Node(id, "el", v.text)>>
Sibling == Node(0, "sibling", "")
TextNode == Node(0, "text", "")

\* What the container holds besides the children: those of a v-for have siblings.
Before == IF path = "full" THEN <<>> ELSE <<Sibling>>
After == Before
ParentAnchor == Len(dom) + 1 - Len(After)

\* Where the nodes of a child begin; hostInsert before it.
Start(id) == CHOOSE n \in DOMAIN dom : dom[n].id = id /\ dom[n].part \in {"el", "start"}
InsertedAt(s, n, nodes) == SubSeq(s, 1, n - 1) \o nodes \o SubSeq(s, n, Len(s))
\* A wrong variant: the anchors of a fragment stay when it is removed.
OfOtherOrAnchors(ids) ==
    SelectSeq(dom, LAMBDA n : n.id \notin ids \/ n.id = 0 \/ n.part \in {"start", "end"})

OfOther(ids) == SelectSeq(dom, LAMBDA n : n.id \notin ids \/ n.id = 0)

\* The place before new child k, or the parent's anchor when it is the last one.
AnchorAt(k) == IF k <= Len(c2) THEN Start(el2[k]) ELSE ParentAnchor

IsSameVNodeType(n1, n2) == n1.type = n2.type /\ n1.key = n2.key

-----------------------------------------------------------------------------
(* patch, unmount and move of one child.                                   *)

\* Old child k and new child n are of the same type and key: the nodes stay.
Patch(k, n) ==
    /\ el2' = [el2 EXCEPT ![n] = el1[k]]
    /\ dom' = [x \in DOMAIN dom |->
                  IF dom[x].id = el1[k] /\ dom[x].part \in {"el", "item"}
                  THEN [dom[x] EXCEPT !.text = c2[n].text] ELSE dom[x]]
    /\ UNCHANGED fresh

Mount(n, at) ==
    /\ dom' = InsertedAt(dom, at, Nodes(c2[n], fresh))
    /\ el2' = [el2 EXCEPT ![n] = fresh]
    /\ fresh' = fresh + 1

\* "patching & not same type, unmount old tree": the new nodes take its place.
Replace(k, n) ==
    LET at == Start(el1[k])
    IN  /\ dom' = InsertedAt(OfOther({el1[k]}), at, Nodes(c2[n], fresh))
        /\ el2' = [el2 EXCEPT ![n] = fresh]
        /\ fresh' = fresh + 1

Unmount(ks) == dom' = OfOther({el1[k] : k \in ks}) /\ UNCHANGED <<el2, fresh>>

\* hostInsert of nodes that are in the container takes them out first.
Move(n, at) ==
    LET id == el2[n]
        before == SelectSeq(SubSeq(dom, 1, at - 1), LAMBDA x : x.id # id)
    IN  /\ dom' = before \o Nodes(c2[n], id)
                         \o SelectSeq(SubSeq(dom, at, Len(dom)), LAMBDA x : x.id # id)
        /\ UNCHANGED <<el2, fresh>>

-----------------------------------------------------------------------------
(* patchChildren.                                                          *)

Initially(at, k, x1, x2) ==
    /\ phase' = at /\ i' = k /\ e1' = x1 /\ e2' = x2

Begins ==
    /\ phase = "begin"
    /\ \/ /\ oldShape = "array" /\ newShape = "array"
          /\ Initially(IF path = "unkeyed" THEN "common" ELSE "syncStart", 1, Len(c1), Len(c2))
          /\ UNCHANGED <<el2, dom, fresh>>
       \/ /\ newShape = "text"
          /\ dom' = <<TextNode>>
          /\ Initially("done", i, e1, e2) /\ UNCHANGED <<el2, fresh>>
       \/ /\ oldShape = "array" /\ newShape = "none"
          /\ Unmount(DOMAIN c1)
          /\ Initially("done", i, e1, e2)
       \/ /\ oldShape # "array" /\ newShape # "text"
          /\ dom' = IF oldShape = "text" THEN <<>> ELSE dom
          /\ Initially("mount", 1, 0, Len(c2)) /\ UNCHANGED <<el2, fresh>>
    /\ UNCHANGED <<inputs, diff>>

\* patchUnkeyedChildren: the common part child by child, then the rest.
PatchesCommon ==
    /\ phase = "common"
    /\ IF i <= Len(c1) /\ i <= Len(c2)
       THEN /\ IF IsSameVNodeType(c1[i], c2[i]) THEN Patch(i, i) ELSE Replace(i, i)
            /\ i' = i + 1 /\ UNCHANGED <<phase, e1, e2>>
       ELSE /\ phase' = IF Len(c1) > Len(c2) THEN "unmount" ELSE "mount"
            /\ UNCHANGED <<el2, dom, fresh, i, e1, e2>>
    /\ UNCHANGED <<inputs, diff>>

-----------------------------------------------------------------------------
(* patchKeyedChildren.                                                     *)

SyncsFromStart ==
    /\ phase = "syncStart"
    /\ IF i <= e1 /\ i <= e2 /\ IsSameVNodeType(c1[i], c2[i])
       THEN Patch(i, i) /\ i' = i + 1 /\ UNCHANGED phase
       ELSE phase' = "syncEnd" /\ UNCHANGED <<el2, dom, fresh, i>>
    /\ UNCHANGED <<inputs, diff, e1, e2>>

SyncsFromEnd ==
    /\ phase = "syncEnd"
    /\ IF i <= e1 /\ i <= e2 /\ IsSameVNodeType(c1[e1], c2[e2])
       THEN Patch(e1, e2) /\ e1' = e1 - 1 /\ e2' = e2 - 1 /\ UNCHANGED <<phase, i, diff>>
       ELSE /\ phase' = IF i > e1 THEN "mount" ELSE IF i > e2 THEN "unmount" ELSE "unknown"
            /\ newIndexToOldIndex' = [n \in i..e2 |-> 0]
            /\ j' = i
            /\ UNCHANGED <<el2, dom, fresh, i, e1, e2, patched, moved, maxNewIndexSoFar, stable, p, moves>>
    /\ UNCHANGED inputs

\* 3., and mountChildren: what is left of the new children.
MountsRest ==
    /\ phase = "mount"
    /\ IF i <= e2 THEN Mount(i, AnchorAt(e2 + 1)) /\ i' = i + 1 /\ UNCHANGED phase
       ELSE phase' = "done" /\ UNCHANGED <<el2, dom, fresh, i>>
    /\ UNCHANGED <<inputs, diff, e1, e2>>

\* 4., and unmountChildren: what is left of the old ones.
UnmountsRest ==
    /\ phase = "unmount"
    /\ IF i <= e1 THEN Unmount({i}) /\ i' = i + 1 /\ UNCHANGED phase
       ELSE phase' = "done" /\ UNCHANGED <<el2, dom, fresh, i>>
    /\ UNCHANGED <<inputs, diff, e1, e2>>

\* 5.1: keyToNewIndexMap, and the search for a child of the same type without a key
\* that no old child has taken; 0 for none.
NewIndex(v) ==
    LET found == IF v.key # NoKey THEN {n \in i..e2 : c2[n].key = v.key}
                 ELSE {n \in i..e2 : newIndexToOldIndex[n] = 0 /\ IsSameVNodeType(v, c2[n])}
    IN  IF found = {} THEN 0 ELSE Min(found)

HasMoved(n) == n < maxNewIndexSoFar

\* 5.2: old child j is patched where the new one is, or unmounted.
PatchesOld ==
    /\ phase = "unknown" /\ j <= e1
    /\ LET n == NewIndex(c1[j])
       IN  IF patched >= e2 - i + 1 \/ n = 0
           THEN Unmount({j}) /\ UNCHANGED <<newIndexToOldIndex, patched, moved, maxNewIndexSoFar>>
           ELSE /\ newIndexToOldIndex' = [newIndexToOldIndex EXCEPT ![n] = j]
                /\ moved' = (moved \/ HasMoved(n))
                /\ maxNewIndexSoFar' = IF HasMoved(n) THEN maxNewIndexSoFar ELSE n
                /\ patched' = patched + 1
                /\ IF IsSameVNodeType(c1[j], c2[n]) THEN Patch(j, n) ELSE Replace(j, n)
    /\ j' = j + 1
    /\ UNCHANGED <<inputs, phase, i, e1, e2, stable, p, moves>>

EndOfOld ==
    /\ phase = "unknown" /\ j > e1
    /\ IF moved THEN phase' = "sequence" /\ j' = i /\ stable' = <<i>> /\ p' = newIndexToOldIndex
       ELSE phase' = "place" /\ j' = e2 /\ UNCHANGED <<stable, p>>
    /\ UNCHANGED <<inputs, el2, dom, fresh, i, e1, e2, newIndexToOldIndex, patched, moved,
                   maxNewIndexSoFar, moves>>

\* getSequence: stable holds the last indexes of the increasing subsequences of each
\* length, and p[x] what comes before x in one.
BinarySearch(v) ==
    LET Search[a \in Nat, b \in Nat] ==
            LET c == (a + b) \div 2
            IN  IF a >= b THEN a
                ELSE IF newIndexToOldIndex[stable[c]] < v THEN Search[c + 1, b] ELSE Search[a, c]
    IN  Search[1, Len(stable)]

ExtendsSequence ==
    /\ phase = "sequence" /\ j <= e2
    /\ LET v == newIndexToOldIndex[j]
           u == BinarySearch(v)
       IN  IF v = 0 THEN UNCHANGED <<stable, p>>
           ELSE IF newIndexToOldIndex[Last(stable)] < v
           THEN stable' = Append(stable, j) /\ p' = [p EXCEPT ![j] = Last(stable)]
           ELSE IF v < newIndexToOldIndex[stable[u]]
           THEN /\ stable' = [stable EXCEPT ![u] = j]
                /\ p' = IF u > 1 THEN [p EXCEPT ![j] = stable[u - 1]] ELSE p
           ELSE UNCHANGED <<stable, p>>
    /\ j' = j + 1
    /\ UNCHANGED <<inputs, el2, dom, fresh, phase, i, e1, e2, newIndexToOldIndex, patched, moved,
                   maxNewIndexSoFar, moves>>

\* The last loop of getSequence walks back along p.
SequenceEnds ==
    /\ phase = "sequence" /\ j > e2
    /\ LET Back[n \in 1..Len(stable)] ==
               IF n = Len(stable) THEN stable[n] ELSE p[Back[n + 1]]
       IN  stable' = [n \in DOMAIN stable |-> Back[n]]
    /\ phase' = "place" /\ j' = e2
    /\ UNCHANGED <<inputs, el2, dom, fresh, i, e1, e2, newIndexToOldIndex, patched, moved,
                   maxNewIndexSoFar, p, moves>>

\* 5.3: backwards, so that the next child is the anchor.
PlacesNew ==
    /\ phase = "place"
    /\ \/ j < i /\ phase' = "done" /\ UNCHANGED <<el2, dom, fresh, j, stable, moves>>
       \/ /\ j >= i /\ newIndexToOldIndex[j] = 0
          /\ Mount(j, AnchorAt(j + 1))
          /\ j' = j - 1 /\ UNCHANGED <<phase, stable, moves>>
       \/ /\ j >= i /\ newIndexToOldIndex[j] # 0
          /\ IF moved /\ (stable = <<>> \/ j # Last(stable))
             THEN Move(j, AnchorAt(j + 1)) /\ moves' = moves + 1 /\ UNCHANGED stable
             ELSE /\ stable' = IF moved THEN Front(stable) ELSE stable
                  /\ UNCHANGED <<el2, dom, fresh, moves>>
          /\ j' = j - 1 /\ UNCHANGED phase
    /\ UNCHANGED <<inputs, i, e1, e2, newIndexToOldIndex, patched, moved, maxNewIndexSoFar, p>>

-----------------------------------------------------------------------------
\* No two children of a list have the same key.  A v-for has keys everywhere or nowhere,
\* and keys are numbered in the order of the old list, since only their equality counts.
Lists(text, keys, n) ==
    {s \in BoundedSeq({v \in VNode(text) : v.key \in keys}, n) :
        /\ \A x, y \in DOMAIN s : x # y => s[x].key # s[y].key \/ s[x].key = NoKey
        /\ Cardinality({x \in DOMAIN s : s[x].type = "fragment"}) <= MaxFragments}
Children(text) ==
    CASE path = "keyed"   -> Lists(text, 1..MaxKeyed + 1, MaxKeyed)
      [] path = "unkeyed" -> Lists(text, {NoKey}, MaxMixed)
      [] path = "full"    -> Lists(text, NoKey..MaxMixed + 1, MaxMixed)
\* The keys that are not among the first ones, as often as they occur, are numbered in the
\* order of the list: which keys these are makes no difference.
Numbered(s, first) ==
    \A x \in DOMAIN s : s[x].key > first =>
        s[x].key = first + Cardinality({y \in 1..x : s[y].key > first})

Shapes == {"array", "text", "none"}

Init ==
    /\ path \in {"keyed", "unkeyed", "full"}
    /\ oldShape \in IF path = "full" THEN Shapes ELSE {"array"}
    /\ newShape \in IF path = "full" THEN Shapes ELSE {"array"}
    /\ c1 \in IF oldShape = "array" THEN Children("old") ELSE {<<>>}
    /\ Numbered(c1, 0)
    /\ c2 \in IF newShape = "array" THEN Children("new") ELSE {<<>>}
    /\ Numbered(c2, Cardinality({x \in DOMAIN c1 : c1[x].key # NoKey}))
    /\ el1 = [x \in DOMAIN c1 |-> x]
    /\ dom = Before \o (IF oldShape = "text" THEN <<TextNode>>
                        ELSE FlattenSeq([x \in DOMAIN c1 |-> Nodes(c1[x], x)])) \o After
    /\ el2 = [x \in DOMAIN c2 |-> 0] /\ fresh = MaxKeyed + 1
    /\ phase = "begin" /\ i = 1 /\ e1 = 0 /\ e2 = 0
    /\ newIndexToOldIndex = <<>> /\ patched = 0 /\ moved = FALSE /\ maxNewIndexSoFar = 0
    /\ j = 0 /\ moves = 0 /\ stable = <<>> /\ p = <<>>

Next ==
    \/ Begins \/ PatchesCommon \/ SyncsFromStart \/ SyncsFromEnd \/ MountsRest \/ UnmountsRest
    \/ PatchesOld \/ EndOfOld \/ ExtendsSequence \/ SequenceEnds \/ PlacesNew

Spec == Init /\ [][Next]_vars /\ WF_vars(Next)

-----------------------------------------------------------------------------
Done == phase = "done"

\* The container holds the new children, in order and with what they show, between
\* the siblings it had.
DomIsNewChildren ==
    Done => dom = Before \o (IF newShape = "text" THEN <<TextNode>>
                             ELSE FlattenSeq([n \in DOMAIN c2 |-> Nodes(c2[n], el2[n])])) \o After

\* A child with a key keeps its nodes, and with them its state, wherever it goes.
KeyedChildKeepsNodes ==
    Done /\ path # "unkeyed" =>
        \A k \in DOMAIN c1, n \in DOMAIN c2 :
            c1[k].key # NoKey /\ IsSameVNodeType(c1[k], c2[n]) => el2[n] = el1[k]

\* The old children that need not be moved are a longest increasing subsequence: no
\* fewer moves give the new order.
Matched == SelectSeq([x \in 1..Cardinality(DOMAIN newIndexToOldIndex) |->
                         newIndexToOldIndex[x + i - 1]], LAMBDA k : k # 0)
LongestStable == Max({Cardinality(xs) : xs \in {ys \in SUBSET DOMAIN Matched :
                         \A x, y \in ys : x < y => Matched[x] < Matched[y]}})
FewestMoves == Done /\ patched > 0 => moves = Len(Matched) - LongestStable
=============================================================================
