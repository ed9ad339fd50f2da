\* Lists of up to four children with keys, or three of mixed sorts, of which one may be a
\* fragment; templates over lists of up to two items; a Suspense of two branches with two
\* asynchronous children, rendered three times more; two children in a transition,
\* rendered up to four times.
\* The diff ends and what is rendered too often stays.
SPECIFICATION MCSpec
CONSTANTS
    VNodeType = {"p", "fragment"}
    MaxKeyed = 4
    MaxMixed = 3
    MaxFragments = 1
    Items <- MCLists
    Type = {"A", "B"}
    Kid = {"p", "q"}
    Timeout = {"none", "zero", "some"}
    SuspenseRenders = 3
    NoChild = NoChild
    Toggled = {"A", "B"}
    Mode = {"default", "out-in", "in-out"}
    MaxRenders = 4
INVARIANTS
    TemplateIsShown
PROPERTIES
    ChildrenArePatched
    SuspenseResolves
    TransitionsEnd
CHECK_DEADLOCK FALSE
