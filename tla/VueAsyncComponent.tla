------------------------- MODULE VueAsyncComponent --------------------------
(***************************************************************************)
(* An asynchronous component of the Vue runtime that vue.html loads:       *)
(* several wrappers on the page share the loader, its pending request and  *)
(* the component that it gave.  The loader succeeds, fails, gives nothing  *)
(* (undefined) or something that is no component; the user's onError may   *)
(* ask again; the wrappers' delay and timeout pass at any time.  Every     *)
(* callback of a promise is a step of its own.                             *)
(***************************************************************************)
EXTENDS Naturals, Sequences

CONSTANTS Wrapper,     \* the wrappers
          Controlled,  \* those that a Suspense boundary controls
          MaxRequests  \* how often the loader is called (a bound for TLC)

VARIABLES option,          \* onError, errorComponent, loadingComponent, timeout, handler: given or not
          pendingRequest,  \* the request that the wrappers share, 0: none
          resolvedComp,    \* the request that gave the component, 0: undefined
          retries,         \* how often the user asked again
          requests,        \* the promises that load made
          wrapper          \* what each wrapper knows

vars == <<option, pendingRequest, resolvedComp, retries, requests, wrapper>>

Options == [onError : BOOLEAN, errorComponent : BOOLEAN, loadingComponent : BOOLEAN,
            timeout : BOOLEAN, handler : BOOLEAN]

\* A request: loading until the loader settles, asking the user's onError, following
\* another request, loaded (or invalid, with what is no component) before its own
\* callback, then resolved or rejected.  comp is the request whose component it gives,
\* 0 as long as that is undefined, on the one it follows.
NewRequest == [at |-> "loading", comp |-> 0, on |-> 0]
Settled(r) == requests[r].at \in {"resolved", "rejected"}

\* A wrapper: the request it waits for, its refs, and its timers that still run.
Unmounted == [at |-> "none", request |-> 0, loaded |-> FALSE, error |-> FALSE,
              delayed |-> TRUE, timer |-> FALSE]

-----------------------------------------------------------------------------
CanLoad == pendingRequest # 0 \/ Len(requests) < MaxRequests

\* load, which shares the pending request, and what it returns
Request == IF pendingRequest # 0 THEN pendingRequest ELSE Len(requests) + 1
Load ==
    /\ pendingRequest' = Request
    /\ requests' = IF pendingRequest # 0 THEN requests ELSE Append(requests, NewRequest)

\* setup of a wrapper
Mount(w) ==
    /\ wrapper[w].at = "none"
    /\ IF resolvedComp # 0
       THEN /\ wrapper' = [wrapper EXCEPT ![w].at = "inner"]
            /\ UNCHANGED <<pendingRequest, requests>>
       ELSE /\ CanLoad
            /\ Load
            /\ wrapper' = [wrapper EXCEPT ![w].at = "waiting", ![w].request = Request,
                                          ![w].timer = option.timeout /\ w \notin Controlled]
    /\ UNCHANGED <<option, resolvedComp, retries>>

\* The loader's promise settles.
LoaderLoads(r) ==
    /\ requests[r].at = "loading"
    /\ requests' = [requests EXCEPT ![r].at = "loaded", ![r].comp = r]
    /\ UNCHANGED <<option, pendingRequest, resolvedComp, retries, wrapper>>

\* The loader resolves to undefined, or to something that is no component.
LoaderGivesNothing(r) ==
    /\ requests[r].at = "loading"
    /\ requests' = [requests EXCEPT ![r].at = "loaded"]
    /\ UNCHANGED <<option, pendingRequest, resolvedComp, retries, wrapper>>

LoaderGivesNoComponent(r) ==
    /\ requests[r].at = "loading"
    /\ requests' = [requests EXCEPT ![r].at = "invalid"]
    /\ UNCHANGED <<option, pendingRequest, resolvedComp, retries, wrapper>>

LoaderFails(r) ==
    /\ requests[r].at = "loading"
    /\ requests' = [requests EXCEPT ![r].at = IF option.onError THEN "asking" ELSE "rejected"]
    /\ UNCHANGED <<option, pendingRequest, resolvedComp, retries, wrapper>>

\* userRetry and retry: a new request, which the one that failed follows.
AsksAnew(r) ==
    /\ Len(requests) < MaxRequests
    /\ pendingRequest' = Len(requests) + 1
    /\ requests' = Append([requests EXCEPT ![r].at = "retried", ![r].on = Len(requests) + 1],
                          NewRequest)
UserRetries(r) ==
    /\ requests[r].at = "asking"
    /\ AsksAnew(r)
    /\ retries' = retries + 1
    /\ UNCHANGED <<option, resolvedComp, wrapper>>

UserFails(r) ==
    /\ requests[r].at = "asking"
    /\ requests' = [requests EXCEPT ![r].at = "rejected"]
    /\ UNCHANGED <<option, pendingRequest, resolvedComp, retries, wrapper>>

\* The callback of a request that was loaded, by itself or by the one it asked for:
\* when another request is pending, it follows that one; what is no component it rejects,
\* and undefined it warns about and shares like a component.
Loaded(r) == \/ requests[r].at \in {"loaded", "invalid"}
             \/ requests[r].at = "retried" /\ requests[requests[r].on].at = "resolved"
CompOf(r) == IF requests[r].at = "retried" THEN requests[requests[r].on].comp ELSE requests[r].comp
Overtaken(r) == pendingRequest \notin {0, r}
Then(r) ==
    /\ Loaded(r)
    /\ LET overtaken == Overtaken(r)
           valid == requests[r].at # "invalid"
       IN  /\ requests' =
                  [requests EXCEPT ![r] =
                      IF overtaken THEN [@ EXCEPT !.at = "follows", !.on = pendingRequest]
                      ELSE IF valid THEN [@ EXCEPT !.at = "resolved", !.comp = CompOf(r)]
                      ELSE [@ EXCEPT !.at = "rejected"]]
           /\ resolvedComp' = IF overtaken \/ ~valid THEN resolvedComp ELSE CompOf(r)
    /\ UNCHANGED <<option, pendingRequest, retries, wrapper>>

\* A promise settles as the one it follows.
Follows(r) ==
    /\ requests[r].on # 0
    /\ LET on == requests[requests[r].on]
       IN  /\ \/ requests[r].at = "follows" /\ Settled(requests[r].on)
              \/ requests[r].at = "retried" /\ on.at = "rejected"
           /\ requests' = [requests EXCEPT ![r].at = on.at, ![r].comp = on.comp]
    /\ UNCHANGED <<option, pendingRequest, resolvedComp, retries, wrapper>>

\* The wrapper's own callbacks.  handleError throws when nobody handles the error, and
\* then the error is not kept.
WrapperLoaded(w) ==
    /\ wrapper[w].at = "waiting" /\ requests[wrapper[w].request].at = "resolved"
    /\ wrapper' = [wrapper EXCEPT ![w].at = "answered", ![w].loaded = TRUE]
    /\ UNCHANGED <<option, pendingRequest, resolvedComp, retries, requests>>

ErrorKept == option.errorComponent \/ option.handler
\* A wrong variant: the request that failed stays pending.
KeepsRequest == UNCHANGED pendingRequest
OnError == pendingRequest' = 0
WrapperFails(w) ==
    /\ wrapper[w].at = "waiting" /\ requests[wrapper[w].request].at = "rejected"
    /\ OnError
    /\ wrapper' = [wrapper EXCEPT ![w].at = "answered", ![w].error = ErrorKept]
    /\ UNCHANGED <<option, resolvedComp, retries, requests>>

TimesOut(w) ==
    /\ wrapper[w].timer
    /\ LET late == ~wrapper[w].loaded /\ ~wrapper[w].error
       IN  /\ IF late THEN OnError ELSE UNCHANGED pendingRequest
           /\ wrapper' = [wrapper EXCEPT ![w].timer = FALSE, ![w].error = @ \/ (late /\ ErrorKept)]
    /\ UNCHANGED <<option, resolvedComp, retries, requests>>

DelayPasses(w) ==
    /\ wrapper[w].at \in {"waiting", "answered"} /\ w \notin Controlled /\ wrapper[w].delayed
    /\ option.loadingComponent  \* otherwise nothing is seen of it
    /\ wrapper' = [wrapper EXCEPT ![w].delayed = FALSE]
    /\ UNCHANGED <<option, pendingRequest, resolvedComp, retries, requests>>

\* The render function, createInnerComp
Shown(w) ==
    LET i == wrapper[w]
    IN  IF i.at = "none" THEN "none"
        ELSE IF i.at = "inner" THEN "component"
        ELSE IF w \in Controlled
        THEN IF i.loaded THEN IF requests[i.request].comp # 0 THEN "component" ELSE "nothing"
             ELSE IF i.at = "answered" /\ option.errorComponent THEN "error" ELSE "nothing"
        ELSE IF i.loaded /\ resolvedComp # 0 THEN "component"
        ELSE IF i.error /\ option.errorComponent THEN "error"
        ELSE IF option.loadingComponent /\ ~i.delayed THEN "loading" ELSE "nothing"

Init ==
    /\ option \in Options
    /\ pendingRequest = 0 /\ resolvedComp = 0 /\ retries = 0
    /\ requests = <<>>
    /\ wrapper = [w \in Wrapper |-> Unmounted]

RequestSteps(r) == \/ LoaderLoads(r) \/ LoaderGivesNothing(r) \/ LoaderGivesNoComponent(r)
                   \/ LoaderFails(r)
                   \/ UserRetries(r) \/ UserFails(r)
                   \/ Then(r) \/ Follows(r)
WrapperSteps(w) == WrapperLoaded(w) \/ WrapperFails(w) \/ TimesOut(w) \/ DelayPasses(w)

Next ==
    \/ \E w \in Wrapper : Mount(w) \/ WrapperSteps(w)
    \/ \E r \in DOMAIN requests : RequestSteps(r)

\* Promises call back, timers fire, the loader settles and the user answers.
Fairness ==
    /\ \A w \in Wrapper : WF_vars(WrapperSteps(w))
    /\ \A r \in 1..MaxRequests : WF_vars(r \in DOMAIN requests /\ RequestSteps(r))
Spec == Init /\ [][Next]_vars /\ Fairness

-----------------------------------------------------------------------------
Quiet == /\ \A r \in DOMAIN requests : Settled(r)
         /\ \A w \in Wrapper : wrapper[w].at # "waiting"

\* A failure is not kept: when all promises have called back, the request that is still
\* pending, if any, is one that gave what there is now.  That is the component, or
\* undefined when the loader resolved to it, and then the loader is never asked again;
\* after any other failure the next wrapper asks it.
FailureIsAskedAgain ==
    Quiet /\ pendingRequest # 0 =>
        requests[pendingRequest].at = "resolved" /\ requests[pendingRequest].comp = resolvedComp

\* A request that is overtaken does not give what it has loaded: while a request is
\* pending, only what that one gives becomes what the wrappers show.
NewestIsGiven ==
    [][resolvedComp' # resolvedComp /\ pendingRequest # 0 =>
           /\ requests'[pendingRequest].at = "resolved"
           /\ requests'[pendingRequest].comp = resolvedComp']_vars

\* Every wrapper comes to an answer (a component, undefined or an error), whatever was
\* retried, timed out or followed.
EveryWrapperIsAnswered ==
    \A w \in Wrapper : []<>(wrapper[w].at # "waiting")
=============================================================================
