------------------------ MODULE SysUserDetailService ------------------------
(***************************************************************************)
(* The user details of a form login: com.hg.hyy.service.                   *)
(* SysUserDetailService.  The service is one object for all logins; each   *)
(* appends the roles of its user to one java.util.ArrayList, and the User  *)
(* it answers with copies the whole list.  Neither takes a lock: one step  *)
(* is one read or write of a field of the list.  The list is taken to have *)
(* room, so that it is not copied to a larger array.                       *)
(***************************************************************************)
EXTENDS Naturals, Sequences

CONSTANTS Login,    \* the threads in which users log in
          Roles,    \* from the names that are known to the roles of each
          Stranger, \* a name that is not known
          MaxSize   \* no login begins with a longer list (a bound for TLC)

VARIABLES elementData,  \* the array of the list, ...
          size,         \* ... how much of it is in use, ...
          modCount,     \* ... and the count of its changes
          login,        \* where each login stands
          came          \* history: the users that have logged in

vars == <<elementData, size, modCount, login, came>>

\* user is the name given, i the roles added or the entries copied so far, read
\* what the thread has read of the list, has the authorities copied.  History:
\* alone, no other login has been under way since this one began; met, another one
\* was adding a role while this one copied.
At(pc, l, i, read, has) ==
    [at |-> pc, user |-> login[l].user, i |-> i, read |-> read, has |-> has,
     alone |-> login[l].alone, met |-> login[l].met]

Over == {"idle", "answered", "failed"}
UnderWay(l) == login[l].at \notin Over
Adding(l) == login[l].at \in {"count", "size", "store", "grow"}

RolesOf(user) == {Roles[user][i] : i \in DOMAIN Roles[user]}

Init ==
    /\ elementData = <<>> /\ size = 0 /\ modCount = 0 /\ came = {}
    /\ login = [l \in Login |-> [at |-> "idle", user |-> Stranger, i |-> 0, read |-> 0,
                                 has |-> {}, alone |-> TRUE, met |-> FALSE]]

Goes(l, to) == login' = [login EXCEPT ![l] = to]
ListStays == UNCHANGED <<elementData, size, modCount>>

-----------------------------------------------------------------------------
\* loadUserByUsername looks the user up; an unknown one ends it.
Enters(l, user) ==
    /\ ~UnderWay(l)
    /\ size < MaxSize
    /\ came' = came \cup ({user} \ {Stranger})
    /\ login' = [k \in Login |->
          IF k = l
          THEN [at |-> IF user = Stranger THEN "failed" ELSE "add", user |-> user, i |-> 0,
                read |-> 0, has |-> {}, alone |-> \A m \in Login \ {l} : ~UnderWay(m),
                met |-> FALSE]
          ELSE [login[k] EXCEPT !.alone = @ /\ ~UnderWay(k)]]

\* A wrong variant: a login clears the list of what earlier ones have left in it.
ClearsFirst(l, user) ==
    /\ Enters(l, user)
    /\ size' = 0 /\ modCount' = modCount + 1
    /\ UNCHANGED elementData

Begins(l, user) == Enters(l, user) /\ ListStays

\* ArrayList.add: modCount++, ...
AddReadsCount(l) ==
    /\ login[l].at = "add"
    /\ login[l].i < Len(Roles[login[l].user])
    /\ login' = [k \in Login |->
          IF k = l THEN At("count", l, login[l].i, modCount, {})
                   ELSE [login[k] EXCEPT !.met = @ \/ login[k].at = "copy"]]
    /\ ListStays

AddCounts(l) ==
    /\ login[l].at = "count"
    /\ modCount' = login[l].read + 1
    /\ Goes(l, At("size", l, login[l].i, 0, {}))
    /\ UNCHANGED <<elementData, size>>

\* ... the size is read, ...
AddReadsSize(l) ==
    /\ login[l].at = "size"
    /\ Goes(l, At("store", l, login[l].i, size, {}))
    /\ ListStays

\* ... the entry is stored behind the others, ...
AddStores(l) ==
    /\ login[l].at = "store"
    /\ LET n == login[l].read + 1
           role == Roles[login[l].user][login[l].i + 1]
       IN elementData' = IF n > Len(elementData) THEN Append(elementData, role)
                                                 ELSE [elementData EXCEPT ![n] = role]
    /\ Goes(l, At("grow", l, login[l].i, login[l].read, {}))
    /\ UNCHANGED <<size, modCount>>

\* ... and the size is set.
AddGrows(l) ==
    /\ login[l].at = "grow"
    /\ size' = login[l].read + 1
    /\ Goes(l, At("add", l, login[l].i + 1, 0, {}))
    /\ UNCHANGED <<elementData, modCount>>

-----------------------------------------------------------------------------
\* The constructor of User iterates over the list ...
CopyBegins(l) ==
    /\ login[l].at = "add"
    /\ login[l].i = Len(Roles[login[l].user])
    /\ Goes(l, [At("copy", l, 0, modCount, {}) EXCEPT !.met = \E m \in Login \ {l} : Adding(m)])
    /\ ListStays

\* ... and fails when the list has changed, or is now shorter than what it copied.
CopyFails(l) ==
    /\ login[l].at = "copy"
    /\ login[l].i # size
    /\ modCount # login[l].read \/ login[l].i > size
    /\ Goes(l, At("failed", l, 0, 0, {}))
    /\ ListStays

Copies(l) ==
    /\ login[l].at = "copy"
    /\ login[l].i < size
    /\ modCount = login[l].read
    /\ Goes(l, At("copy", l, login[l].i + 1, login[l].read,
                  login[l].has \cup {elementData[login[l].i + 1]}))
    /\ ListStays

Answers(l) ==
    /\ login[l].at = "copy"
    /\ login[l].i = size
    /\ Goes(l, At("answered", l, 0, 0, login[l].has))
    /\ ListStays

Next ==
    \E l \in Login :
       \/ \E user \in DOMAIN Roles \cup {Stranger} : Begins(l, user)
       \/ /\ \/ AddReadsCount(l) \/ AddCounts(l) \/ AddReadsSize(l) \/ AddStores(l) \/ AddGrows(l)
             \/ CopyBegins(l) \/ CopyFails(l) \/ Copies(l) \/ Answers(l)
          /\ UNCHANGED came

Spec == Init /\ [][Next]_vars

-----------------------------------------------------------------------------
\* loadUserByUsername: the login of a known user fails only when another one was
\* adding a role while it copied the list; an answer has no role but those of users
\* that have logged in; and a login that no other overlaps is answered with all the
\* roles of its user, whatever logins that met each other have left behind.
LoginsHaveTheirRoles ==
    \A l \in Login :
       /\ login[l].at = "failed" /\ login[l].user # Stranger => login[l].met /\ ~login[l].alone
       /\ login[l].at = "answered" =>
             login[l].has \subseteq UNION {RolesOf(user) : user \in came}
       /\ login[l].at = "answered" /\ login[l].alone =>
             RolesOf(login[l].user) \subseteq login[l].has
=============================================================================
