---------------------------- MODULE StudentTable ----------------------------
(***************************************************************************)
(* What StudentService promises: a table of students in the manner of a    *)
(* database.  An insert issues an id that was never issued before, also    *)
(* not to a row that was deleted since; only rows with an issued id are    *)
(* ever written.                                                           *)
(***************************************************************************)
EXTENDS Naturals

CONSTANTS Id,      \* the student ids
          Name,    \* what else a row holds
          Seed     \* the rows of the table at the start

VARIABLES rows,    \* the table, a function from ids to students
          issued   \* the ids issued so far

vars == <<rows, issued>>

Student == [id : Id, name : Name]

With(f, k, v) == [i \in DOMAIN f \cup {k} |-> IF i = k THEN v ELSE f[i]]
Without(f, k) == [i \in DOMAIN f \ {k} |-> f[i]]

Init == rows = Seed /\ issued = DOMAIN Seed

Insert(s) ==
    /\ s.id \in Id \ issued
    /\ rows' = With(rows, s.id, s)
    /\ issued' = issued \cup {s.id}

\* An update that found its row may write it after another request deleted it.
Update(s) ==
    /\ s.id \in issued
    /\ rows' = With(rows, s.id, s)
    /\ UNCHANGED issued

Delete(id) ==
    /\ id \in issued
    /\ rows' = Without(rows, id)
    /\ UNCHANGED issued

Next ==
    \/ \E s \in Student : Insert(s) \/ Update(s)
    \/ \E id \in Id : Delete(id)

Spec == Init /\ [][Next]_vars
=============================================================================
