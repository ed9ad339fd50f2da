--------------------------- MODULE MCVueScheduler ---------------------------
(* The scheduler of the Vue runtime alone, with a parent, its child, a       *)
(* callback of before the queue and one of after it.                         *)
EXTENDS VueScheduler

MCId == [task \in Task |-> IF task \notin Job THEN 9 ELSE IF task \in AllowRecurse THEN 2 ELSE 1]
=============================================================================
