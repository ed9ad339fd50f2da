--------------------------- MODULE StudentQueries ---------------------------
(***************************************************************************)
(* The queries of the table of students: getOneStudentByStudentId and      *)
(* getAllStudent of com.hg.hyy.service.StudentService, beside the requests *)
(* that change it.  The first looks twice; the second answers with a live  *)
(* view of the map, over which the writer of the response iterates later.  *)
(* The ids in use lie in one bucket each, in rising order.                 *)
(***************************************************************************)
EXTENDS StudentService

CONSTANTS Reader,    \* the request threads that ask
          NoStudent  \* null

ASSUME NoStudentAssumption == NoStudent \notin Student

VARIABLE query  \* where each reader stands, and its last answer

\* id is what is asked for, or what the iterator comes to next (0: nothing); rows are
\* the rows written so far; answer is the student of a getOneStudentByStudentId.
\* History: changed, ids have come or gone since the iterator was made; began, the
\* ids of that moment; had, the rows of that moment and of all since; deletes, a
\* delete of id has been under way.
At0 == [at |-> "idle", id |-> 0, rows |-> {}, answer |-> NoStudent, changed |-> FALSE,
        began |-> {}, had |-> {}, deletes |-> FALSE]

\* A row is an id with the student filed under it.
Row(id) == <<id, studentMap[id]>>
TableRows == {Row(id) : id \in DOMAIN studentMap}
IdsOf(rows) == {row[1] : row \in rows}

QueryInit == query = [q \in Reader |-> At0]

GoesTo(q, to) == query' = [query EXCEPT ![q] = to] /\ UNCHANGED vars
IsFree(q) == query[q].at \notin {"fetch", "view", "iterate"}
Deleting(id) == \E r \in Request : call[r].at = "remove" /\ call[r].student.id = id

-----------------------------------------------------------------------------
\* A wrong variant: the reader looks at the form of the id, not into the table.
LooksLikeAnId(id) == id \in Id

\* getOneStudentByStudentId: is the id there?
Contains(id) == id \in DOMAIN studentMap

AsksForOne(q, id) ==
    /\ IsFree(q)
    /\ GoesTo(q, [At0 EXCEPT !.at = IF Contains(id) THEN "fetch" ELSE "unknown", !.id = id,
                             !.deletes = Deleting(id)])

\* The answer is a success whatever is there now.
Fetches(q) ==
    /\ query[q].at = "fetch"
    /\ GoesTo(q, [query[q] EXCEPT
          !.at = "success",
          !.answer = IF query[q].id \in DOMAIN studentMap THEN studentMap[query[q].id]
                                                          ELSE NoStudent])

-----------------------------------------------------------------------------
\* getAllStudent returns the view, ...
AsksForAll(q) == IsFree(q) /\ GoesTo(q, [At0 EXCEPT !.at = "view"])

\* The first id of the map from id on.
From(id) ==
    IF \A i \in DOMAIN studentMap : i < id THEN 0
    ELSE CHOOSE i \in DOMAIN studentMap : i >= id /\ \A j \in DOMAIN studentMap : j >= id => i <= j

\* ... the writer makes an iterator over it, ...
Iterates(q) ==
    /\ query[q].at = "view"
    /\ GoesTo(q, [At0 EXCEPT !.at = "iterate", !.id = From(FirstId),
                             !.began = DOMAIN studentMap, !.had = TableRows])

\* ... which fails once a row has been added or deleted, and yields a row at a time,
\* with the student that is filed under the id by then.
WritesRow(q) ==
    /\ query[q].at = "iterate" /\ query[q].id # 0
    /\ IF query[q].changed
       THEN GoesTo(q, [query[q] EXCEPT !.at = "failed"])
       ELSE GoesTo(q, [query[q] EXCEPT !.rows = @ \cup {Row(query[q].id)}, !.id = From(@ + 1)])

WritesEnd(q) ==
    /\ query[q].at = "iterate" /\ query[q].id = 0
    /\ GoesTo(q, [query[q] EXCEPT !.at = "all"])

-----------------------------------------------------------------------------
\* A request changes the table while readers are under way.
TableStep ==
    /\ Next
    /\ query' = [q \in Reader |->
          [query[q] EXCEPT
             !.changed = @ \/ (query[q].at = "iterate" /\ DOMAIN studentMap' # DOMAIN studentMap),
             !.had = IF query[q].at = "iterate" THEN @ \cup TableRows' ELSE @,
             !.deletes = @ \/ (query[q].at = "fetch" /\ Deleting(query[q].id))]]

QueryNext ==
    \/ TableStep
    \/ \E q \in Reader :
          \/ \E id \in Id : AsksForOne(q, id)
          \/ Fetches(q)
          \/ AsksForAll(q)
          \/ Iterates(q)
          \/ WritesRow(q)
          \/ WritesEnd(q)

QuerySpec == Init /\ QueryInit /\ [][QueryNext]_<<vars, query>>

-----------------------------------------------------------------------------
\* "Query all students": an answer has a row for each id the table had at one moment
\* and no other, and each of its rows has been in the table since; with no update
\* meanwhile (had is what it was) these are the rows of that moment, and otherwise
\* new rows and old ones may stand side by side.  Such a query fails only when ids
\* came or went while it was written.  "Query by id": a success without a student is
\* met only by a query during which the student was deleted.
AnswersAreOfTheTable ==
    \A q \in Reader :
       /\ query[q].at = "all" => /\ IdsOf(query[q].rows) = query[q].began
                                /\ query[q].rows \subseteq query[q].had
       /\ query[q].at = "failed" => query[q].changed
       /\ query[q].at = "success" /\ query[q].answer = NoStudent => query[q].deletes
=============================================================================
