--------------------------- MODULE StudentService ---------------------------
(***************************************************************************)
(* The in-memory table of students: com.hg.hyy.service.StudentService with *)
(* the requests of controller.VueController that call it.  The service is  *)
(* one object for all request threads and takes no lock.  One step is one  *)
(* access to the static map or to the static counter; a HashMap operation  *)
(* is one step because the table stays below its first resize.             *)
(***************************************************************************)
EXTENDS Naturals, FiniteSets

CONSTANTS Request,   \* the request threads
          Adder,     \* those that add students
          Name,      \* the names that requests send
          MaxId      \* the last id that is issued (a bound for TLC)

ASSUME RequestAssumption == Adder \subseteq Request /\ MaxId \in Nat /\ MaxId >= 10003

VARIABLES studentMap,  \* the table, a function from ids to students
          studentId,   \* the next id
          call         \* call[r]: where request r stands, the student it works
                       \* on, and what its studentId++ has read

vars == <<studentMap, studentId, call>>

FirstId == 10001
Id == FirstId..MaxId
SeedName == {"Godfery", "Echo", "Abi"}
Student == [id : Id, name : Name \cup SeedName]

\* The rows the static initializer puts in.
Seed == [id \in FirstId..FirstId + 2 |->
            [id |-> id, name |-> CASE id = FirstId     -> "Godfery"
                                   [] id = FirstId + 1 -> "Echo"
                                   [] OTHER            -> "Abi"]]

Pc == {"idle", "put", "read", "write", "remove", "replace"}
At(pc, s, n) == [at |-> pc, student |-> s, read |-> n]
Idle == At("idle", Seed[FirstId], FirstId)

TypeOK ==
    /\ \E ids \in SUBSET Id : studentMap \in [ids -> Student]
    /\ studentId \in FirstId..MaxId + 1
    /\ call \in [Request -> [at : Pc, student : Student, read : FirstId..MaxId + 1]]

Init ==
    /\ studentMap = Seed
    /\ studentId = FirstId + 3
    /\ call = [r \in Request |-> Idle]

-----------------------------------------------------------------------------
Goes(r, to) == call' = [call EXCEPT ![r] = to]
Returns(r) == Goes(r, Idle)

\* HashMap.put and remove.
Put(id, s) ==
    studentMap' = [i \in DOMAIN studentMap \cup {id} |->
                      IF i = id THEN s ELSE studentMap[i]]

Take(id) == studentMap' = [i \in DOMAIN studentMap \ {id} |-> studentMap[i]]

-----------------------------------------------------------------------------
\* addOneStudent: the counter is read for the student, ...
AddSetsId(r, name) ==
    /\ call[r].at = "idle"
    /\ studentId <= MaxId
    /\ Goes(r, At("put", [id |-> studentId, name |-> name], FirstId))
    /\ UNCHANGED <<studentMap, studentId>>

\* ... read again for the key, ...
AddPuts(r) ==
    /\ call[r].at = "put"
    /\ studentId <= MaxId
    /\ Put(studentId, call[r].student)
    /\ Goes(r, At("read", call[r].student, FirstId))
    /\ UNCHANGED studentId

\* ... and incremented by a read and a write.
IncrementReads(r) ==
    /\ call[r].at = "read"
    /\ Goes(r, At("write", call[r].student, studentId))
    /\ UNCHANGED <<studentMap, studentId>>

\* A wrong variant: the next id is computed from the size of the table.
AfterSize(r) == r \in Request /\ studentId' = FirstId + Cardinality(DOMAIN studentMap)

AfterRead(r) == studentId' = call[r].read + 1

IncrementWrites(r) ==
    /\ call[r].at = "write"
    /\ AfterRead(r)
    /\ Returns(r)
    /\ UNCHANGED studentMap

-----------------------------------------------------------------------------
\* A wrong variant: an update and a delete do not look whether the id is there.
DoesNotCheck(r, next, s) ==
    /\ call[r].at = "idle"
    /\ Goes(r, At(next, s, FirstId))
    /\ UNCHANGED <<studentMap, studentId>>

\* The containsKey with which an update and a delete begin: a request for an id
\* that is not there returns at once.
Check(r, next, s) ==
    /\ call[r].at = "idle"
    /\ s.id \in DOMAIN studentMap
    /\ Goes(r, At(next, s, FirstId))
    /\ UNCHANGED <<studentMap, studentId>>

\* deleteOneStudentByStudentId.
Deletes(r) ==
    /\ call[r].at = "remove"
    /\ Take(call[r].student.id)
    /\ Returns(r)
    /\ UNCHANGED studentId

\* updateOneStudent: the row may have been deleted since the check.
Updates(r) ==
    /\ call[r].at = "replace"
    /\ Put(call[r].student.id, call[r].student)
    /\ Returns(r)
    /\ UNCHANGED studentId

Next ==
    \/ \E r \in Adder : \/ \E name \in Name : AddSetsId(r, name)
                        \/ AddPuts(r)
                        \/ IncrementReads(r)
                        \/ IncrementWrites(r)
    \/ \E r \in Request :
          \/ \E id \in Id, name \in Name : Check(r, "replace", [id |-> id, name |-> name])
          \/ \E id \in DOMAIN studentMap :
                Check(r, "remove", [id |-> id, name |-> studentMap[id].name])
          \/ Deletes(r)
          \/ Updates(r)

Spec == Init /\ [][Next]_vars

-----------------------------------------------------------------------------
\* "Insert one student, return the number of affected rows": every insert, which
\* is always answered with 1, adds a row and replaces none.
InsertAddsARow ==
    [][\A r \in Request : call[r].at = "put" /\ call'[r].at = "read"
          => Cardinality(DOMAIN studentMap') = Cardinality(DOMAIN studentMap) + 1]_vars

\* The ids handed out, among them that of an insert on its way to the counter.
Issued == {id \in Id : \/ id < studentId
                       \/ id = studentId /\ \E r \in Adder : call[r].at \in {"read", "write"}}

\* While one request at a time adds students, the service is a table whose ids are
\* never issued twice, whatever the other requests delete, update and read.
Table == INSTANCE StudentTable WITH rows <- studentMap, issued <- Issued,
                                    Name <- Name \cup SeedName
TableSpec == Table!Spec
=============================================================================
