-------------------------- MODULE MCServicesProofs --------------------------
(***************************************************************************)
(* Proofs about the services of MCServices.  StudentService and            *)
(* StudentQueries: with one request that adds students at a time, the      *)
(* service implements StudentTable; for any requests and readers, adders   *)
(* that race included, what a query answers is the table of one moment.    *)
(* The services that keep files and lists, for any requests, names, users  *)
(* and roles: the upload directory, the user details of a login and the    *)
(* sign-in with its log files.  Each has an inductive invariant, and each  *)
(* behaves in MCServices as it does alone, so that the invariants hold of  *)
(* the services side by side.                                              *)
(***************************************************************************)
EXTENDS MCServices, FiniteSetTheorems, WellFoundedInduction, TLAPS

-----------------------------------------------------------------------------
(* The table of students.                                                  *)

\* At most one request adds students.
OneAdder == \A r, s \in Adder : r = s

\* The table and the requests, without the bound of the ids' sets in TypeOK.
Shapes ==
    /\ \A id \in DOMAIN studentMap : studentMap[id] \in Student
    /\ studentMap = [id \in DOMAIN studentMap |-> studentMap[id]]
    /\ IsFiniteSet(DOMAIN studentMap)
    /\ studentId \in FirstId..MaxId + 1
    /\ call \in [Request -> [at : Pc, student : Student, read : FirstId..MaxId + 1]]

\* What an add knows of the counter: from the first read on it is the id of the
\* student, since nobody else increments it.
AdderKnowsCounter ==
    \A r \in Request :
        /\ call[r].at \in {"put", "read", "write"} =>
              /\ r \in Adder
              /\ studentId <= MaxId
              /\ call[r].student.id = studentId
        /\ call[r].at = "write" => call[r].read = studentId

\* Rows, and the rows that a request is about to write or to remove, have ids that
\* were issued.
RowsAreIssued ==
    /\ DOMAIN studentMap \subseteq Issued
    /\ \A r \in Request : call[r].at \in {"remove", "replace"} => call[r].student.id \in Issued

\* Every row is filed under the id its student carries.
KeyIsStudentId == \A id \in DOMAIN studentMap : studentMap[id].id = id

TableInv == Shapes /\ AdderKnowsCounter /\ RowsAreIssued /\ KeyIsStudentId

-----------------------------------------------------------------------------
\* The rows of the static initializer are students with ids of their own.
LEMMA SeedType ==
    /\ FirstId \in Id /\ FirstId + 1 \in Id /\ FirstId + 2 \in Id
    /\ DOMAIN Seed = FirstId..FirstId + 2
    /\ \A id \in DOMAIN Seed : Seed[id] \in Student /\ Seed[id].id = id
    /\ IsFiniteSet(DOMAIN Seed)
<1>1. FirstId \in Id /\ FirstId + 1 \in Id /\ FirstId + 2 \in Id
    BY RequestAssumption DEF Id, FirstId
<1>2. DOMAIN Seed = FirstId..FirstId + 2
    BY DEF Seed
<1>3. \A id \in DOMAIN Seed : Seed[id] \in Student /\ Seed[id].id = id
  <2> SUFFICES ASSUME NEW id \in DOMAIN Seed
               PROVE  Seed[id] \in Student /\ Seed[id].id = id
      OBVIOUS
  <2>1. id \in Id /\ id \in FirstId..FirstId + 2
      BY <1>1, <1>2 DEF FirstId
  <2>2. CASE id = FirstId
      BY <2>1, <2>2 DEF Seed, Student, SeedName, FirstId
  <2>3. CASE id = FirstId + 1
      BY <2>1, <2>3 DEF Seed, Student, SeedName, FirstId
  <2>4. CASE id = FirstId + 2
      BY <2>1, <2>4 DEF Seed, Student, SeedName, FirstId
  <2>5. QED
      BY <2>1, <2>2, <2>3, <2>4 DEF FirstId
<1>4. IsFiniteSet(DOMAIN Seed)
  <2>1. FirstId \in Int /\ FirstId + 2 \in Int
      BY DEF FirstId
  <2>2. IsFiniteSet(FirstId..FirstId + 2)
      BY <2>1, FS_Interval
  <2>3. QED
      BY <1>2, <2>2
<1>5. QED
    BY <1>1, <1>2, <1>3, <1>4

\* An idle request is typed.
LEMMA IdleType ==
    Idle \in [at : Pc, student : Student, read : FirstId..MaxId + 1] /\ Idle.at = "idle"
<1>1. FirstId \in DOMAIN Seed /\ FirstId \in FirstId..MaxId + 1
    BY SeedType, RequestAssumption DEF FirstId
<1>2. QED
    BY <1>1, SeedType DEF Idle, At, Pc

\* The invariant holds once the class is initialised.
LEMMA InitTableInv == Init => TableInv
<1> SUFFICES ASSUME Init PROVE TableInv
    OBVIOUS
<1> USE DEF Init
<1>1. Shapes
  <2>1. studentId \in FirstId..MaxId + 1
      BY RequestAssumption DEF FirstId
  <2>2. studentMap = [id \in DOMAIN studentMap |-> studentMap[id]]
      BY DEF Seed
  <2>3. QED
      BY <2>1, <2>2, SeedType, IdleType DEF Shapes
<1>2. AdderKnowsCounter
    BY IdleType DEF AdderKnowsCounter
<1>3. RowsAreIssued
    BY SeedType, IdleType DEF RowsAreIssued, Issued, Id, FirstId
<1>4. KeyIsStudentId
    BY SeedType DEF KeyIsStudentId
<1>5. QED
    BY <1>1, <1>2, <1>3, <1>4 DEF TableInv

-----------------------------------------------------------------------------
\* What each step does to the issued ids: only the put of an add issues one.
LEMMA IssuedByAdd ==
    ASSUME TableInv, OneAdder, NEW r \in Adder, AddPuts(r)
    PROVE  Issued' = Issued \cup {studentId} /\ studentId \in Id \ Issued
<1> USE RequestAssumption DEF TableInv, AdderKnowsCounter, Shapes, FirstId
<1>1. call[r].at = "put" /\ call'[r].at = "read" /\ UNCHANGED studentId
    BY DEF AddPuts, Goes, At
<1>2. studentId \in Id
    BY DEF AddPuts, Id
<1>3. \A a \in Adder : a = r
    BY DEF OneAdder
<1>4. QED
    BY <1>1, <1>2, <1>3 DEF Issued, Id

\* The increment of an add turns the id it has put into one below the counter.
LEMMA IssuedByIncrement ==
    ASSUME TableInv, OneAdder, NEW r \in Adder, IncrementWrites(r)
    PROVE  Issued' = Issued /\ studentId' = studentId + 1
<1> USE RequestAssumption DEF TableInv, AdderKnowsCounter, Shapes, FirstId
<1>1. call[r].at = "write" /\ call'[r].at = "idle"
    BY IdleType DEF IncrementWrites, Returns, Goes
<1>2. studentId' = studentId + 1
    BY <1>1 DEF IncrementWrites, AfterRead
<1>3. \A a \in Adder : a = r
    BY DEF OneAdder
<1>4. QED
    BY <1>1, <1>2, <1>3 DEF Issued, Id

\* Every other step of a request r keeps the counter, and r in or out of its
\* increment.
LEMMA IssuedByOthers ==
    ASSUME TableInv, NEW r \in Request, UNCHANGED studentId,
           NEW to \in [at : Pc, student : Student, read : FirstId..MaxId + 1],
           Goes(r, to),
           call[r].at \in {"read", "write"} <=> to.at \in {"read", "write"}
    PROVE  Issued' = Issued
BY RequestAssumption DEF TableInv, Shapes, Goes, Issued

-----------------------------------------------------------------------------
\* The part of Shapes that is about the table.
TableShape ==
    /\ \A id \in DOMAIN studentMap : studentMap[id] \in Student
    /\ studentMap = [id \in DOMAIN studentMap |-> studentMap[id]]
    /\ IsFiniteSet(DOMAIN studentMap)

\* HashMap.put keeps the table a finite function of students that are filed under
\* their ids.
LEMMA PutKeeps ==
    ASSUME TableShape, KeyIsStudentId, NEW s \in Student, Put(s.id, s)
    PROVE  /\ DOMAIN studentMap' = DOMAIN studentMap \cup {s.id}
           /\ TableShape' /\ KeyIsStudentId'
<1> USE DEF Put
<1>1. DOMAIN studentMap' = DOMAIN studentMap \cup {s.id}
    OBVIOUS
<1>2. IsFiniteSet(DOMAIN studentMap')
    BY <1>1, FS_AddElement DEF TableShape
<1>3. \A i \in DOMAIN studentMap' : studentMap'[i] = IF i = s.id THEN s ELSE studentMap[i]
    OBVIOUS
<1>4. studentMap' = [i \in DOMAIN studentMap' |-> studentMap'[i]]
    BY <1>1, <1>3
<1>5. QED
    BY <1>1, <1>2, <1>3, <1>4 DEF TableShape, KeyIsStudentId

\* So does remove.
LEMMA TakeKeeps ==
    ASSUME TableShape, KeyIsStudentId, NEW id, Take(id)
    PROVE  /\ DOMAIN studentMap' = DOMAIN studentMap \ {id}
           /\ TableShape' /\ KeyIsStudentId'
<1> USE DEF Take
<1>1. DOMAIN studentMap' = DOMAIN studentMap \ {id}
    OBVIOUS
<1>2. IsFiniteSet(DOMAIN studentMap')
    BY <1>1, FS_Subset DEF TableShape
<1>3. \A i \in DOMAIN studentMap' : studentMap'[i] = studentMap[i]
    OBVIOUS
<1>4. studentMap' = [i \in DOMAIN studentMap' |-> studentMap'[i]]
    BY <1>1, <1>3
<1>5. QED
    BY <1>1, <1>2, <1>3, <1>4 DEF TableShape, KeyIsStudentId

\* The table part of the shapes.
LEMMA ShapesOfTable == Shapes => TableShape
BY DEF Shapes, TableShape

-----------------------------------------------------------------------------
\* Every step preserves the invariant.
LEMMA NextTableInv == OneAdder /\ TableInv /\ [Next]_vars => TableInv'
<1> SUFFICES ASSUME OneAdder, TableInv, [Next]_vars
             PROVE  TableInv'
    OBVIOUS
<1>a. TableShape /\ KeyIsStudentId /\ Adder \subseteq Request
    BY ShapesOfTable, RequestAssumption DEF TableInv
<1>1. ASSUME NEW r \in Adder, NEW name \in Name, AddSetsId(r, name) PROVE TableInv'
  <2> DEFINE to == At("put", [id |-> studentId, name |-> name], FirstId)
  <2>1. /\ call[r].at = "idle" /\ Goes(r, to)
        /\ studentId <= MaxId /\ UNCHANGED <<studentMap, studentId>>
      BY <1>1 DEF AddSetsId
  <2>2. to \in [at : Pc, student : Student, read : FirstId..MaxId + 1]
      BY <2>1, RequestAssumption DEF TableInv, Shapes, At, Pc, Student, Id, FirstId
  <2>3. to.at = "put" /\ to.student.id = studentId
      BY DEF At
  <2>4. Issued' = Issued
      BY <1>a, <2>1, <2>2, <2>3, IssuedByOthers
  <2>5. Shapes'
      BY <1>a, <2>1, <2>2 DEF TableInv, Shapes, Goes
  <2>6. AdderKnowsCounter'
      BY <1>a, <2>1, <2>3 DEF TableInv, Shapes, AdderKnowsCounter, Goes
  <2>7. RowsAreIssued'
      BY <1>a, <2>1, <2>3, <2>4 DEF TableInv, Shapes, RowsAreIssued, Goes
  <2>8. QED
      BY <1>a, <2>1, <2>5, <2>6, <2>7 DEF TableInv, KeyIsStudentId
<1>2. ASSUME NEW r \in Adder, AddPuts(r) PROVE TableInv'
  <2> DEFINE to == At("read", call[r].student, FirstId)
  <2>1. /\ call[r].at = "put" /\ Goes(r, to) /\ studentId <= MaxId
        /\ Put(studentId, call[r].student) /\ UNCHANGED studentId
      BY <1>2 DEF AddPuts
  <2>2. call[r].student \in Student /\ call[r].student.id = studentId
      BY <1>a, <2>1 DEF TableInv, Shapes, AdderKnowsCounter
  <2>3. /\ to \in [at : Pc, student : Student, read : FirstId..MaxId + 1]
        /\ to.at = "read" /\ to.student = call[r].student
      BY <2>2, RequestAssumption DEF At, Pc, FirstId
  <2>4. Issued' = Issued \cup {studentId}
      BY <1>2, IssuedByAdd
  <2>5. /\ DOMAIN studentMap' = DOMAIN studentMap \cup {studentId}
        /\ TableShape' /\ KeyIsStudentId'
      BY <1>a, <2>1, <2>2, PutKeeps
  <2>6. Shapes'
      BY <1>a, <2>1, <2>3, <2>5 DEF TableInv, Shapes, Goes, TableShape
  <2>7. AdderKnowsCounter'
      BY <1>a, <2>1, <2>2, <2>3 DEF TableInv, Shapes, AdderKnowsCounter, Goes
  <2>8. RowsAreIssued'
      BY <1>a, <2>1, <2>3, <2>4, <2>5 DEF TableInv, Shapes, RowsAreIssued, Goes
  <2>9. QED
      BY <2>5, <2>6, <2>7, <2>8 DEF TableInv
<1>3. ASSUME NEW r \in Adder, IncrementReads(r) PROVE TableInv'
  <2> DEFINE to == At("write", call[r].student, studentId)
  <2>1. /\ call[r].at = "read" /\ Goes(r, to)
        /\ UNCHANGED <<studentMap, studentId>>
      BY <1>3 DEF IncrementReads
  <2>2. /\ to \in [at : Pc, student : Student, read : FirstId..MaxId + 1]
        /\ to.at = "write" /\ to.student = call[r].student /\ to.read = studentId
      BY <1>a DEF TableInv, Shapes, At, Pc
  <2>3. Issued' = Issued
      BY <1>a, <2>1, <2>2, IssuedByOthers
  <2>4. Shapes'
      BY <1>a, <2>1, <2>2 DEF TableInv, Shapes, Goes
  <2>5. AdderKnowsCounter'
      BY <1>a, <2>1, <2>2 DEF TableInv, Shapes, AdderKnowsCounter, Goes
  <2>6. RowsAreIssued'
      BY <1>a, <2>1, <2>2, <2>3 DEF TableInv, Shapes, RowsAreIssued, Goes
  <2>7. QED
      BY <1>a, <2>1, <2>4, <2>5, <2>6 DEF TableInv, KeyIsStudentId
<1>4. ASSUME NEW r \in Adder, IncrementWrites(r) PROVE TableInv'
  <2>1. call[r].at = "write" /\ Goes(r, Idle) /\ UNCHANGED studentMap
      BY <1>4 DEF IncrementWrites, Returns
  <2>2. Issued' = Issued /\ studentId' = studentId + 1
      BY <1>4, IssuedByIncrement
  <2>3. studentId <= MaxId
      BY <1>a, <2>1 DEF TableInv, AdderKnowsCounter
  <2>4. Shapes'
      BY <1>a, <2>1, <2>2, <2>3, IdleType, RequestAssumption DEF TableInv, Shapes, Goes, FirstId
  <2>5. \A q \in Request \ {r} : call[q].at \notin {"put", "read", "write"}
      BY <1>a DEF TableInv, AdderKnowsCounter, OneAdder
  <2>6. AdderKnowsCounter'
      BY <1>a, <2>1, <2>5, IdleType DEF TableInv, Shapes, AdderKnowsCounter, Goes
  <2>7. RowsAreIssued'
      BY <1>a, <2>1, <2>2, IdleType DEF TableInv, Shapes, RowsAreIssued, Goes
  <2>8. QED
      BY <1>a, <2>1, <2>4, <2>6, <2>7 DEF TableInv, KeyIsStudentId
<1>5. ASSUME NEW r \in Request, NEW next \in {"replace", "remove"},
             NEW s \in Student, Check(r, next, s)
      PROVE  TableInv'
  <2> DEFINE to == At(next, s, FirstId)
  <2>1. /\ call[r].at = "idle" /\ s.id \in DOMAIN studentMap /\ Goes(r, to)
        /\ UNCHANGED <<studentMap, studentId>>
      BY <1>5 DEF Check
  <2>2. /\ to \in [at : Pc, student : Student, read : FirstId..MaxId + 1]
        /\ to.at \in {"replace", "remove"} /\ to.student = s
      BY RequestAssumption DEF At, Pc, FirstId
  <2>3. Issued' = Issued
      BY <2>1, <2>2, IssuedByOthers
  <2>4. Shapes'
      BY <2>1, <2>2 DEF TableInv, Shapes, Goes
  <2>5. AdderKnowsCounter'
      BY <2>1, <2>2 DEF TableInv, Shapes, AdderKnowsCounter, Goes
  <2>6. RowsAreIssued'
      BY <2>1, <2>2, <2>3 DEF TableInv, Shapes, RowsAreIssued, Goes
  <2>7. QED
      BY <1>a, <2>1, <2>4, <2>5, <2>6 DEF TableInv, KeyIsStudentId
<1>6. ASSUME NEW r \in Request, Deletes(r) \/ Updates(r) PROVE TableInv'
  <2>1. /\ call[r].at \in {"remove", "replace"} /\ Goes(r, Idle) /\ UNCHANGED studentId
      BY <1>6 DEF Deletes, Updates, Returns
  <2>2. call[r].student \in Student /\ call[r].student.id \in Issued
      BY <2>1 DEF TableInv, Shapes, RowsAreIssued
  <2>3. Issued' = Issued
      BY <2>1, IdleType, IssuedByOthers
  <2>4. /\ DOMAIN studentMap' \subseteq DOMAIN studentMap \cup {call[r].student.id}
        /\ TableShape' /\ KeyIsStudentId'
    <3>1. CASE Deletes(r)
        BY <1>a, <3>1, TakeKeeps DEF Deletes
    <3>2. CASE Updates(r)
        BY <1>a, <2>2, <3>2, PutKeeps DEF Updates
    <3>3. QED
        BY <1>6, <3>1, <3>2
  <2>5. Shapes'
      BY <2>1, <2>4, IdleType DEF TableInv, Shapes, Goes, TableShape
  <2>6. AdderKnowsCounter'
      BY <2>1, IdleType DEF TableInv, Shapes, AdderKnowsCounter, Goes
  <2>7. RowsAreIssued'
      BY <2>1, <2>2, <2>3, <2>4, IdleType DEF TableInv, Shapes, RowsAreIssued, Goes
  <2>8. QED
      BY <2>4, <2>5, <2>6, <2>7 DEF TableInv
<1>7. CASE UNCHANGED vars
    BY <1>7 DEF vars, TableInv, Shapes, AdderKnowsCounter, RowsAreIssued, KeyIsStudentId, Issued
<1>8. ASSUME NEW r \in Request, NEW id \in Id, NEW name \in Name,
             Check(r, "replace", [id |-> id, name |-> name])
      PROVE  TableInv'
    BY <1>5, <1>8 DEF Student
<1>9. ASSUME NEW r \in Request, NEW id \in DOMAIN studentMap,
             Check(r, "remove", [id |-> id, name |-> studentMap[id].name])
      PROVE  TableInv'
  <2>1. id \in Id /\ studentMap[id] \in Student
      BY <1>a DEF TableInv, RowsAreIssued, Issued, TableShape
  <2>2. [id |-> id, name |-> studentMap[id].name] \in Student
      BY <2>1 DEF Student
  <2>3. QED
      BY <1>5, <1>9, <2>2
<1>10. QED
    BY <1>1, <1>2, <1>3, <1>4, <1>6, <1>7, <1>8, <1>9 DEF Next

\* The invariant of the service with one adder.
THEOREM TableInvariant == ASSUME OneAdder PROVE Spec => []TableInv
BY InitTableInv, NextTableInv, PTL DEF Spec

\* Only its own put (StudentService.addOneStudent) brings a request from "put" to
\* "read".
LEMMA OnlyInsertsPut ==
    ASSUME TableInv, Next, NEW r \in Request, call[r].at = "put", call'[r].at = "read"
    PROVE  r \in Adder /\ AddPuts(r)
<1>1. ASSUME NEW q \in Request, NEW to, to.at # "read", Goes(q, to) PROVE FALSE
    BY <1>1 DEF Goes, TableInv, Shapes
<1>2. ASSUME NEW q \in Adder, NEW name \in Name, AddSetsId(q, name) PROVE FALSE
    BY <1>1, <1>2, RequestAssumption DEF AddSetsId, At
<1>3. ASSUME NEW q \in Adder, AddPuts(q) PROVE q = r
    BY <1>3, RequestAssumption DEF AddPuts, Goes, TableInv, Shapes
<1>4. ASSUME NEW q \in Adder, IncrementReads(q) \/ IncrementWrites(q) PROVE FALSE
    BY <1>1, <1>4, IdleType, RequestAssumption DEF IncrementReads, IncrementWrites, At, Returns
<1>5. ASSUME NEW q \in Request, NEW next \in {"replace", "remove"}, NEW s, Check(q, next, s)
      PROVE  FALSE
    BY <1>1, <1>5 DEF Check, At
<1>6. ASSUME NEW q \in Request, Deletes(q) \/ Updates(q) PROVE FALSE
    BY <1>1, <1>6, IdleType DEF Deletes, Updates, Returns
<1>7. QED
    BY <1>2, <1>3, <1>4, <1>5, <1>6 DEF Next

\* With one adder, an insert, which is always answered with 1, adds a row.
THEOREM InsertsAdd == ASSUME OneAdder PROVE Spec => InsertAddsARow
<1> DEFINE Adds ==
        \A r \in Request : call[r].at = "put" /\ call'[r].at = "read"
            => Cardinality(DOMAIN studentMap') = Cardinality(DOMAIN studentMap) + 1
<1>1. TableInv /\ [Next]_vars => [Adds]_vars
  <2> SUFFICES ASSUME TableInv, Next, NEW r \in Request,
                      call[r].at = "put", call'[r].at = "read"
               PROVE  Cardinality(DOMAIN studentMap') = Cardinality(DOMAIN studentMap) + 1
      OBVIOUS
  <2>1. r \in Adder /\ AddPuts(r)
      BY OnlyInsertsPut
  <2>2. studentId \notin Issued
      BY <2>1, IssuedByAdd
  <2>3. studentId \notin DOMAIN studentMap /\ IsFiniteSet(DOMAIN studentMap)
      BY <2>2 DEF TableInv, RowsAreIssued, Shapes
  <2>4. DOMAIN studentMap' = DOMAIN studentMap \cup {studentId}
      BY <2>1 DEF AddPuts, Put
  <2>5. QED
      BY <2>3, <2>4, FS_AddElement
<1>2. QED
    BY <1>1, TableInvariant, PTL DEF Spec, InsertAddsARow

-----------------------------------------------------------------------------
\* The start of the service is a start of the table.
LEMMA InitRefines == Init => Table!Init
<1> SUFFICES ASSUME Init PROVE Table!Init
    OBVIOUS
<1>1. \A r \in Request : call[r].at = "idle"
    BY IdleType DEF Init
<1>2. Issued = {id \in Id : id < FirstId + 3}
    BY <1>1, RequestAssumption DEF Issued, Init
<1>3. Issued = DOMAIN Seed
    BY <1>2, SeedType, RequestAssumption DEF Id, FirstId
<1>4. QED
    BY <1>3 DEF Init, Table!Init

\* Every step of the service is a step of the table, or leaves it as it is.
LEMMA NextRefines == OneAdder /\ TableInv /\ [Next]_vars => [Table!Next]_(Table!vars)
<1> SUFFICES ASSUME OneAdder, TableInv, [Next]_vars
             PROVE  [Table!Next]_(Table!vars)
    OBVIOUS
<1>a. Adder \subseteq Request
    BY RequestAssumption
<1>1. ASSUME NEW r \in Adder, NEW name \in Name, AddSetsId(r, name)
      PROVE  UNCHANGED Table!vars
  <2> DEFINE to == At("put", [id |-> studentId, name |-> name], FirstId)
  <2>1. to \in [at : Pc, student : Student, read : FirstId..MaxId + 1] /\ to.at = "put"
      BY <1>1, RequestAssumption DEF AddSetsId, TableInv, Shapes, At, Pc, Student, Id, FirstId
  <2>2. Issued' = Issued
      BY <1>a, <1>1, <2>1, IssuedByOthers DEF AddSetsId
  <2>3. QED
      BY <1>1, <2>2 DEF AddSetsId, Table!vars
<1>2. ASSUME NEW r \in Adder, AddPuts(r) PROVE Table!Next
  <2>1. /\ call[r].student \in Student /\ call[r].student.id = studentId
        /\ Put(studentId, call[r].student)
      BY <1>a, <1>2 DEF AddPuts, TableInv, Shapes, AdderKnowsCounter
  <2>2. Issued' = Issued \cup {studentId} /\ studentId \in Id \ Issued
      BY <1>2, IssuedByAdd
  <2>3. Table!Insert(call[r].student)
      BY <2>1, <2>2 DEF Table!Insert, Table!With, Put
  <2>4. QED
      BY <2>1, <2>3 DEF Table!Next, Table!Student, Student
<1>3. ASSUME NEW r \in Adder, IncrementReads(r) PROVE UNCHANGED Table!vars
  <2> DEFINE to == At("write", call[r].student, studentId)
  <2>1. to \in [at : Pc, student : Student, read : FirstId..MaxId + 1] /\ to.at = "write"
      BY <1>a DEF TableInv, Shapes, At, Pc
  <2>2. Issued' = Issued
      BY <1>a, <1>3, <2>1, IssuedByOthers DEF IncrementReads
  <2>3. QED
      BY <1>3, <2>2 DEF IncrementReads, Table!vars
<1>4. ASSUME NEW r \in Adder, IncrementWrites(r) PROVE UNCHANGED Table!vars
    BY <1>4, IssuedByIncrement DEF IncrementWrites, Table!vars
<1>5. ASSUME NEW r \in Request, NEW next \in {"replace", "remove"},
             NEW s \in Student, Check(r, next, s)
      PROVE  UNCHANGED Table!vars
  <2> DEFINE to == At(next, s, FirstId)
  <2>1. /\ to \in [at : Pc, student : Student, read : FirstId..MaxId + 1]
        /\ to.at \in {"replace", "remove"}
      BY RequestAssumption DEF At, Pc, FirstId
  <2>2. Issued' = Issued
      BY <1>5, <2>1, IssuedByOthers DEF Check
  <2>3. QED
      BY <1>5, <2>2 DEF Check, Table!vars
<1>6. ASSUME NEW r \in Request, Deletes(r) \/ Updates(r) PROVE Table!Next
  <2>1. /\ call[r].at \in {"remove", "replace"} /\ Goes(r, Idle) /\ UNCHANGED studentId
      BY <1>6 DEF Deletes, Updates, Returns
  <2>2. call[r].student \in Student /\ call[r].student.id \in Issued
      BY <2>1 DEF TableInv, Shapes, RowsAreIssued
  <2>3. Issued' = Issued
      BY <2>1, IdleType, IssuedByOthers
  <2>4. CASE Deletes(r)
    <3>1. Table!Delete(call[r].student.id)
        BY <2>2, <2>3, <2>4 DEF Deletes, Take, Table!Delete, Table!Without
    <3>2. QED
        BY <2>2, <3>1 DEF Table!Next, Issued
  <2>5. CASE Updates(r)
    <3>1. Table!Update(call[r].student)
        BY <2>2, <2>3, <2>5 DEF Updates, Put, Table!Update, Table!With
    <3>2. QED
        BY <2>2, <3>1 DEF Table!Next, Table!Student, Student
  <2>6. QED
      BY <1>6, <2>4, <2>5
<1>7. CASE UNCHANGED vars
    BY <1>7 DEF vars, Issued, Table!vars
<1>8. ASSUME NEW r \in Request, NEW id \in Id, NEW name \in Name,
             Check(r, "replace", [id |-> id, name |-> name])
      PROVE  UNCHANGED Table!vars
    BY <1>5, <1>8 DEF Student
<1>9. ASSUME NEW r \in Request, NEW id \in DOMAIN studentMap,
             Check(r, "remove", [id |-> id, name |-> studentMap[id].name])
      PROVE  UNCHANGED Table!vars
  <2>1. id \in Id /\ studentMap[id] \in Student
      BY DEF TableInv, Shapes, RowsAreIssued, Issued
  <2>2. [id |-> id, name |-> studentMap[id].name] \in Student
      BY <2>1 DEF Student
  <2>3. QED
      BY <1>5, <1>9, <2>2
<1>10. QED
    BY <1>1, <1>2, <1>3, <1>4, <1>6, <1>7, <1>8, <1>9 DEF Next

\* With one adder the service implements the table that never issues an id twice,
\* for any number of requests that delete and update meanwhile.
THEOREM ImplementsTable == ASSUME OneAdder PROVE Spec => TableSpec
BY InitRefines, NextRefines, TableInvariant, PTL DEF Spec, TableSpec, Table!Spec

-----------------------------------------------------------------------------
\* The table holds students under ids from FirstId on, however the adders race.
Rows ==
    /\ studentId \in Nat /\ studentId >= FirstId
    /\ \A id \in DOMAIN studentMap : id \in Id /\ studentMap[id] \in Student
    /\ call \in [Request -> [at : Pc, student : Student, read : Nat]]
    /\ \A r \in Request : call[r].read >= FirstId

\* A reader that fetches has seen the row, unless a delete of it has been under way.
FetchFindsRow(q) ==
    query[q].at = "fetch" => query[q].id \in DOMAIN studentMap \/ query[q].deletes

\* What an iterator has written of a table that has not changed, and of any table once
\* it is through.
IteratorIsInOrder(q) ==
    query[q].at = "iterate" =>
       /\ TableRows \subseteq query[q].had /\ query[q].rows \subseteq query[q].had
       /\ query[q].id = 0 => IdsOf(query[q].rows) = query[q].began
       /\ query[q].id # 0 /\ ~query[q].changed =>
             /\ query[q].began = DOMAIN studentMap /\ query[q].id \in DOMAIN studentMap
             /\ IdsOf(query[q].rows) = {i \in DOMAIN studentMap : i < query[q].id}

Answered(q) ==
    /\ query[q].at = "all" => /\ IdsOf(query[q].rows) = query[q].began
                             /\ query[q].rows \subseteq query[q].had
    /\ query[q].at = "failed" => query[q].changed
    /\ query[q].at = "success" /\ query[q].answer = NoStudent => query[q].deletes

QueryAt == {"idle", "fetch", "unknown", "success", "view", "iterate", "failed", "all"}
QueryState == [at : QueryAt, id : Nat, rows : SUBSET (Nat \X Student),
               answer : Student \cup {NoStudent}, changed : BOOLEAN, began : SUBSET Nat,
               had : SUBSET (Nat \X Student), deletes : BOOLEAN]
QueryType == query \in [Reader -> QueryState]

QueryInv ==
    /\ Rows /\ QueryType
    /\ \A q \in Reader : FetchFindsRow(q) /\ IteratorIsInOrder(q) /\ Answered(q)

-----------------------------------------------------------------------------
\* A set of ids that is not empty has a least one.
LEMMA LeastId ==
    ASSUME NEW S \in SUBSET Nat, S # {}
    PROVE  \E i \in S : \A j \in S : i <= j
<1>1. PICK i \in S : \A j \in S : <<j, i>> \notin OpToRel(<, Nat)
  BY WFMin, NatLessThanWellFounded, Zenon
<1>2. \A j \in S : ~(j < i)
  BY <1>1, Zenon DEF OpToRel
<1> QED
  BY <1>2

\* The iterator comes to the next id there is, or ends after the last one.
LEMMA NextId ==
    ASSUME Rows, NEW id \in Nat
    PROVE  /\ From(id) \in Nat
           /\ From(id) = 0 => \A i \in DOMAIN studentMap : i < id
           /\ From(id) # 0 => /\ From(id) \in DOMAIN studentMap /\ From(id) >= id
                              /\ \A j \in DOMAIN studentMap : j >= id => From(id) <= j
<1>1. DOMAIN studentMap \subseteq Nat /\ 0 \notin DOMAIN studentMap
  BY RequestAssumption DEF Rows, FirstId, Id
<1>2. CASE \A i \in DOMAIN studentMap : i < id
  BY <1>2 DEF From
<1>3. CASE ~ \A i \in DOMAIN studentMap : i < id
  <2> DEFINE S == {i \in DOMAIN studentMap : i >= id}
  <2>1. S \in SUBSET Nat /\ S # {}
    BY <1>1, <1>3
  <2>2. PICK i \in S : \A j \in S : i <= j
    BY <2>1, LeastId
  <2>3. \E k \in DOMAIN studentMap : k >= id /\ \A j \in DOMAIN studentMap : j >= id => k <= j
    BY <2>2
  <2>4. From(id) = CHOOSE k \in DOMAIN studentMap :
                      k >= id /\ \A j \in DOMAIN studentMap : j >= id => k <= j
    BY <1>3 DEF From
  <2> QED
    BY <1>1, <2>3, <2>4
<1> QED
  BY <1>2, <1>3

-----------------------------------------------------------------------------
\* The rows of the static initializer, and an idle request.
LEMMA SeedRows ==
    /\ DOMAIN Seed = FirstId..FirstId + 2
    /\ \A id \in DOMAIN Seed : Seed[id] \in Student
    /\ Idle \in [at : Pc, student : Student, read : Nat] /\ Idle.read = FirstId
    /\ Idle.at = "idle"
<1>1. DOMAIN Seed = FirstId..FirstId + 2
  BY DEF Seed
<1>2. \A id \in DOMAIN Seed :
         /\ Seed[id].id = id /\ Seed[id].name \in SeedName
         /\ Seed[id] = [id |-> Seed[id].id, name |-> Seed[id].name]
  BY DEF Seed, SeedName, FirstId
<1>3. \A id \in DOMAIN Seed : id \in Id
  BY <1>1, RequestAssumption DEF Id, FirstId
<1>4. \A id \in DOMAIN Seed : Seed[id] \in Student
  BY <1>2, <1>3 DEF Student
<1>5. FirstId \in DOMAIN Seed /\ FirstId \in Nat
  BY <1>1 DEF FirstId
<1> QED
  BY <1>1, <1>4, <1>5 DEF Idle, At, Pc

\* A request that goes on is where a request can be.
LEMMA GoesOn ==
    ASSUME Rows, NEW r \in Request, NEW pc \in Pc, NEW s \in Student, NEW n \in Nat, n >= FirstId,
           Goes(r, At(pc, s, n)) \/ Returns(r)
    PROVE  /\ call' \in [Request -> [at : Pc, student : Student, read : Nat]]
           /\ \A q \in Request : call'[q].read >= FirstId
<1>1. At(pc, s, n) \in [at : Pc, student : Student, read : Nat] /\ At(pc, s, n).read = n
  BY DEF At
<1>2. PICK to \in [at : Pc, student : Student, read : Nat] :
         call' = [call EXCEPT ![r] = to] /\ to.read >= FirstId
  BY <1>1, SeedRows DEF Goes, Returns, FirstId
<1>3. call \in [Request -> [at : Pc, student : Student, read : Nat]]
      /\ \A q \in Request : call[q].read >= FirstId
  BY DEF Rows
<1> QED
  BY <1>2, <1>3

\* So is one that has put a student into the table.
LEMMA PutsRow ==
    ASSUME Rows, NEW id \in Id, NEW s \in Student, Put(id, s)
    PROVE  /\ DOMAIN studentMap' = DOMAIN studentMap \cup {id}
           /\ \A i \in DOMAIN studentMap' :
                 i \in Id /\ studentMap'[i] \in Student
<1>1. /\ DOMAIN studentMap' = DOMAIN studentMap \cup {id}
      /\ \A i \in DOMAIN studentMap' : studentMap'[i] = IF i = id THEN s ELSE studentMap[i]
  BY DEF Put
<1>2. ASSUME NEW i \in DOMAIN studentMap'
      PROVE  i \in Id /\ studentMap'[i] \in Student
  BY <1>1 DEF Rows
<1> QED
  BY <1>1, <1>2

\* No request takes the table out of its form, and only a delete takes an id out.
LEMMA RequestKeepsRows ==
    ASSUME Rows, Next
    PROVE  /\ Rows'
           /\ \A id \in DOMAIN studentMap : id \in DOMAIN studentMap' \/ Deleting(id)
<1>0. /\ \A pc \in {"idle", "put", "read", "write", "remove", "replace"} : pc \in Pc
      /\ FirstId \in Nat /\ studentId \in Nat /\ studentId >= FirstId
      /\ \A r \in Request : /\ call[r].student \in Student
                            /\ call[r].read \in Nat /\ call[r].read >= FirstId
      /\ \A id \in Id : id \in Nat /\ id >= FirstId
  BY RequestAssumption DEF Rows, Pc, FirstId, Id
<1>1. ASSUME NEW r \in Request, NEW name \in Name, AddSetsId(r, name)
      PROVE  Rows' /\ DOMAIN studentMap' = DOMAIN studentMap
  <2>1. [id |-> studentId, name |-> name] \in Student
    BY <1>0, <1>1, RequestAssumption DEF AddSetsId, Student, Id
  <2>2. /\ Goes(r, At("put", [id |-> studentId, name |-> name], FirstId))
        /\ UNCHANGED <<studentMap, studentId>>
    BY <1>1 DEF AddSetsId
  <2>3. /\ call' \in [Request -> [at : Pc, student : Student, read : Nat]]
        /\ \A q \in Request : call'[q].read >= FirstId
    BY <1>0, <2>1, <2>2, GoesOn DEF FirstId
  <2> QED
    BY <2>2, <2>3 DEF Rows
<1>2. ASSUME NEW r \in Request, AddPuts(r)
      PROVE  Rows' /\ DOMAIN studentMap \subseteq DOMAIN studentMap'
  <2>1. /\ Put(studentId, call[r].student) /\ studentId' = studentId
        /\ Goes(r, At("read", call[r].student, FirstId))
    BY <1>2 DEF AddPuts
  <2>2. /\ call' \in [Request -> [at : Pc, student : Student, read : Nat]]
        /\ \A q \in Request : call'[q].read >= FirstId
    BY <1>0, <2>1, GoesOn DEF FirstId
  <2>3. studentId \in Id
    BY <1>0, <1>2, RequestAssumption DEF AddPuts, Id, FirstId
  <2> QED
    BY <1>0, <2>1, <2>2, <2>3, PutsRow DEF Rows
<1>3. ASSUME NEW r \in Request, IncrementReads(r)
      PROVE  Rows' /\ DOMAIN studentMap' = DOMAIN studentMap
  <2>1. Goes(r, At("write", call[r].student, studentId)) /\ UNCHANGED <<studentMap, studentId>>
    BY <1>3 DEF IncrementReads
  <2>2. /\ call' \in [Request -> [at : Pc, student : Student, read : Nat]]
        /\ \A q \in Request : call'[q].read >= FirstId
    BY <1>0, <2>1, GoesOn
  <2> QED
    BY <2>1, <2>2 DEF Rows
<1>4. ASSUME NEW r \in Request, IncrementWrites(r)
      PROVE  Rows' /\ DOMAIN studentMap' = DOMAIN studentMap
  <2>1. studentId' = call[r].read + 1 /\ studentMap' = studentMap /\ Returns(r)
    BY <1>4 DEF IncrementWrites, AfterRead
  <2>2. /\ call' \in [Request -> [at : Pc, student : Student, read : Nat]]
        /\ \A q \in Request : call'[q].read >= FirstId
    BY <1>0, <2>1, GoesOn
  <2>3. studentId' \in Nat /\ studentId' >= FirstId
    BY <1>0, <2>1 DEF FirstId
  <2> QED
    BY <2>1, <2>2, <2>3 DEF Rows
<1>5. ASSUME NEW r \in Request, NEW next \in {"remove", "replace"}, NEW s \in Student,
             Check(r, next, s)
      PROVE  Rows' /\ DOMAIN studentMap' = DOMAIN studentMap
  <2>1. Goes(r, At(next, s, FirstId)) /\ UNCHANGED <<studentMap, studentId>>
    BY <1>5 DEF Check
  <2>2. /\ call' \in [Request -> [at : Pc, student : Student, read : Nat]]
        /\ \A q \in Request : call'[q].read >= FirstId
    BY <1>0, <2>1, GoesOn DEF FirstId
  <2> QED
    BY <2>1, <2>2 DEF Rows
<1>6. ASSUME NEW r \in Request, Deletes(r)
      PROVE  /\ Rows'
             /\ \A id \in DOMAIN studentMap : id \in DOMAIN studentMap' \/ Deleting(id)
  <2>1. /\ studentMap' = [i \in DOMAIN studentMap \ {call[r].student.id} |-> studentMap[i]]
        /\ Returns(r) /\ studentId' = studentId /\ call[r].at = "remove"
    BY <1>6 DEF Deletes, Take
  <2>2. /\ DOMAIN studentMap' = DOMAIN studentMap \ {call[r].student.id}
        /\ \A id \in DOMAIN studentMap' : studentMap'[id] = studentMap[id]
    BY <2>1
  <2>3. /\ call' \in [Request -> [at : Pc, student : Student, read : Nat]]
        /\ \A q \in Request : call'[q].read >= FirstId
    BY <1>0, <2>1, GoesOn
  <2>4. Rows'
    BY <2>1, <2>2, <2>3 DEF Rows
  <2> QED
    BY <2>1, <2>2, <2>4 DEF Deleting
<1>7. ASSUME NEW r \in Request, Updates(r)
      PROVE  Rows' /\ DOMAIN studentMap \subseteq DOMAIN studentMap'
  <2> DEFINE s == call[r].student
  <2>1. Put(s.id, s) /\ Returns(r) /\ studentId' = studentId
    BY <1>7 DEF Updates
  <2>2. s \in Student /\ s.id \in Id
    BY <1>0 DEF Student
  <2>3. /\ call' \in [Request -> [at : Pc, student : Student, read : Nat]]
        /\ \A q \in Request : call'[q].read >= FirstId
    BY <1>0, <2>1, GoesOn
  <2> HIDE DEF s
  <2> QED
    BY <2>1, <2>2, <2>3, PutsRow DEF Rows
<1>8. ASSUME NEW r \in Request, NEW id \in Id, NEW name \in Name,
             Check(r, "replace", [id |-> id, name |-> name])
      PROVE  Rows' /\ DOMAIN studentMap' = DOMAIN studentMap
  <2>1. [id |-> id, name |-> name] \in Student
    BY DEF Student
  <2> QED
    BY <1>5, <1>8, <2>1
<1>9. ASSUME NEW r \in Request, NEW id \in DOMAIN studentMap,
             Check(r, "remove", [id |-> id, name |-> studentMap[id].name])
      PROVE  Rows' /\ DOMAIN studentMap' = DOMAIN studentMap
  <2>1. [id |-> id, name |-> studentMap[id].name] \in Student
    BY DEF Rows, Student
  <2> QED
    BY <1>5, <1>9, <2>1
<1>10. CASE \E r \in Adder : \/ \E name \in Name : AddSetsId(r, name)
                             \/ AddPuts(r) \/ IncrementReads(r) \/ IncrementWrites(r)
  <2>1. PICK r \in Adder : \/ \E name \in Name : AddSetsId(r, name)
                          \/ AddPuts(r) \/ IncrementReads(r) \/ IncrementWrites(r)
    BY <1>10
  <2>2. r \in Request
    BY RequestAssumption
  <2> QED
    BY <1>1, <1>2, <1>3, <1>4, <2>1, <2>2
<1>11. CASE \E r \in Request :
               \/ \E id \in Id, name \in Name : Check(r, "replace", [id |-> id, name |-> name])
               \/ \E id \in DOMAIN studentMap :
                     Check(r, "remove", [id |-> id, name |-> studentMap[id].name])
               \/ Deletes(r) \/ Updates(r)
  BY <1>6, <1>7, <1>8, <1>9, <1>11
<1> QED
  BY <1>10, <1>11 DEF Next

-----------------------------------------------------------------------------
\* The readers.

LEMMA InitQueryInv == Init /\ QueryInit => QueryInv
<1> SUFFICES ASSUME Init, QueryInit
             PROVE  QueryInv
    OBVIOUS
<1>1. Rows
  <2>1. \A id \in DOMAIN Seed : id \in Id
    BY SeedRows, RequestAssumption DEF Id, FirstId
  <2> QED
    BY <2>1, SeedRows DEF Init, Rows, FirstId
<1>2. \A q \in Reader : query[q].at = "idle"
  BY DEF QueryInit, At0
<1>3. QueryType
  BY DEF QueryInit, At0, QueryType, QueryState, QueryAt
<1> QED
  BY <1>1, <1>2, <1>3 DEF QueryInv, FetchFindsRow, IteratorIsInOrder, Answered

\* The rows of the table are ids with students.
LEMMA RowsAreTyped ==
    /\ Rows => TableRows \subseteq Nat \X Student
    /\ Rows' => TableRows' \subseteq Nat \X Student
BY RequestAssumption DEF Rows, TableRows, Row, Id, FirstId

\* A request, with the readers under way.
LEMMA TableStepKeeps ==
    ASSUME QueryInv, TableStep
    PROVE  QueryInv'
<1>1. Rows /\ QueryType /\ Next
  BY DEF QueryInv, TableStep
<1>2. Rows' /\ \A id \in DOMAIN studentMap : id \in DOMAIN studentMap' \/ Deleting(id)
  BY <1>1, RequestKeepsRows
<1>3. \A q \in Reader :
         /\ query'[q].at = query[q].at /\ query'[q].id = query[q].id
         /\ query'[q].rows = query[q].rows /\ query'[q].began = query[q].began
         /\ query'[q].answer = query[q].answer
         /\ query'[q].changed =
               (query[q].changed
                \/ (query[q].at = "iterate" /\ DOMAIN studentMap' # DOMAIN studentMap))
         /\ query'[q].deletes =
               (query[q].deletes \/ (query[q].at = "fetch" /\ Deleting(query[q].id)))
  BY <1>1 DEF TableStep, QueryType, QueryState
<1>a. \A q \in Reader :
         query'[q].had = IF query[q].at = "iterate" THEN query[q].had \cup TableRows'
                                                    ELSE query[q].had
  BY <1>1 DEF TableStep, QueryType, QueryState
<1>4. QueryType'
  <2>1. TableRows' \subseteq Nat \X Student
    BY <1>2, RowsAreTyped
  <2> DEFINE new(q) == [query[q] EXCEPT
               !.changed = @ \/ (query[q].at = "iterate" /\ DOMAIN studentMap' # DOMAIN studentMap),
               !.had = IF query[q].at = "iterate" THEN @ \cup TableRows' ELSE @,
               !.deletes = @ \/ (query[q].at = "fetch" /\ Deleting(query[q].id))]
  <2>2. query' = [q \in Reader |-> new(q)]
    BY DEF TableStep
  <2>3. ASSUME NEW q \in Reader
        PROVE  new(q) \in QueryState
    <3>1. query[q] \in QueryState
      BY <1>1 DEF QueryType
    <3> DEFINE had == IF query[q].at = "iterate" THEN query[q].had \cup TableRows'
                                                 ELSE query[q].had
               changed == query[q].changed
                          \/ (query[q].at = "iterate" /\ DOMAIN studentMap' # DOMAIN studentMap)
               deletes == query[q].deletes
                          \/ (query[q].at = "fetch" /\ Deleting(query[q].id))
    <3>2. had \in SUBSET (Nat \X Student)
      BY <2>1, <3>1 DEF QueryState
    <3>3. changed \in BOOLEAN /\ deletes \in BOOLEAN
      BY <3>1 DEF QueryState, Deleting
    <3>4. new(q) = [query[q] EXCEPT !.changed = changed, !.had = had, !.deletes = deletes]
      BY <3>1 DEF QueryState
    <3> HIDE DEF had, changed, deletes, new
    <3> QED
      BY <3>1, <3>2, <3>3, <3>4 DEF QueryState
  <2> HIDE DEF new
  <2> QED
    BY <2>2, <2>3 DEF QueryType
<1>5. ASSUME NEW q \in Reader
      PROVE  FetchFindsRow(q)'
  BY <1>2, <1>3 DEF QueryInv, FetchFindsRow
<1>6. ASSUME NEW q \in Reader
      PROVE  IteratorIsInOrder(q)'
  BY <1>3, <1>a DEF QueryInv, IteratorIsInOrder
<1>7. ASSUME NEW q \in Reader
      PROVE  Answered(q)'
  BY <1>3, <1>a DEF QueryInv, Answered
<1> QED
  BY <1>2, <1>4, <1>5, <1>6, <1>7 DEF QueryInv

\* A reader that goes on leaves the table and the other readers alone.
LEMMA ReaderGoes ==
    ASSUME QueryInv, NEW q \in Reader,
           NEW to \in QueryState,
           GoesTo(q, to),
           to.at = "fetch" => to.id \in DOMAIN studentMap \/ to.deletes,
           to.at = "iterate" =>
              /\ TableRows \subseteq to.had /\ to.rows \subseteq to.had
              /\ to.id = 0 => IdsOf(to.rows) = to.began
              /\ to.id # 0 /\ ~to.changed =>
                    /\ to.began = DOMAIN studentMap /\ to.id \in DOMAIN studentMap
                    /\ IdsOf(to.rows) = {i \in DOMAIN studentMap : i < to.id},
           to.at = "all" => IdsOf(to.rows) = to.began /\ to.rows \subseteq to.had,
           to.at = "failed" => to.changed,
           to.at = "success" /\ to.answer = NoStudent => to.deletes
    PROVE  QueryInv'
<1>1. /\ query' = [query EXCEPT ![q] = to]
      /\ UNCHANGED <<studentMap, studentId, call>>
  BY DEF GoesTo, vars
<1>2. Rows'
  BY <1>1 DEF QueryInv, Rows
<1>3. QueryType' /\ query'[q] = to /\ \A p \in Reader : p # q => query'[p] = query[p]
  BY <1>1 DEF QueryInv, QueryType
<1>4. ASSUME NEW p \in Reader
      PROVE  FetchFindsRow(p)' /\ Answered(p)'
  BY <1>1, <1>3 DEF QueryInv, FetchFindsRow, Answered
<1>5. ASSUME NEW p \in Reader
      PROVE  IteratorIsInOrder(p)'
  <2>1. CASE p = q
    BY <1>1, <1>3, <2>1 DEF IteratorIsInOrder, TableRows, Row
  <2>2. CASE p # q
    BY <1>1, <1>3, <2>2 DEF QueryInv, IteratorIsInOrder, TableRows, Row
  <2> QED
    BY <2>1, <2>2
<1> QED
  BY <1>2, <1>3, <1>4, <1>5 DEF QueryInv

\* Every step keeps the invariant.
LEMMA NextQueryInv == QueryInv /\ [QueryNext]_<<vars, query>> => QueryInv'
<1> SUFFICES ASSUME QueryInv, [QueryNext]_<<vars, query>>
             PROVE  QueryInv'
    OBVIOUS
<1>0. /\ Rows /\ query \in [Reader -> QueryState]
      /\ \A i \in DOMAIN studentMap : i \in Nat /\ i >= FirstId
      /\ TableRows \subseteq Nat \X Student
      /\ FirstId \in Nat /\ \A id \in Id : id \in Nat
  BY RequestAssumption, RowsAreTyped DEF QueryInv, QueryType, Rows, FirstId, Id
<1>1. CASE TableStep
  BY <1>1, TableStepKeeps
<1>2. ASSUME NEW q \in Reader, NEW id \in Id, AsksForOne(q, id)
      PROVE  QueryInv'
  <2> DEFINE to == [At0 EXCEPT !.at = IF Contains(id) THEN "fetch" ELSE "unknown", !.id = id,
                               !.deletes = Deleting(id)]
  <2>1. Deleting(id) \in BOOLEAN
    BY DEF Deleting
  <2>2. to \in QueryState /\ to.at \in {"fetch", "unknown"} /\ to.id = id
        /\ (to.at = "fetch" => Contains(id))
    BY <1>0, <2>1 DEF At0, QueryState, QueryAt
  <2>3. GoesTo(q, to)
    BY <1>2 DEF AsksForOne
  <2> HIDE DEF to
  <2> QED
    BY <2>2, <2>3, ReaderGoes DEF Contains
<1>3. ASSUME NEW q \in Reader, Fetches(q)
      PROVE  QueryInv'
  <2> PICK x \in QueryState : x = query[q]
    BY <1>0
  <2> DEFINE found == IF x.id \in DOMAIN studentMap THEN studentMap[x.id] ELSE NoStudent
             to == [x EXCEPT !.at = "success", !.answer = found]
  <2>1. found \in Student \cup {NoStudent}
    BY <1>0 DEF Rows
  <2>2. found = NoStudent => x.id \notin DOMAIN studentMap
    BY <1>0, NoStudentAssumption DEF Rows
  <2> HIDE DEF found
  <2>3. to \in QueryState /\ to.at = "success" /\ to.answer = found /\ to.deletes = x.deletes
    BY <2>1 DEF QueryState, QueryAt
  <2>4. GoesTo(q, to) /\ x.at = "fetch"
    BY <1>3 DEF Fetches, found
  <2>5. found = NoStudent => x.deletes
    BY <2>2, <2>4 DEF QueryInv, FetchFindsRow
  <2> HIDE DEF to
  <2> QED
    BY <2>3, <2>4, <2>5, ReaderGoes
<1>4. ASSUME NEW q \in Reader, AsksForAll(q)
      PROVE  QueryInv'
  <2> DEFINE to == [At0 EXCEPT !.at = "view"]
  <2>1. to \in QueryState /\ to.at = "view" /\ GoesTo(q, to)
    BY <1>4 DEF AsksForAll, At0, QueryState, QueryAt
  <2> HIDE DEF to
  <2> QED
    BY <2>1, ReaderGoes
<1>5. ASSUME NEW q \in Reader, Iterates(q)
      PROVE  QueryInv'
  <2> DEFINE to == [At0 EXCEPT !.at = "iterate", !.id = From(FirstId),
                               !.began = DOMAIN studentMap, !.had = TableRows]
  <2>1. /\ From(FirstId) \in Nat
        /\ From(FirstId) = 0 => DOMAIN studentMap = {}
        /\ From(FirstId) # 0 => /\ From(FirstId) \in DOMAIN studentMap
                                /\ {i \in DOMAIN studentMap : i < From(FirstId)} = {}
    <3>0. Rows /\ FirstId \in Nat
      BY <1>0
    <3>1. /\ From(FirstId) \in Nat
          /\ From(FirstId) = 0 => \A i \in DOMAIN studentMap : i < FirstId
          /\ From(FirstId) # 0 => /\ From(FirstId) \in DOMAIN studentMap
                                  /\ \A j \in DOMAIN studentMap : j >= FirstId => From(FirstId) <= j
      BY <3>0, NextId
    <3>2. \A i \in DOMAIN studentMap : i \in Nat /\ i >= FirstId
      BY <1>0
    <3> HIDE DEF to
    <3>3. From(FirstId) = 0 => DOMAIN studentMap = {}
      BY <3>0, <3>1, <3>2
    <3>4. ASSUME From(FirstId) # 0, NEW i \in DOMAIN studentMap
          PROVE  ~(i < From(FirstId))
      BY <3>0, <3>1, <3>2, <3>4
    <3> QED
      BY <3>1, <3>3, <3>4
  <2>2. to \in QueryState /\ to.at = "iterate" /\ to.id = From(FirstId)
        /\ to.began = DOMAIN studentMap /\ to.rows = {} /\ to.had = TableRows
    BY <1>0, <2>1 DEF At0, QueryState, QueryAt
  <2>3. GoesTo(q, to)
    BY <1>5 DEF Iterates, At0
  <2>4. IdsOf({}) = {}
    BY DEF IdsOf
  <2> HIDE DEF to
  <2> QED
    BY <2>1, <2>2, <2>3, <2>4, ReaderGoes
<1>6. ASSUME NEW q \in Reader, WritesRow(q)
      PROVE  QueryInv'
  <2> PICK x \in QueryState : x = query[q]
    BY <1>0
  <2>1. x.at = "iterate" /\ x.id # 0 /\ x.id \in Nat /\ x.changed \in BOOLEAN
    BY <1>6 DEF WritesRow, QueryState
  <2>2. CASE x.changed
    <3> DEFINE to == [x EXCEPT !.at = "failed"]
    <3>1. to \in QueryState /\ to.at = "failed" /\ to.changed = x.changed
      BY DEF QueryState, QueryAt
    <3>2. GoesTo(q, to)
      BY <1>6, <2>2 DEF WritesRow
    <3> HIDE DEF to
    <3> QED
      BY <2>2, <3>1, <3>2, ReaderGoes
  <2>3. CASE ~x.changed
    <3> DEFINE n == From(x.id + 1)
               written == x.rows \cup {Row(x.id)}
               to == [x EXCEPT !.rows = written, !.id = n]
    <3>1. /\ x.began = DOMAIN studentMap /\ x.id \in DOMAIN studentMap
          /\ IdsOf(x.rows) = {i \in DOMAIN studentMap : i < x.id}
          /\ TableRows \subseteq x.had /\ x.rows \subseteq x.had
      BY <2>1, <2>3 DEF QueryInv, IteratorIsInOrder
    <3>a. /\ Row(x.id) \in TableRows
          /\ x.rows \in SUBSET (Nat \X Student) /\ x.had \in SUBSET (Nat \X Student)
      BY <3>1 DEF TableRows, QueryState
    <3>b. /\ written \in SUBSET (Nat \X Student) /\ written \subseteq x.had
          /\ IdsOf(written) = IdsOf(x.rows) \cup {x.id}
      BY <1>0, <3>1, <3>a DEF IdsOf, Row
    <3>2. /\ n \in Nat
          /\ n = 0 => \A i \in DOMAIN studentMap : i < x.id + 1
          /\ n # 0 => /\ n \in DOMAIN studentMap /\ n >= x.id + 1
                      /\ \A j \in DOMAIN studentMap : j >= x.id + 1 => n <= j
      BY <1>0, <2>1, NextId
    <3>3. GoesTo(q, to)
      BY <1>6, <2>3 DEF WritesRow
    <3> HIDE DEF n, written
    <3>4. to \in QueryState /\ to.at = "iterate" /\ to.id = n /\ to.began = x.began
          /\ to.changed = x.changed /\ to.rows = written /\ to.had = x.had
      BY <2>1, <3>2, <3>b DEF QueryState
    <3>5. n = 0 => IdsOf(written) = DOMAIN studentMap
      <4>1. ASSUME n = 0, NEW i \in DOMAIN studentMap
            PROVE  i < x.id \/ i = x.id
        BY <1>0, <2>1, <3>2, <4>1
      <4> QED
        BY <3>1, <3>b, <4>1
    <3>6. n # 0 => IdsOf(written) = {i \in DOMAIN studentMap : i < n}
      BY <1>0, <2>1, <3>1, <3>2, <3>b
    <3> HIDE DEF to
    <3> QED
      BY <3>1, <3>2, <3>3, <3>4, <3>5, <3>6, <3>b, ReaderGoes
  <2> QED
    BY <2>1, <2>2, <2>3
<1>7. ASSUME NEW q \in Reader, WritesEnd(q)
      PROVE  QueryInv'
  <2> PICK x \in QueryState : x = query[q]
    BY <1>0
  <2> DEFINE to == [x EXCEPT !.at = "all"]
  <2>1. to \in QueryState /\ to.at = "all" /\ to.rows = x.rows /\ to.began = x.began
        /\ to.had = x.had
    BY DEF QueryState, QueryAt
  <2>2. GoesTo(q, to) /\ IdsOf(x.rows) = x.began /\ x.rows \subseteq x.had
    BY <1>7 DEF WritesEnd, QueryInv, IteratorIsInOrder
  <2> HIDE DEF to
  <2> QED
    BY <2>1, <2>2, ReaderGoes
<1>8. CASE UNCHANGED <<vars, query>>
  <2>1. /\ query' = query /\ studentMap' = studentMap /\ studentId' = studentId
        /\ call' = call
    BY <1>8 DEF vars
  <2> QED
    BY <2>1 DEF QueryInv, Rows, QueryType, FetchFindsRow, IteratorIsInOrder, TableRows, Row,
                 Answered
<1> QED
  BY <1>1, <1>2, <1>3, <1>4, <1>5, <1>6, <1>7, <1>8 DEF QueryNext

\* StudentService.getAllStudent and getOneStudentByStudentId, for any number of
\* requests, adders that race included: an answer to "all" has a row for each id that
\* the table had when its writing began, each as the table has had it since; such a
\* query fails only when ids came or went, and a success without a student needs a
\* delete of that student.
THEOREM QueriesAreOfTheTable == QuerySpec => []AnswersAreOfTheTable
<1>1. QueryInv => AnswersAreOfTheTable
  BY DEF QueryInv, Answered, AnswersAreOfTheTable
<1> QED
  BY <1>1, InitQueryInv, NextQueryInv, PTL DEF QuerySpec

-----------------------------------------------------------------------------
(* The upload directory.                                                   *)

UploadAt == {"new", "delete", "create", "write", "stored", "failed"}
UploadState == [at : UploadAt, name : FileName, early : BOOLEAN]
File == {NoFile, Old} \cup Upload
DownloadAt == {"new", "missing", "measure", "error", "open", "cut", "read", "whole"}
DownloadState == [at : DownloadAt, name : FileName, length : 0..Size, file : File,
                  calm : BOOLEAN]
Boot == {"quote", "walk", "init", "up", "closed"}

FilesType ==
    /\ root \in BOOLEAN
    /\ dir \in [FileName -> File]
    /\ len \in [Upload -> 0..Size]
    /\ boot \in Boot
    /\ todo \in SUBSET FileName
    /\ up \in [Upload -> UploadState]
    /\ down \in [Download -> DownloadState]

\* What an upload has written, and that only those taken are early.
Uploads ==
    \A u \in Upload :
        /\ up[u].at = "new" => ~up[u].early
        /\ up[u].at \in {"new", "delete", "create"} => len[u] = 0
        /\ up[u].at = "write" => len[u] < Size
        /\ up[u].at = "stored" => len[u] = Size

AnEarly == \E u \in Upload : up[u].early

\* While the application starts, who stores a file has come early; the walk has every
\* old file before it, and one of its files is gone only because of who came early.
Starts ==
    /\ root \/ Files!Present = {}
    /\ boot \notin {"up", "closed"} =>
          \A u \in Upload : up[u].at \notin {"new", "failed"} => up[u].early
    /\ boot # "walk" => todo = {}
    /\ boot = "walk" =>
          \A n \in FileName : /\ dir[n] = Old => n \in todo
                              /\ n \in todo => dir[n] # NoFile \/ AnEarly
    /\ boot \in {"init", "up"} => AnEarly \/ \A n \in FileName : dir[n] # Old
    /\ boot = "up" => root

\* A name that is stored has a file, unless an upload has deleted it and is about to
\* create its own, or has failed to.
Kept ==
    boot = "up" =>
        \A u \in Upload :
            up[u].at \in {"write", "stored"} /\ ~up[u].early =>
               \/ dir[up[u].name] # NoFile
               \/ up[u].name \in lost
               \/ \E v \in Upload : up[v].at = "create" /\ up[v].name = up[u].name

\* What an undisturbed download has seen is a whole file, and that file is still the
\* one of its name.
Calm(d) ==
    down[d].calm =>
       /\ Files!Whole(down[d].name)
       /\ down[d].at \in {"measure", "open", "read", "whole"}
       /\ down[d].at \in {"open", "read"} => down[d].length = Size
       /\ down[d].at = "read" => down[d].file = dir[down[d].name]

CalmIsWhole == \A d \in Download : Calm(d)

FilesInv == FilesType /\ Uploads /\ Starts /\ Kept /\ CalmIsWhole

-----------------------------------------------------------------------------
\* What the step of one upload changes.
UploadOnly(u) ==
    /\ up' \in [Upload -> UploadState]
    /\ up'[u].name = up[u].name /\ up'[u].early = up[u].early
    /\ \A v \in Upload \ {u} : up'[v] = up[v]

\* An upload that goes on keeps its name.
LEMMA UploadGoes ==
    ASSUME FilesType, NEW u \in Upload, NEW pc \in UploadAt, Files!Goes(u, pc)
    PROVE  UploadOnly(u) /\ up'[u].at = pc
<1>1. up \in [Upload -> UploadState]
    BY DEF FilesType
<1>2. [up[u] EXCEPT !.at = pc] \in UploadState
    BY <1>1 DEF UploadState
<1>3. QED
    BY <1>1, <1>2 DEF Files!Goes, UploadOnly, UploadState

\* An upload that fails before it has begun, or goes on where it is busy, disturbs no
\* download but those of its name, which no one then calls undisturbed.
LEMMA CalmStays ==
    ASSUME FilesInv, NEW u \in Upload, UploadOnly(u),
           up[u].at \notin {"stored", "failed"},
           up[u].at = "new" => up'[u].at = "failed" /\ dir' = dir,
           \A n \in FileName \ {up[u].name} : dir'[n] = dir[n],
           \A v \in Upload \ {u} : len'[v] = len[v],
           UNCHANGED <<boot, down>>
    PROVE  CalmIsWhole'
<1> SUFFICES ASSUME NEW d \in Download, down[d].calm
             PROVE  Calm(d)'
    BY DEF CalmIsWhole, Calm
<1> DEFINE n == down[d].name
<1>1. /\ n \in FileName /\ Files!Whole(n)
      /\ down[d].at \in {"measure", "open", "read", "whole"}
      /\ down[d].at \in {"open", "read"} => down[d].length = Size
      /\ down[d].at = "read" => down[d].file = dir[n]
    BY DEF FilesInv, FilesType, DownloadState, CalmIsWhole, Calm
<1>2. /\ up[u].at \in {"new", "delete", "create", "write"}
      /\ up'[u].at \in UploadAt
    BY DEF FilesInv, FilesType, UploadOnly, UploadState, UploadAt
<1>3. up[u].at = "new" \/ up[u].name # n
    BY <1>1, <1>2 DEF Files!Whole, Files!Busy, Files!Copies
<1>4. dir'[n] = dir[n]
    BY <1>1, <1>3
<1>5. ~Files!Busy(n)'
    BY <1>1, <1>3 DEF Files!Whole, Files!Busy, Files!Copies, UploadOnly
<1>6. Files!Whole(n)'
    BY <1>1, <1>2, <1>4, <1>5 DEF Files!Whole, UploadOnly
<1>7. QED
    BY <1>1, <1>4, <1>6 DEF Calm

\* A step of one upload that deletes a file only when it has been taken, and creates one
\* only in the root, leaves the start as it is.
LEMMA StartsStay ==
    ASSUME FilesInv, NEW u \in Upload, UploadOnly(u), UNCHANGED <<root, boot, todo>>,
           up[u].at \in {"new", "failed"} => up'[u].at \in {"new", "failed"},
           \A n \in FileName :
              \/ dir'[n] = dir[n]
              \/ dir'[n] = NoFile /\ up[u].at \notin {"new", "failed"}
              \/ dir'[n] \in Upload /\ root
    PROVE  Starts'
<1>1. \A v \in Upload : up'[v].early = up[v].early
    BY DEF UploadOnly
<1>2. AnEarly' = AnEarly
    BY <1>1 DEF AnEarly
<1>3. root \/ Files!Present' = {}
    BY ServicesAssumption DEF FilesInv, Starts, Files!Present
<1>4. \A n \in FileName : dir'[n] = Old => dir[n] = Old
    BY ServicesAssumption
<1>5. boot \notin {"up", "closed"} =>
          \A v \in Upload : up'[v].at \notin {"new", "failed"} => up'[v].early
    BY <1>1 DEF FilesInv, Starts, UploadOnly
<1>6. ASSUME boot = "walk", NEW n \in FileName, n \in todo
      PROVE  dir'[n] # NoFile \/ AnEarly
    BY <1>6, ServicesAssumption DEF FilesInv, Starts, AnEarly
<1>7. QED
    BY <1>2, <1>3, <1>4, <1>5, <1>6 DEF FilesInv, Starts

\* The step of an upload that is not about to create its file, and that changes no name,
\* keeps what is stored.
LEMMA KeptStays ==
    ASSUME FilesInv, NEW u \in Upload, UNCHANGED <<boot, dir, lost>>, up[u].at # "create",
           \A v \in Upload \ {u} : up'[v] = up[v],
           up'[u].at \in {"write", "stored"} =>
              /\ up[u].at \in {"write", "stored"}
              /\ up'[u].name = up[u].name /\ up'[u].early = up[u].early
    PROVE  Kept'
<1> SUFFICES ASSUME NEW w \in Upload, boot = "up", up'[w].at \in {"write", "stored"},
                    ~up'[w].early, dir[up'[w].name] = NoFile, up'[w].name \notin lost
             PROVE  \E v \in Upload : up'[v].at = "create" /\ up'[v].name = up'[w].name
    BY DEF Kept
<1>1. /\ up[w].at \in {"write", "stored"} /\ up'[w].name = up[w].name
      /\ up'[w].early = up[w].early
    OBVIOUS
<1>2. PICK v \in Upload : up[v].at = "create" /\ up[v].name = up[w].name
    BY <1>1 DEF FilesInv, Kept
<1>3. v # u
    BY <1>2
<1>4. QED
    BY <1>1, <1>2, <1>3

\* Nor is anything of this disturbed by a download that goes on.
LEMMA DownloadGoes ==
    ASSUME FilesInv, NEW d \in Download, NEW to \in DownloadState,
           down' = [down EXCEPT ![d] = to], UNCHANGED <<root, dir, len, boot, todo, up, lost>>,
           to.calm => /\ Files!Whole(to.name)
                      /\ to.at \in {"measure", "open", "read", "whole"}
                      /\ to.at \in {"open", "read"} => to.length = Size
                      /\ to.at = "read" => to.file = dir[to.name]
    PROVE  FilesInv'
<1>1. FilesType' /\ down'[d] = to /\ \A e \in Download \ {d} : down'[e] = down[e]
    BY DEF FilesInv, FilesType
<1>2. Uploads' /\ Starts' /\ Kept'
    BY DEF FilesInv, Uploads, Starts, Kept, AnEarly, Files!Present
<1>3. \A n : Files!Whole(n)' = Files!Whole(n)
    BY DEF Files!Whole, Files!Busy, Files!Copies
<1>4. CalmIsWhole'
    BY <1>1, <1>3 DEF FilesInv, CalmIsWhole, Calm
<1>5. QED
    BY <1>1, <1>2, <1>4 DEF FilesInv

-----------------------------------------------------------------------------
\* The initial states.
LEMMA FilesInit == Files!Init => FilesInv
<1> SUFFICES ASSUME Files!Init PROVE FilesInv
    OBVIOUS
<1> USE ServicesAssumption DEF Files!Init
<1>1. Files!AnyName \in FileName
    BY DEF Files!AnyName
<1>2. FilesType
    BY <1>1 DEF FilesType, UploadAt, UploadState, DownloadAt, DownloadState, File, Boot
<1>3. Uploads /\ Starts /\ Kept /\ CalmIsWhole
    BY DEF Uploads, Starts, Kept, CalmIsWhole, Calm, Files!Present
<1>4. QED
    BY <1>2, <1>3 DEF FilesInv

\* The start of the application.
LEMMA BootKeeps == FilesInv /\ Files!BootStep => FilesInv'
<1> SUFFICES ASSUME FilesInv, Files!BootStep PROVE FilesInv'
    OBVIOUS
<1> USE ServicesAssumption DEF FilesInv
<1>0. UNCHANGED <<len, up, down, lost>>
    BY DEF Files!BootStep
<1>1. CASE Files!QuoteFails
  <2>1. FilesType' /\ Uploads'
      BY <1>0, <1>1 DEF Files!QuoteFails, FilesType, File, Boot, Uploads
  <2>2. Starts'
      BY <1>0, <1>1
         DEF Files!QuoteFails, FilesType, Starts, Files!Present, AnEarly, UploadAt
  <2>3. Kept' /\ CalmIsWhole'
      BY <1>0, <1>1
         DEF Files!QuoteFails, FilesType, Starts, Kept, CalmIsWhole, Calm, Files!Whole,
             Files!Busy, Files!Copies
  <2>4. QED
      BY <2>1, <2>2, <2>3
<1>2. CASE Files!WalkStarts
  <2>1. FilesType' /\ Uploads'
      BY <1>0, <1>2
         DEF Files!WalkStarts, FilesType, File, Boot, Uploads, Files!Listed, Files!Present
  <2>2. Starts'
      BY <1>0, <1>2
         DEF Files!WalkStarts, FilesType, Starts, Files!Present, AnEarly, UploadAt,
             Files!Listed
  <2>3. Kept' /\ CalmIsWhole'
      BY <1>0, <1>2
         DEF Files!WalkStarts, FilesType, Starts, Kept, CalmIsWhole, Calm, Files!Whole,
             Files!Busy, Files!Copies
  <2>4. QED
      BY <2>1, <2>2, <2>3
<1>3. ASSUME NEW n \in FileName, Files!WalkSees(n) PROVE FilesInv'
  <2>1. FilesType' /\ Uploads'
      BY <1>0, <1>3 DEF Files!WalkSees, FilesType, File, Boot, Uploads
  <2>2. Starts'
      BY <1>0, <1>3 DEF Files!WalkSees, FilesType, Starts, Files!Present, AnEarly, UploadAt
  <2>3. Kept' /\ CalmIsWhole'
      BY <1>0, <1>3
         DEF Files!WalkSees, FilesType, Starts, Kept, CalmIsWhole, Calm, Files!Whole,
             Files!Busy, Files!Copies
  <2>4. QED
      BY <2>1, <2>2, <2>3
<1>4. ASSUME NEW n \in FileName, Files!WalkDeletes(n) PROVE FilesInv'
  <2>1. FilesType' /\ Uploads'
      BY <1>0, <1>4 DEF Files!WalkDeletes, FilesType, File, Boot, Uploads
  <2>2. Starts'
      BY <1>0, <1>4
         DEF Files!WalkDeletes, FilesType, Starts, Files!Present, AnEarly, UploadAt
  <2>3. Kept' /\ CalmIsWhole'
      BY <1>0, <1>4
         DEF Files!WalkDeletes, FilesType, Starts, Kept, CalmIsWhole, Calm, Files!Whole,
             Files!Busy, Files!Copies
  <2>4. QED
      BY <2>1, <2>2, <2>3
<1>5. ASSUME NEW n \in FileName, Files!WalkFails(n) PROVE FilesInv'
  <2>1. FilesType' /\ Uploads'
      BY <1>0, <1>5 DEF Files!WalkFails, FilesType, File, Boot, Uploads
  <2>2. Starts'
      BY <1>0, <1>5 DEF Files!WalkFails, FilesType, Starts, Files!Present, AnEarly, UploadAt
  <2>3. Kept' /\ CalmIsWhole'
      BY <1>0, <1>5
         DEF Files!WalkFails, FilesType, Starts, Kept, CalmIsWhole, Calm, Files!Whole,
             Files!Busy, Files!Copies
  <2>4. QED
      BY <2>1, <2>2, <2>3
<1>6. CASE Files!WalkEnds
  <2>1. FilesType' /\ Uploads'
      BY <1>0, <1>6 DEF Files!WalkEnds, FilesType, File, Boot, Uploads
  <2>2. Starts'
      BY <1>0, <1>6 DEF Files!WalkEnds, FilesType, Starts, Files!Present, AnEarly, UploadAt
  <2>3. Kept' /\ CalmIsWhole'
      BY <1>0, <1>6
         DEF Files!WalkEnds, FilesType, Starts, Kept, CalmIsWhole, Calm, Files!Whole,
             Files!Busy, Files!Copies
  <2>4. QED
      BY <2>1, <2>2, <2>3
<1>7. CASE Files!Inits
  <2>1. FilesType' /\ Uploads'
      BY <1>0, <1>7 DEF Files!Inits, FilesType, File, Boot, Uploads
  <2>2. Starts'
      BY <1>0, <1>7 DEF Files!Inits, FilesType, Starts, Files!Present, AnEarly, UploadAt
  <2>3. Kept' /\ CalmIsWhole'
      BY <1>0, <1>7
         DEF Files!Inits, FilesType, Starts, Kept, CalmIsWhole, Calm, Files!Whole,
             Files!Busy, Files!Copies
  <2>4. QED
      BY <2>1, <2>2, <2>3
<1>8. QED
    BY <1>1, <1>2, <1>3, <1>4, <1>5, <1>6, <1>7 DEF Files!BootStep

\* An upload.
LEMMA UploadKeeps ==
    ASSUME FilesInv, boot # "closed", UNCHANGED <<root, boot, todo>>, NEW u \in Upload,
           \/ Files!Refuses(u) \/ Files!DeletesExisting(u) \/ Files!Creates(u)
           \/ Files!Writes(u) \/ Files!CopyFails(u)
           \/ \E n \in FileName : Files!Accepts(u, n)
    PROVE  FilesInv'
<1> USE ServicesAssumption DEF FilesInv
<1>1. CASE Files!Refuses(u)
  <2>1. UploadOnly(u) /\ up'[u].at = "failed"
      BY <1>1, UploadGoes DEF Files!Refuses, UploadAt
  <2>2. FilesType'
      BY <1>1, <2>1 DEF Files!Refuses, FilesType, UploadOnly
  <2>3. Uploads' /\ Starts'
    <3>1. Uploads'
        BY <1>1, <2>1 DEF Files!Refuses, UploadOnly, Uploads
    <3>2. Starts'
        BY <1>1, <2>1, StartsStay DEF Files!Refuses
    <3>3. QED
        BY <3>1, <3>2
  <2>4. Kept'
      BY <1>1, <2>1, KeptStays DEF Files!Refuses, UploadOnly
  <2>5. CalmIsWhole'
      BY <1>1, <2>1, CalmStays DEF Files!Refuses
  <2>6. QED
      BY <2>2, <2>3, <2>4, <2>5
<1>2. ASSUME NEW n \in FileName, Files!Accepts(u, n) PROVE FilesInv'
  <2>1. [at |-> "delete", name |-> n, early |-> boot # "up"] \in UploadState
      BY DEF UploadState, UploadAt
  <2>2. up' \in [Upload -> UploadState] /\ UNCHANGED <<dir, len>>
      BY <1>2, <2>1 DEF Files!Accepts, FilesType
  <2>3. down' \in [Download -> DownloadState]
    <3>1. \A d \in Download : [down[d] EXCEPT !.calm = @ /\ down[d].name # n] \in DownloadState
        BY DEF FilesType, DownloadState
    <3>2. QED
        BY <1>2, <3>1 DEF Files!Accepts
  <2>4. FilesType'
      BY <2>2, <2>3 DEF FilesType
  <2>5. Uploads' /\ Starts'
      BY <1>2
         DEF Files!Accepts, FilesType, Uploads, Starts, AnEarly, Files!Present, UploadAt,
             UploadState
  <2>6. Kept'
    <3>1. /\ UNCHANGED <<dir, lost>> /\ up[u].at = "new" /\ up'[u].at = "delete"
          /\ \A v \in Upload \ {u} : up'[v] = up[v]
        BY <1>2 DEF Files!Accepts, FilesType
    <3>2. QED
        BY <3>1, KeptStays
  <2>7. CalmIsWhole'
    <3> SUFFICES ASSUME NEW d \in Download, down'[d].calm
                 PROVE  Calm(d)'
        BY DEF CalmIsWhole, Calm
    <3>1. /\ down'[d] = [down[d] EXCEPT !.calm = @ /\ down[d].name # n]
          /\ down[d] \in DownloadState
          /\ UNCHANGED <<dir, len>> /\ up[u].at = "new"
          /\ up'[u].name = n /\ up'[u].at = "delete"
          /\ \A v \in Upload \ {u} : up'[v] = up[v]
        BY <1>2 DEF Files!Accepts, FilesType
    <3>2. down[d].calm /\ down[d].name # n
        BY <3>1 DEF DownloadState
    <3>3. /\ down'[d].name = down[d].name /\ down'[d].at = down[d].at
          /\ down'[d].length = down[d].length /\ down'[d].file = down[d].file
        BY <3>1 DEF DownloadState
    <3>4. Files!Whole(down[d].name)'
        BY <3>1, <3>2 DEF CalmIsWhole, Calm, Files!Whole, Files!Busy, Files!Copies
    <3>5. QED
        BY <3>1, <3>2, <3>3, <3>4 DEF CalmIsWhole, Calm
  <2>8. QED
      BY <2>4, <2>5, <2>6, <2>7
<1>3. CASE Files!DeletesExisting(u)
  <2>1. UploadOnly(u) /\ up'[u].at = "create" /\ up[u].at = "delete" /\ up[u].name \in FileName
      BY <1>3, UploadGoes DEF Files!DeletesExisting, FilesType, UploadState, UploadAt
  <2>2. /\ dir' \in [FileName -> File] /\ dir'[up[u].name] = NoFile
        /\ \A n \in FileName \ {up[u].name} : dir'[n] = dir[n]
      BY <1>3, <2>1 DEF Files!DeletesExisting, FilesType, File
  <2>3. FilesType'
      BY <1>3, <2>1, <2>2 DEF Files!DeletesExisting, FilesType, UploadOnly
  <2>4. Uploads' /\ Starts'
    <3>1. Uploads'
        BY <1>3, <2>1 DEF Files!DeletesExisting, UploadOnly, Uploads, FilesType
    <3>2. Starts'
        BY <1>3, <2>1, <2>2, StartsStay DEF Files!DeletesExisting
    <3>3. QED
        BY <3>1, <3>2
  <2>5. Kept'
    <3> SUFFICES ASSUME NEW w \in Upload, boot = "up", up[w].at \in {"write", "stored"},
                        ~up[w].early, dir'[up[w].name] = NoFile, up[w].name \notin lost
                 PROVE  \E v \in Upload : up'[v].at = "create" /\ up'[v].name = up[w].name
        BY <1>3, <2>1 DEF Kept, UploadOnly, Files!DeletesExisting
    <3>1. CASE up[w].name = up[u].name
        BY <2>1, <3>1 DEF UploadOnly
    <3>2. CASE up[w].name # up[u].name
      <4>1. PICK v \in Upload : up[v].at = "create" /\ up[v].name = up[w].name
          BY <2>2, <3>2 DEF Kept, FilesType, UploadState
      <4>2. QED
          BY <2>1, <4>1 DEF UploadOnly
    <3>3. QED
        BY <3>1, <3>2
  <2>6. CalmIsWhole'
      BY <1>3, <2>1, <2>2, CalmStays DEF Files!DeletesExisting
  <2>7. QED
      BY <2>3, <2>4, <2>5, <2>6
<1>4. CASE Files!Creates(u)
  <2>1. UploadOnly(u) /\ up'[u].at = "write" /\ up[u].at = "create" /\ up[u].name \in FileName
      BY <1>4, UploadGoes DEF Files!Creates, FilesType, UploadState, UploadAt
  <2>2. /\ dir' \in [FileName -> File] /\ dir'[up[u].name] = u
        /\ \A n \in FileName \ {up[u].name} : dir'[n] = dir[n]
      BY <1>4, <2>1 DEF Files!Creates, FilesType, File
  <2>3. FilesType'
      BY <1>4, <2>1, <2>2 DEF Files!Creates, FilesType, UploadOnly
  <2>4. Uploads' /\ Starts'
    <3>1. Uploads'
        BY <1>4, <2>1 DEF Files!Creates, UploadOnly, Uploads, FilesType
    <3>2. Starts'
        BY <1>4, <2>1, <2>2, StartsStay DEF Files!Creates
    <3>3. QED
        BY <3>1, <3>2
  <2>5. Kept'
    <3> SUFFICES ASSUME NEW w \in Upload, boot = "up", up'[w].at \in {"write", "stored"},
                        ~up'[w].early, dir'[up'[w].name] = NoFile, up'[w].name \notin lost'
                 PROVE  \E v \in Upload : up'[v].at = "create" /\ up'[v].name = up'[w].name
        BY <1>4 DEF Kept
    <3>1. /\ up'[w].name # up[u].name /\ w # u /\ up'[w] = up[w]
          /\ up'[w].name \notin lost
        BY <1>4, <2>1, <2>2 DEF UploadOnly, Files!Creates
    <3>2. PICK v \in Upload : up[v].at = "create" /\ up[v].name = up[w].name
        BY <2>2, <3>1 DEF Kept, FilesType, UploadState
    <3>3. QED
        BY <2>1, <3>1, <3>2 DEF UploadOnly
  <2>6. CalmIsWhole'
      BY <1>4, <2>1, <2>2, CalmStays DEF Files!Creates
  <2>7. QED
      BY <2>3, <2>4, <2>5, <2>6
<1>5. CASE Files!CopyFails(u)
  <2>1. /\ UploadOnly(u) /\ up'[u].at = "failed" /\ up[u].name \in FileName
        /\ up[u].at \in {"delete", "create", "write"}
      BY <1>5, UploadGoes DEF Files!CopyFails, Files!Copies, FilesType, UploadState, UploadAt
  <2>2. /\ UNCHANGED <<dir, len, down>> /\ lost \subseteq lost'
        /\ up[u].at = "create" => dir[up[u].name] # NoFile \/ up[u].name \in lost'
      BY <1>5 DEF Files!CopyFails
  <2>3. FilesType'
      BY <2>1, <2>2 DEF FilesType, UploadOnly
  <2>4. Uploads' /\ Starts'
    <3>1. Uploads'
        BY <2>1, <2>2 DEF UploadOnly, Uploads
    <3>2. Starts'
        BY <2>1, <2>2, StartsStay
    <3>3. QED
        BY <3>1, <3>2
  <2>5. Kept'
    <3> SUFFICES ASSUME NEW w \in Upload, boot = "up", up'[w].at \in {"write", "stored"},
                        ~up'[w].early, dir[up'[w].name] = NoFile, up'[w].name \notin lost'
                 PROVE  \E v \in Upload : up'[v].at = "create" /\ up'[v].name = up'[w].name
        BY <2>2 DEF Kept
    <3>1. w # u /\ up'[w] = up[w] /\ up[w].name \notin lost
        BY <2>1, <2>2 DEF UploadOnly
    <3>2. PICK v \in Upload : up[v].at = "create" /\ up[v].name = up[w].name
        BY <3>1 DEF Kept
    <3>3. v # u
        BY <2>2, <3>1, <3>2
    <3>4. QED
        BY <2>1, <3>1, <3>2, <3>3 DEF UploadOnly
  <2>6. CalmIsWhole'
      BY <2>1, <2>2, CalmStays
  <2>7. QED
      BY <2>3, <2>4, <2>5, <2>6
<1>6. CASE Files!Writes(u)
  <2>1. /\ up[u].at = "write" /\ len[u] \in 0..Size /\ len[u] < Size
        /\ len' = [len EXCEPT ![u] = @ + 1] /\ UNCHANGED <<dir, down, lost>>
        /\ Files!Goes(u, IF len[u] + 1 = Size THEN "stored" ELSE "write")
      BY <1>6 DEF Files!Writes, FilesType, Uploads
  <2>2. UploadOnly(u) /\ up'[u].at = IF len[u] + 1 = Size THEN "stored" ELSE "write"
    <3>1. (IF len[u] + 1 = Size THEN "stored" ELSE "write") \in UploadAt
        BY DEF UploadAt
    <3>2. QED
        BY <2>1, <3>1, UploadGoes
  <2>3. /\ len' \in [Upload -> 0..Size] /\ len'[u] = len[u] + 1
        /\ \A v \in Upload \ {u} : len'[v] = len[v]
      BY <2>1 DEF FilesType
  <2>4. FilesType'
      BY <2>1, <2>2, <2>3 DEF FilesType, UploadOnly
  <2>5. Uploads'
      BY <2>1, <2>2, <2>3 DEF Uploads, UploadOnly, FilesType
  <2>6. Starts'
      BY <2>1, <2>2, StartsStay
  <2>7. Kept'
      BY <2>1, <2>2, KeptStays DEF UploadOnly
  <2>8. CalmIsWhole'
      BY <2>1, <2>2, <2>3, CalmStays
  <2>9. QED
      BY <2>4, <2>5, <2>6, <2>7, <2>8
<1>7. QED
    BY <1>1, <1>2, <1>3, <1>4, <1>5, <1>6

\* A download.
LEMMA DownloadKeeps ==
    ASSUME FilesInv, UNCHANGED <<root, boot, todo, dir, len, up, lost>>, NEW d \in Download,
           \/ Files!Measures(d) \/ Files!Opens(d) \/ Files!Reads(d)
           \/ \E n \in FileName : Files!LoadAsResource(d, n)
    PROVE  FilesInv'
<1>0. PICK x \in DownloadState : x = down[d]
    BY DEF FilesInv, FilesType
<1>a. x.calm => /\ Files!Whole(x.name)
                /\ x.at \in {"measure", "open", "read", "whole"}
                /\ x.at \in {"open", "read"} => x.length = Size
                /\ x.at = "read" => x.file = dir[x.name]
    BY <1>0 DEF FilesInv, CalmIsWhole, Calm
<1>b. Size \in Nat /\ Size > 0 /\ x.name \in FileName
    BY ServicesAssumption DEF DownloadState
<1>c. \A n \in FileName : /\ dir[n] \in File
                          /\ dir[n] # NoFile => Files!Length(dir[n]) \in 0..Size
                          /\ Files!Whole(n) => dir[n] # NoFile /\ Files!Length(dir[n]) = Size
    BY ServicesAssumption DEF FilesInv, FilesType, Uploads, File, Files!Length, Files!Whole
<1>1. CASE Files!Measures(d)
  <2>1. CASE dir[x.name] = NoFile
    <3> DEFINE to == [x EXCEPT !.at = "error"]
    <3>1. to \in DownloadState /\ to.calm = x.calm
        BY DEF DownloadState, DownloadAt
    <3>2. down' = [down EXCEPT ![d] = to]
        BY <1>0, <1>1, <2>1 DEF Files!Measures
    <3>3. ~x.calm
        BY <1>a, <1>b, <1>c, <2>1
    <3> HIDE DEF to
    <3>4. QED
        BY <3>1, <3>2, <3>3, DownloadGoes
  <2>2. CASE dir[x.name] # NoFile
    <3> DEFINE to == [x EXCEPT !.at = "open", !.length = Files!Length(dir[x.name])]
    <3>1. /\ to \in DownloadState /\ to.calm = x.calm /\ to.name = x.name /\ to.at = "open"
          /\ to.length = Files!Length(dir[x.name])
        BY <1>b, <1>c, <2>2 DEF DownloadState, DownloadAt
    <3>2. down' = [down EXCEPT ![d] = to]
        BY <1>0, <1>1, <2>2 DEF Files!Measures
    <3> HIDE DEF to
    <3>3. QED
        BY <1>a, <1>b, <1>c, <3>1, <3>2, DownloadGoes
  <2>3. QED
      BY <2>1, <2>2
<1>2. CASE Files!Opens(d)
  <2>1. CASE dir[x.name] = NoFile
    <3> DEFINE to == [x EXCEPT !.at = "cut"]
    <3>1. to \in DownloadState /\ to.calm = x.calm
        BY DEF DownloadState, DownloadAt
    <3>2. down' = [down EXCEPT ![d] = to]
        BY <1>0, <1>2, <2>1 DEF Files!Opens
    <3>3. ~x.calm
        BY <1>a, <1>b, <1>c, <2>1
    <3> HIDE DEF to
    <3>4. QED
        BY <3>1, <3>2, <3>3, DownloadGoes
  <2>2. CASE dir[x.name] # NoFile
    <3> DEFINE to == [x EXCEPT !.at = "read", !.file = dir[x.name]]
    <3>0. x.at = "open"
        BY <1>0, <1>2 DEF Files!Opens
    <3>1. /\ to \in DownloadState /\ to.calm = x.calm /\ to.name = x.name /\ to.at = "read"
          /\ to.length = x.length /\ to.file = dir[x.name]
        BY <1>b, <1>c DEF DownloadState, DownloadAt
    <3>2. down' = [down EXCEPT ![d] = to]
        BY <1>0, <1>2, <2>2 DEF Files!Opens
    <3> HIDE DEF to
    <3>3. QED
        BY <1>a, <3>0, <3>1, <3>2, DownloadGoes
  <2>3. QED
      BY <2>1, <2>2
<1>3. CASE Files!Reads(d)
  <2> DEFINE to == [x EXCEPT !.at = IF x.length = Size /\ Files!Length(x.file) = Size
                                    THEN "whole" ELSE "cut"]
  <2>1. /\ to \in DownloadState /\ to.calm = x.calm /\ to.name = x.name
        /\ to.at = IF x.length = Size /\ Files!Length(x.file) = Size THEN "whole" ELSE "cut"
      BY DEF DownloadState, DownloadAt
  <2>2. down' = [down EXCEPT ![d] = to] /\ x.at = "read"
      BY <1>0, <1>3 DEF Files!Reads
  <2>3. x.calm => to.at = "whole"
      BY <1>a, <1>b, <1>c, <2>1, <2>2
  <2> HIDE DEF to
  <2>4. QED
      BY <1>a, <2>1, <2>2, <2>3, DownloadGoes
<1>4. ASSUME NEW n \in FileName, Files!LoadAsResource(d, n) PROVE FilesInv'
  <2> DEFINE to == [at |-> IF dir[n] = NoFile THEN "missing" ELSE "measure", name |-> n,
                    length |-> 0, file |-> NoFile, calm |-> Files!Whole(n)]
  <2>1. Files!Whole(n) \in BOOLEAN
      BY DEF Files!Whole, Files!Busy, Files!Copies
  <2>2. /\ to \in DownloadState /\ to.name = n /\ to.calm = Files!Whole(n)
        /\ to.at = IF dir[n] = NoFile THEN "missing" ELSE "measure"
      BY <1>b, <2>1 DEF DownloadState, DownloadAt, File
  <2>3. down' = [down EXCEPT ![d] = to]
      BY <1>4 DEF Files!LoadAsResource
  <2> HIDE DEF to
  <2>4. QED
      BY <1>c, <2>2, <2>3, DownloadGoes
<1>5. QED
    BY <1>1, <1>2, <1>3, <1>4

\* Every step.
LEMMA FilesNext == FilesInv /\ [Files!Next]_Files!vars => FilesInv'
<1>1. FilesInv /\ Files!RequestStep => FilesInv'
    BY UploadKeeps, DownloadKeeps DEF Files!RequestStep
<1>2. FilesInv /\ UNCHANGED Files!vars => FilesInv'
    BY DEF Files!vars, FilesInv, FilesType, Uploads, Starts, Kept, CalmIsWhole, Calm,
           Files!Present, AnEarly, Files!Whole, Files!Busy, Files!Copies
<1>3. QED
    BY <1>1, <1>2, BootKeeps DEF Files!Next

\* What the run checks follows from it.
LEMMA FilesInvImplies ==
    FilesInv => Files!StoredIsKept /\ Files!OldFilesGo /\ Files!UndisturbedIsWhole
<1> SUFFICES ASSUME FilesInv
             PROVE  Files!StoredIsKept /\ Files!OldFilesGo /\ Files!UndisturbedIsWhole
    OBVIOUS
<1>1. Files!StoredIsKept
    BY DEF FilesInv, Kept, Files!StoredIsKept, Files!Busy, Files!Copies
<1>2. Files!OldFilesGo
    BY DEF FilesInv, Starts, Files!OldFilesGo, AnEarly
<1>3. Files!UndisturbedIsWhole
    BY DEF FilesInv, CalmIsWhole, Calm, Files!UndisturbedIsWhole
<1>4. QED
    BY <1>1, <1>2, <1>3

-----------------------------------------------------------------------------
(* The user details of a login.                                            *)

\* A role is in the list.
RoleInList(role) == \E p \in 1..size : elementData[p] = role

LoginAt == {"idle", "add", "count", "size", "store", "grow", "copy", "answered", "failed"}
LoginState ==
    [at : LoginAt, user : DOMAIN Roles \cup {Stranger}, i : Nat, read : Nat,
     has : SUBSET STRING, alone : BOOLEAN, met : BOOLEAN]

UsersType ==
    /\ elementData \in Seq(STRING) /\ size \in Nat /\ modCount \in Nat
    /\ login \in [Login -> LoginState]

\* A login that adds has a role to add, and the list is never shorter than its size
\* says, also where logins overwrote each other's.
Filled(l) ==
    /\ login[l].at \in {"add", "count", "size", "store", "grow", "copy"} =>
          login[l].user \in DOMAIN Roles
    /\ login[l].at = "add" => login[l].i <= Len(Roles[login[l].user])
    /\ login[l].at \in {"count", "size", "store", "grow"} =>
          login[l].i < Len(Roles[login[l].user])
    /\ login[l].at = "store" => login[l].read <= Len(elementData)
    /\ login[l].at = "grow" => login[l].read < Len(elementData)

\* A login that has been alone since it began is the only one under way, ...
OneLogin(l) ==
    login[l].alone /\ Users!UnderWay(l) => \A m \in Login \ {l} : ~Users!UnderWay(m)

\* ... what it has read of the list is so, the roles it has added are in the list, ...
AddsInOrder(l) ==
    login[l].alone /\ login[l].at \in {"add", "count", "size", "store", "grow"} =>
        /\ \A j \in 1..login[l].i : RoleInList(Roles[login[l].user][j])
        /\ login[l].at \in {"store", "grow"} => login[l].read = size
        /\ login[l].at = "grow" => elementData[size + 1] = Roles[login[l].user][login[l].i + 1]

\* ... its iterator has what it has passed, ...
CopiesAll(l) ==
    login[l].alone /\ login[l].at = "copy" =>
        /\ login[l].read = modCount /\ login[l].i <= size
        /\ \A j \in DOMAIN Roles[login[l].user] : RoleInList(Roles[login[l].user][j])
        /\ \A p \in 1..login[l].i : elementData[p] \in login[l].has

\* ... and it is answered.
IsAnswered(l) ==
    login[l].alone /\ login[l].at = "answered" =>
        \A j \in DOMAIN Roles[login[l].user] : Roles[login[l].user][j] \in login[l].has

UsersInv ==
    /\ UsersType /\ size <= Len(elementData)
    /\ \A l \in Login : Filled(l) /\ OneLogin(l) /\ AddsInOrder(l) /\ CopiesAll(l) /\ IsAnswered(l)

-----------------------------------------------------------------------------
\* The initial state.
LEMMA UsersInit == Users!Init => UsersInv
BY DEF Users!Init, UsersInv, UsersType, LoginState, LoginAt, Filled, OneLogin,
       Users!UnderWay, Users!Over, AddsInOrder, CopiesAll, IsAnswered

\* A login that begins ends the solitude of those under way.
LEMMA LoginBegins ==
    ASSUME UsersInv, NEW l \in Login, NEW user \in DOMAIN Roles \cup {Stranger},
           Users!Begins(l, user)
    PROVE  UsersInv'
<1> DEFINE to == [at |-> IF user = Stranger THEN "failed" ELSE "add", user |-> user, i |-> 0,
                  read |-> 0, has |-> {}, alone |-> \A m \in Login \ {l} : ~Users!UnderWay(m),
                  met |-> FALSE]
           from(k) == [login[k] EXCEPT !.alone = @ /\ ~Users!UnderWay(k)]
<1>1. /\ ~Users!UnderWay(l) /\ UNCHANGED <<elementData, size, modCount>>
      /\ login' = [k \in Login |-> IF k = l THEN to ELSE from(k)]
    BY DEF Users!Begins, Users!Enters, Users!ListStays
<1>2. login \in [Login -> LoginState] /\ elementData \in Seq(STRING)
    BY DEF UsersInv, UsersType
<1>3. /\ to \in LoginState /\ to.user = user /\ to.i = 0
      /\ to.at = IF user = Stranger THEN "failed" ELSE "add"
      /\ to.alone <=> \A m \in Login \ {l} : ~Users!UnderWay(m)
    BY DEF LoginState, LoginAt, Users!UnderWay, Users!Over
<1>4. ASSUME NEW k \in Login \ {l}
      PROVE  /\ from(k) \in LoginState /\ from(k).at = login[k].at
             /\ from(k).user = login[k].user /\ from(k).i = login[k].i
             /\ from(k).read = login[k].read /\ from(k).has = login[k].has
             /\ from(k).alone <=> login[k].alone /\ ~Users!UnderWay(k)
    BY <1>2, <1>4 DEF LoginState
<1> HIDE DEF to, from
<1>5. /\ login'[l] = to
      /\ \A k \in Login \ {l} : login'[k] = from(k)
    BY <1>1
<1>6. UsersType'
    BY <1>1, <1>3, <1>4 DEF UsersInv, UsersType
<1>7. Filled(l)' /\ OneLogin(l)' /\ AddsInOrder(l)' /\ CopiesAll(l)' /\ IsAnswered(l)'
  <2>1. to.at = "add" => user \in DOMAIN Roles /\ Len(Roles[user]) \in Nat
      BY <1>3, ServicesAssumption
  <2>2. OneLogin(l)'
      BY <1>3, <1>4, <1>5 DEF OneLogin, Users!UnderWay
  <2>3. QED
      BY <1>3, <1>5, <2>1, <2>2 DEF Filled, AddsInOrder, CopiesAll, IsAnswered
<1>8. ASSUME NEW k \in Login \ {l}
      PROVE  Filled(k)' /\ OneLogin(k)' /\ AddsInOrder(k)' /\ CopiesAll(k)' /\ IsAnswered(k)'
  <2>1. /\ login'[k].at = login[k].at /\ login'[k].user = login[k].user
        /\ login'[k].i = login[k].i /\ login'[k].read = login[k].read
        /\ login'[k].has = login[k].has
        /\ login'[k].alone <=> login[k].alone /\ ~Users!UnderWay(k)
      BY <1>4, <1>5, <1>8
  <2>2. Users!UnderWay(k)' = Users!UnderWay(k)
      BY <2>1 DEF Users!UnderWay
  <2>3. OneLogin(k)'
      BY <2>1, <2>2 DEF OneLogin
  <2>4. Filled(k)' /\ IsAnswered(k)'
      BY <1>1, <1>8, <2>1 DEF UsersInv, Filled, IsAnswered
  <2>5. AddsInOrder(k)' /\ CopiesAll(k)'
      BY <2>1 DEF AddsInOrder, CopiesAll, Users!UnderWay, Users!Over
  <2>6. QED
      BY <2>3, <2>4, <2>5
<1>9. QED
    BY <1>1, <1>6, <1>7, <1>8 DEF UsersInv

\* A login that goes on was under way: no other that is under way has been alone.
LEMMA LoginSteps ==
    ASSUME UsersInv, NEW l \in Login, Users!UnderWay(l), NEW to \in LoginState,
           login' \in [Login -> LoginState], login'[l] = to,
           \A m \in Login \ {l} :
              /\ login'[m].at = login[m].at /\ login'[m].user = login[m].user
              /\ login'[m].i = login[m].i /\ login'[m].read = login[m].read
              /\ login'[m].has = login[m].has /\ login'[m].alone = login[m].alone,
           to.alone = login[l].alone,
           elementData' \in Seq(STRING), size' \in Nat, modCount' \in Nat,
           size' <= Len(elementData'), Len(elementData) <= Len(elementData'),
           Filled(l)', AddsInOrder(l)', CopiesAll(l)', IsAnswered(l)'
    PROVE  UsersInv'
<1>1. /\ login \in [Login -> LoginState] /\ login' \in [Login -> LoginState]
      /\ login'[l] = to
      /\ Len(elementData) \in Nat /\ Len(elementData') \in Nat
    BY DEF UsersInv, UsersType
<1>2. OneLogin(l)'
  <2>1. Users!UnderWay(l) /\ to.alone = login[l].alone /\ login[l].alone \in BOOLEAN
      BY <1>1 DEF LoginState
  <2>2. login[l].alone => \A m \in Login \ {l} : ~Users!UnderWay(m)
      BY <2>1 DEF UsersInv, OneLogin
  <2>3. \A m \in Login \ {l} : ~Users!UnderWay(m) => ~Users!UnderWay(m)'
      BY DEF Users!UnderWay
  <2>4. QED
      BY <1>1, <2>1, <2>2, <2>3 DEF OneLogin
<1>3. ASSUME NEW m \in Login \ {l}
      PROVE  Filled(m)' /\ OneLogin(m)' /\ AddsInOrder(m)' /\ CopiesAll(m)' /\ IsAnswered(m)'
  <2>1. ~(login[m].alone /\ Users!UnderWay(m))
      BY <1>3 DEF UsersInv, OneLogin
  <2>2. /\ login'[m].at = login[m].at /\ login'[m].user = login[m].user
        /\ login'[m].i = login[m].i /\ login'[m].read = login[m].read
        /\ login'[m].has = login[m].has /\ login'[m].alone = login[m].alone
        /\ login[m].read \in Nat
      BY <1>1, <1>3 DEF LoginState
  <2>3. Filled(m)'
      BY <1>1, <1>3, <2>2 DEF UsersInv, Filled
  <2>4. OneLogin(m)' /\ AddsInOrder(m)' /\ CopiesAll(m)'
      BY <2>1, <2>2 DEF OneLogin, AddsInOrder, CopiesAll, Users!UnderWay, Users!Over
  <2>5. IsAnswered(m)'
      BY <1>3, <2>2 DEF UsersInv, IsAnswered
  <2>6. QED
      BY <2>3, <2>4, <2>5
<1>4. QED
    BY <1>1, <1>2, <1>3 DEF UsersInv, UsersType

LEMMA LoginGoes ==
    ASSUME UsersInv, NEW l \in Login, Users!UnderWay(l), NEW to \in LoginState, Users!Goes(l, to),
           to.alone = login[l].alone,
           elementData' \in Seq(STRING), size' \in Nat, modCount' \in Nat,
           size' <= Len(elementData'), Len(elementData) <= Len(elementData'),
           Filled(l)', AddsInOrder(l)', CopiesAll(l)', IsAnswered(l)'
    PROVE  UsersInv'
<1>1. login \in [Login -> LoginState]
    BY DEF UsersInv, UsersType
<1>2. /\ login' \in [Login -> LoginState] /\ login'[l] = to
      /\ \A m \in Login \ {l} : login'[m] = login[m]
    BY <1>1 DEF Users!Goes
<1>3. QED
    BY <1>2, LoginSteps

\* Every step of a login under way.
LEMMA LoginKeeps ==
    ASSUME UsersInv, NEW l \in Login,
           \/ Users!AddReadsCount(l) \/ Users!AddCounts(l) \/ Users!AddReadsSize(l)
           \/ Users!AddStores(l) \/ Users!AddGrows(l)
           \/ Users!CopyBegins(l) \/ Users!CopyFails(l) \/ Users!Copies(l) \/ Users!Answers(l)
    PROVE  UsersInv'
<1> DEFINE user == login[l].user
           i == login[l].i
<1>0. /\ login \in [Login -> LoginState] /\ login[l] \in LoginState
      /\ elementData \in Seq(STRING) /\ size \in Nat /\ modCount \in Nat
      /\ size <= Len(elementData) /\ Len(elementData) \in Nat
      /\ Filled(l) /\ OneLogin(l) /\ AddsInOrder(l) /\ CopiesAll(l) /\ IsAnswered(l)
    BY DEF UsersInv, UsersType
<1>1. ASSUME NEW pc \in LoginAt, NEW n \in Nat, NEW read \in Nat, NEW has \in SUBSET STRING
      PROVE  /\ Users!At(pc, l, n, read, has) \in LoginState
             /\ Users!At(pc, l, n, read, has).at = pc /\ Users!At(pc, l, n, read, has).user = user
             /\ Users!At(pc, l, n, read, has).i = n /\ Users!At(pc, l, n, read, has).read = read
             /\ Users!At(pc, l, n, read, has).has = has
             /\ Users!At(pc, l, n, read, has).alone = login[l].alone
    BY <1>0 DEF Users!At, LoginState
<1>2. \A to \in LoginState : Users!Goes(l, to) => login'[l] = to
    BY <1>0 DEF Users!Goes
<1>3. user \in DOMAIN Roles => /\ Roles[user] \in Seq(STRING) /\ Len(Roles[user]) \in Nat
                               /\ DOMAIN Roles[user] = 1..Len(Roles[user])
    BY ServicesAssumption
<1>4. /\ i \in Nat /\ i + 1 \in Nat /\ login[l].read \in Nat /\ login[l].has \in SUBSET STRING
      /\ {} \in SUBSET STRING /\ 0 \in Nat
    BY <1>0 DEF LoginState
<1>5. ASSUME NEW pc \in LoginAt, NEW n \in Nat, NEW read \in Nat, NEW has \in SUBSET STRING,
             Users!Goes(l, Users!At(pc, l, n, read, has)), Users!ListStays, Users!UnderWay(l),
             Filled(l)', AddsInOrder(l)', CopiesAll(l)', IsAnswered(l)'
      PROVE  UsersInv'
    BY <1>0, <1>1, <1>5, LoginGoes DEF Users!ListStays
<1>6. CASE Users!AddReadsCount(l)
  <2> DEFINE to == Users!At("count", l, i, modCount, {})
           other(k) == [login[k] EXCEPT !.met = @ \/ login[k].at = "copy"]
  <2>1. /\ login[l].at = "add" /\ i < Len(Roles[user]) /\ Users!ListStays
        /\ login' = [k \in Login |-> IF k = l THEN to ELSE other(k)]
      BY <1>6 DEF Users!AddReadsCount
  <2>2. /\ to \in LoginState /\ to.at = "count" /\ to.i = i /\ to.user = user
        /\ to.alone = login[l].alone /\ login'[l] = to
      BY <1>0, <1>1, <1>4, <2>1 DEF LoginAt
  <2>a. ASSUME NEW k \in Login \ {l}
        PROVE  /\ other(k) \in LoginState /\ login'[k] = other(k)
               /\ other(k).at = login[k].at /\ other(k).user = login[k].user
               /\ other(k).i = login[k].i /\ other(k).read = login[k].read
               /\ other(k).has = login[k].has /\ other(k).alone = login[k].alone
    <3>1. login[k] \in LoginState
        BY <1>0
    <3>2. login'[k] = other(k)
        BY <2>1
    <3>3. QED
        BY <3>1, <3>2 DEF LoginState
  <2>3. Filled(l)' /\ AddsInOrder(l)' /\ CopiesAll(l)' /\ IsAnswered(l)'
      BY <1>0, <2>1, <2>2
         DEF Filled, AddsInOrder, CopiesAll, IsAnswered, RoleInList, Users!ListStays
  <2> HIDE DEF to, other
  <2>4. login' \in [Login -> LoginState]
      BY <2>1, <2>2, <2>a
  <2>5. QED
      BY <1>0, <2>1, <2>2, <2>3, <2>4, <2>a, LoginSteps
         DEF Users!UnderWay, Users!Over, Users!ListStays
<1>7. CASE Users!AddCounts(l)
  <2> DEFINE to == Users!At("size", l, i, 0, {})
  <2>1. /\ login[l].at = "count" /\ Users!Goes(l, to) /\ modCount' = login[l].read + 1
        /\ UNCHANGED <<elementData, size>>
      BY <1>7 DEF Users!AddCounts
  <2>2. /\ to \in LoginState /\ to.at = "size" /\ to.i = i /\ to.user = user
        /\ to.alone = login[l].alone /\ login'[l] = to
      BY <1>1, <1>2, <1>4, <2>1 DEF LoginAt
  <2>3. Filled(l)' /\ AddsInOrder(l)' /\ CopiesAll(l)' /\ IsAnswered(l)'
      BY <1>0, <2>1, <2>2 DEF Filled, AddsInOrder, CopiesAll, IsAnswered, RoleInList
  <2>4. QED
      BY <1>0, <1>4, <2>1, <2>2, <2>3, LoginGoes DEF Users!UnderWay, Users!Over
<1>8. CASE Users!AddReadsSize(l)
  <2> DEFINE to == Users!At("store", l, i, size, {})
  <2>1. login[l].at = "size" /\ Users!Goes(l, to) /\ Users!ListStays
      BY <1>8 DEF Users!AddReadsSize
  <2>2. /\ to \in LoginState /\ to.at = "store" /\ to.i = i /\ to.user = user /\ to.read = size
        /\ to.alone = login[l].alone /\ login'[l] = to
      BY <1>0, <1>1, <1>2, <1>4, <2>1 DEF LoginAt
  <2>3. Filled(l)' /\ AddsInOrder(l)' /\ CopiesAll(l)' /\ IsAnswered(l)'
      BY <1>0, <2>1, <2>2
         DEF Filled, AddsInOrder, CopiesAll, IsAnswered, RoleInList, Users!ListStays
  <2>4. QED
      BY <1>0, <1>4, <1>5, <2>1, <2>3 DEF LoginAt, Users!UnderWay, Users!Over
<1>9. CASE Users!AddStores(l)
  <2> DEFINE to == Users!At("grow", l, i, login[l].read, {})
             n == login[l].read + 1
             role == Roles[user][i + 1]
  <2>1. /\ login[l].at = "store" /\ Users!Goes(l, to) /\ UNCHANGED <<size, modCount>>
        /\ elementData' = IF n > Len(elementData) THEN Append(elementData, role)
                                                  ELSE [elementData EXCEPT ![n] = role]
      BY <1>9 DEF Users!AddStores
  <2>2. /\ to \in LoginState /\ to.at = "grow" /\ to.i = i /\ to.user = user
        /\ to.read = login[l].read /\ to.alone = login[l].alone /\ login'[l] = to
      BY <1>1, <1>2, <1>4, <2>1 DEF LoginAt
  <2>3. role \in STRING /\ n \in 1..Len(elementData) + 1
      BY <1>0, <1>3, <1>4, <2>1 DEF Filled
  <2>4. /\ elementData' \in Seq(STRING) /\ elementData'[n] = role
        /\ Len(elementData') \in Nat /\ Len(elementData) <= Len(elementData')
        /\ n <= Len(elementData')
        /\ \A p \in 1..Len(elementData) : p # n => elementData'[p] = elementData[p]
    <3>1. CASE n > Len(elementData)
      <4>1. elementData' = Append(elementData, role) /\ n = Len(elementData) + 1
          BY <1>0, <2>1, <2>3, <3>1
      <4>2. QED
          BY <1>0, <2>3, <4>1
    <3>2. CASE n <= Len(elementData)
        BY <1>0, <2>1, <2>3, <3>2
    <3>3. QED
        BY <1>0, <2>3, <3>1, <3>2
  <2>5. Filled(l)'
      BY <1>0, <1>4, <2>1, <2>2, <2>4 DEF Filled
  <2>6. AddsInOrder(l)'
    <3> SUFFICES ASSUME login[l].alone
                 PROVE  /\ \A j \in 1..i : RoleInList(Roles[user][j])'
                        /\ login[l].read = size /\ elementData'[size + 1] = role
        BY <2>1, <2>2 DEF AddsInOrder
    <3>1. login[l].read = size /\ \A j \in 1..i : RoleInList(Roles[user][j])
        BY <1>0, <2>1 DEF AddsInOrder
    <3>2. \A p \in 1..size : elementData'[p] = elementData[p]
        BY <1>0, <2>4, <3>1
    <3>3. ASSUME NEW j \in 1..i PROVE RoleInList(Roles[user][j])'
      <4>1. PICK p \in 1..size : elementData[p] = Roles[user][j]
          BY <3>1 DEF RoleInList
      <4>2. p \in 1..size' /\ elementData'[p] = Roles[user][j] /\ login'[l].user = user
          BY <2>1, <2>2, <3>2, <4>1
      <4>3. QED
          BY <4>2 DEF RoleInList
    <3>4. QED
        BY <2>4, <3>1, <3>3
  <2>7. CopiesAll(l)' /\ IsAnswered(l)'
      BY <2>2 DEF CopiesAll, IsAnswered
  <2>8. Users!UnderWay(l) /\ size' \in Nat /\ size' <= Len(elementData') /\ modCount' \in Nat
      BY <1>0, <2>1, <2>4 DEF Users!UnderWay, Users!Over
  <2> HIDE DEF to
  <2>9. QED
      BY <1>0, <2>1, <2>2, <2>4, <2>5, <2>6, <2>7, <2>8, LoginGoes
<1>10. CASE Users!AddGrows(l)
  <2> DEFINE to == Users!At("add", l, i + 1, 0, {})
  <2>1. /\ login[l].at = "grow" /\ Users!Goes(l, to) /\ size' = login[l].read + 1
        /\ UNCHANGED <<elementData, modCount>>
      BY <1>10 DEF Users!AddGrows
  <2>2. /\ to \in LoginState /\ to.at = "add" /\ to.i = i + 1 /\ to.user = user
        /\ to.alone = login[l].alone /\ login'[l] = to
    <3>1. "add" \in LoginAt
        BY DEF LoginAt
    <3>2. QED
        BY <1>1, <1>2, <1>4, <2>1, <3>1
  <2>3. size' \in Nat /\ size' <= Len(elementData)
      BY <1>0, <1>4, <2>1 DEF Filled
  <2>4. Filled(l)'
      BY <1>0, <1>3, <1>4, <2>1, <2>2 DEF Filled
  <2>5. AddsInOrder(l)'
    <3> SUFFICES ASSUME login[l].alone, NEW j \in 1..i + 1
                 PROVE  RoleInList(Roles[user][j])'
        BY <2>2 DEF AddsInOrder
    <3>1. /\ size' = size + 1 /\ elementData[size + 1] = Roles[user][i + 1]
          /\ \A k \in 1..i : RoleInList(Roles[user][k])
        BY <1>0, <2>1 DEF AddsInOrder
    <3>2. CASE j = i + 1
      <4>1. size + 1 \in 1..size' /\ elementData'[size + 1] = Roles[user][j]
          BY <1>0, <2>1, <3>1, <3>2
      <4>2. QED
          BY <2>2, <4>1 DEF RoleInList
    <3>3. CASE j # i + 1
      <4>1. j \in 1..i
          BY <1>4, <3>3
      <4>2. PICK p \in 1..size : elementData[p] = Roles[user][j]
          BY <3>1, <4>1 DEF RoleInList
      <4>3. p \in 1..size' /\ elementData'[p] = Roles[user][j]
          BY <1>0, <2>1, <3>1, <4>2
      <4>4. QED
          BY <2>2, <4>3 DEF RoleInList
    <3>4. QED
        BY <3>2, <3>3
  <2>6. CopiesAll(l)' /\ IsAnswered(l)'
      BY <2>2 DEF CopiesAll, IsAnswered
  <2> HIDE DEF to
  <2>7. QED
      BY <1>0, <2>1, <2>2, <2>3, <2>4, <2>5, <2>6, LoginGoes DEF Users!UnderWay, Users!Over
<1>11. CASE Users!CopyBegins(l)
  <2> DEFINE from == Users!At("copy", l, 0, modCount, {})
             meets == \E m \in Login \ {l} : Users!Adding(m)
             to == [from EXCEPT !.met = meets]
  <2>1. login[l].at = "add" /\ i = Len(Roles[user]) /\ Users!Goes(l, to) /\ Users!ListStays
      BY <1>11 DEF Users!CopyBegins
  <2>b. meets \in BOOLEAN
      OBVIOUS
  <2> HIDE DEF to, meets
  <2>a. /\ from \in LoginState /\ from.at = "copy" /\ from.i = 0 /\ from.user = user
        /\ from.read = modCount /\ from.alone = login[l].alone
    <3>1. "copy" \in LoginAt /\ modCount \in Nat
        BY <1>0 DEF LoginAt
    <3>2. QED
        BY <1>1, <1>4, <3>1
  <2>2. /\ to \in LoginState /\ to.at = "copy" /\ to.i = 0 /\ to.user = user
        /\ to.read = modCount /\ to.alone = login[l].alone /\ login'[l] = to
    <3> HIDE DEF from
    <3>1. /\ to \in LoginState /\ to.at = "copy" /\ to.i = 0 /\ to.user = user
          /\ to.read = modCount /\ to.alone = login[l].alone
        BY <2>a, <2>b DEF LoginState, to
    <3>2. QED
        BY <1>2, <2>1, <3>1
  <2>3. Filled(l)' /\ AddsInOrder(l)' /\ CopiesAll(l)' /\ IsAnswered(l)'
    <3>1. /\ login'[l].at = "copy" /\ login'[l].i = 0 /\ login'[l].user = user
          /\ login'[l].read = modCount /\ login'[l].alone = login[l].alone
          /\ UNCHANGED <<elementData, size, modCount>>
        BY <2>1, <2>2 DEF Users!ListStays
    <3>2. Filled(l)' /\ AddsInOrder(l)' /\ IsAnswered(l)'
        BY <1>0, <2>1, <3>1 DEF Filled, AddsInOrder, IsAnswered
    <3>3. login[l].alone => \A j \in DOMAIN Roles[user] : RoleInList(Roles[user][j])
        BY <1>0, <1>3, <2>1 DEF Filled, AddsInOrder
    <3>4. \A role : RoleInList(role) => RoleInList(role)'
        BY <3>1 DEF RoleInList
    <3>5. CopiesAll(l)'
        BY <1>0, <3>1, <3>3, <3>4 DEF CopiesAll
    <3>6. QED
        BY <3>2, <3>5
  <2>4. QED
      BY <1>0, <2>1, <2>2, <2>3, LoginGoes DEF Users!UnderWay, Users!Over, Users!ListStays
<1>12. CASE Users!CopyFails(l)
  <2> DEFINE to == Users!At("failed", l, 0, 0, {})
  <2>1. /\ login[l].at = "copy" /\ i # size /\ (modCount # login[l].read \/ i > size)
        /\ Users!Goes(l, to) /\ Users!ListStays
      BY <1>12 DEF Users!CopyFails
  <2>2. ~login[l].alone
      BY <1>0, <1>4, <2>1 DEF CopiesAll
  <2>3. /\ to \in LoginState /\ to.at = "failed" /\ to.alone = login[l].alone /\ login'[l] = to
      BY <1>1, <1>2, <2>1 DEF LoginAt
  <2>4. Filled(l)' /\ AddsInOrder(l)' /\ CopiesAll(l)' /\ IsAnswered(l)'
      BY <2>2, <2>3 DEF Filled, AddsInOrder, CopiesAll, IsAnswered
  <2>5. QED
      BY <1>5, <2>1, <2>4 DEF LoginAt, Users!UnderWay, Users!Over
<1>13. CASE Users!Copies(l)
  <2> DEFINE to == Users!At("copy", l, i + 1, login[l].read,
                             login[l].has \cup {elementData[i + 1]})
  <2>1. /\ login[l].at = "copy" /\ i < size /\ modCount = login[l].read
        /\ Users!Goes(l, to) /\ Users!ListStays
      BY <1>13 DEF Users!Copies
  <2>2. login[l].has \cup {elementData[i + 1]} \in SUBSET STRING
      BY <1>0, <1>4, <2>1
  <2>3. /\ to \in LoginState /\ to.at = "copy" /\ to.i = i + 1 /\ to.user = user
        /\ to.read = modCount /\ to.alone = login[l].alone /\ login'[l] = to
        /\ to.has = login[l].has \cup {elementData[i + 1]}
      BY <1>1, <1>2, <1>4, <2>1, <2>2 DEF LoginAt
  <2>4. Filled(l)' /\ AddsInOrder(l)' /\ IsAnswered(l)'
      BY <1>0, <2>1, <2>3 DEF Filled, AddsInOrder, IsAnswered
  <2>5. CopiesAll(l)'
    <3> HIDE DEF to
    <3> SUFFICES ASSUME login[l].alone
                 PROVE  /\ \A j \in DOMAIN Roles[user] : RoleInList(Roles[user][j])
                        /\ \A p \in 1..i + 1 : elementData[p] \in to.has
        BY <1>0, <1>4, <2>1, <2>3 DEF CopiesAll, RoleInList, Users!ListStays
    <3>1. /\ \A j \in DOMAIN Roles[user] : RoleInList(Roles[user][j])
          /\ \A p \in 1..i : elementData[p] \in login[l].has
        BY <1>0, <2>1 DEF CopiesAll
    <3>2. ASSUME NEW p \in 1..i + 1 PROVE elementData[p] \in to.has
      <4>1. p \in 1..i \/ p = i + 1
          BY <1>4
      <4>2. QED
          BY <2>3, <3>1, <4>1
    <3>3. QED
        BY <3>1, <3>2
  <2>6. QED
      BY <1>4, <1>5, <2>1, <2>2, <2>4, <2>5 DEF LoginAt, Users!UnderWay, Users!Over
<1>14. CASE Users!Answers(l)
  <2> DEFINE to == Users!At("answered", l, 0, 0, login[l].has)
  <2>1. login[l].at = "copy" /\ i = size /\ Users!Goes(l, to) /\ Users!ListStays
      BY <1>14 DEF Users!Answers
  <2>2. /\ to \in LoginState /\ to.at = "answered" /\ to.user = user /\ to.has = login[l].has
        /\ to.alone = login[l].alone /\ login'[l] = to
    <3>1. "answered" \in LoginAt
        BY DEF LoginAt
    <3>2. QED
        BY <1>1, <1>2, <1>4, <2>1, <3>1
  <2>3. Filled(l)' /\ AddsInOrder(l)' /\ CopiesAll(l)' /\ IsAnswered(l)'
      BY <1>0, <2>1, <2>2 DEF Filled, AddsInOrder, CopiesAll, IsAnswered, RoleInList
  <2>4. QED
      BY <1>4, <1>5, <2>1, <2>3 DEF LoginAt, Users!UnderWay, Users!Over
<1>15. QED
    BY <1>6, <1>7, <1>8, <1>9, <1>10, <1>11, <1>12, <1>13, <1>14

\* Every step.
LEMMA UsersNext == UsersInv /\ [Users!Next]_Users!vars => UsersInv'
<1>1. UsersInv /\ UNCHANGED Users!vars => UsersInv'
    BY DEF Users!vars, UsersInv, UsersType, Filled, OneLogin, AddsInOrder, CopiesAll,
           IsAnswered, Users!UnderWay, RoleInList
<1>2. QED
    BY <1>1, LoginBegins, LoginKeeps DEF Users!Next

-----------------------------------------------------------------------------
\* Logins that meet each other.  One that has met no adding login while it copied finds
\* the list as its iterator knows it, and nobody adds; one that has is not alone; what
\* is in the list and in the answers was brought by users that have come.

Granted == UNION {Users!RolesOf(user) : user \in came}

Unmet(l) ==
    login[l].at = "copy" /\ ~login[l].met =>
        /\ login[l].read = modCount /\ login[l].i <= size
        /\ \A m \in Login \ {l} : ~Users!Adding(m)

MetIsSeen(l) ==
    /\ login[l].met => ~login[l].alone
    /\ login[l].at = "failed" /\ login[l].user # Stranger => login[l].met

Brought(l) ==
    /\ Users!UnderWay(l) => login[l].user \in came
    /\ login[l].has \subseteq Granted

UsersMeet ==
    /\ came \subseteq DOMAIN Roles /\ Stranger \notin came
    /\ \A p \in 1..Len(elementData) : elementData[p] \in Granted
    /\ \A l \in Login : Unmet(l) /\ MetIsSeen(l) /\ Brought(l)

LEMMA MeetInit == Users!Init => UsersMeet
BY DEF Users!Init, UsersMeet, Unmet, MetIsSeen, Brought, Users!UnderWay, Users!Over

\* The roles of a user that has come are granted, and stay so.
LEMMA GrantedRoles ==
    /\ \A user \in came : \A j \in DOMAIN Roles[user] : Roles[user][j] \in Granted
    /\ came \subseteq came' => Granted \subseteq Granted'
BY DEF Granted, Users!RolesOf

\* A login that begins.
LEMMA MeetBegins ==
    ASSUME UsersInv, UsersMeet, NEW l \in Login, NEW user \in DOMAIN Roles \cup {Stranger},
           Users!Begins(l, user)
    PROVE  UsersMeet'
<1> DEFINE to == [at |-> IF user = Stranger THEN "failed" ELSE "add", user |-> user, i |-> 0,
                  read |-> 0, has |-> {}, alone |-> \A m \in Login \ {l} : ~Users!UnderWay(m),
                  met |-> FALSE]
           from(k) == [login[k] EXCEPT !.alone = @ /\ ~Users!UnderWay(k)]
<1>1. /\ ~Users!UnderWay(l) /\ UNCHANGED <<elementData, size, modCount>>
      /\ login' = [k \in Login |-> IF k = l THEN to ELSE from(k)]
      /\ came' = came \cup ({user} \ {Stranger})
    BY DEF Users!Begins, Users!Enters, Users!ListStays
<1>2. login \in [Login -> LoginState]
    BY DEF UsersInv, UsersType
<1>3. /\ to.user = user /\ to.has = {} /\ ~to.met
      /\ to.at = IF user = Stranger THEN "failed" ELSE "add"
    OBVIOUS
<1>4. ASSUME NEW k \in Login \ {l}
      PROVE  /\ from(k).at = login[k].at /\ from(k).user = login[k].user
             /\ from(k).i = login[k].i /\ from(k).read = login[k].read
             /\ from(k).has = login[k].has /\ from(k).met = login[k].met
             /\ from(k).alone => login[k].alone
    BY <1>2, <1>4 DEF LoginState
<1> HIDE DEF to, from
<1>5. /\ login'[l] = to /\ \A k \in Login \ {l} : login'[k] = from(k)
    BY <1>1
<1>6. came \subseteq came' /\ Granted \subseteq Granted'
    BY <1>1, GrantedRoles
<1>7. Unmet(l)' /\ MetIsSeen(l)' /\ Brought(l)'
    BY <1>1, <1>3, <1>5 DEF Unmet, MetIsSeen, Brought, Users!UnderWay, Users!Over
<1>8. ASSUME NEW k \in Login \ {l} PROVE Unmet(k)' /\ MetIsSeen(k)' /\ Brought(k)'
  <2>1. Unmet(k) /\ MetIsSeen(k) /\ Brought(k)
      BY DEF UsersMeet
  <2>2. \A m \in Login : Users!Adding(m)' => Users!Adding(m)
      BY <1>3, <1>4, <1>5 DEF Users!Adding
  <2>3. Unmet(k)'
      BY <1>1, <1>4, <1>5, <2>1, <2>2 DEF Unmet
  <2>4. MetIsSeen(k)' /\ Brought(k)'
      BY <1>4, <1>5, <1>6, <2>1 DEF MetIsSeen, Brought, Users!UnderWay
  <2>5. QED
      BY <2>3, <2>4
<1>9. came' \subseteq DOMAIN Roles /\ Stranger \notin came'
    BY <1>1 DEF UsersMeet
<1>10. \A p \in 1..Len(elementData') : elementData'[p] \in Granted'
    BY <1>1, <1>6 DEF UsersMeet
<1>11. QED
    BY <1>7, <1>8, <1>9, <1>10 DEF UsersMeet

\* A login that goes on: either it adds, so that whoever copies has met it already; or
\* it begins to add, and whoever copies meets it; or it leaves the list alone.
LEMMA MeetGoes ==
    ASSUME UsersInv, UsersMeet, NEW l \in Login, UNCHANGED came,
           \A m \in Login \ {l} :
              /\ login'[m].at = login[m].at /\ login'[m].user = login[m].user
              /\ login'[m].i = login[m].i /\ login'[m].read = login[m].read
              /\ login'[m].has = login[m].has /\ login'[m].alone = login[m].alone
              /\ login[m].met => login'[m].met
              /\ login'[m].met => login[m].met \/ (login[m].at = "copy" /\ Users!UnderWay(l)),
           \/ Users!Adding(l)
           \/ /\ UNCHANGED <<size, modCount>>
              /\ \/ ~Users!Adding(l)'
                 \/ \A m \in Login \ {l} : login[m].at = "copy" => login'[m].met,
           \A p \in 1..Len(elementData') : elementData'[p] \in Granted,
           Unmet(l)', MetIsSeen(l)', Brought(l)'
    PROVE  UsersMeet'
<1>1. Granted' = Granted /\ came' = came
    BY DEF Granted
<1>2. ASSUME NEW m \in Login \ {l} PROVE Unmet(m)' /\ MetIsSeen(m)' /\ Brought(m)'
  <2>1. Unmet(m) /\ MetIsSeen(m) /\ Brought(m) /\ OneLogin(m)
      BY DEF UsersMeet, UsersInv
  <2>2. Unmet(m)'
    <3> SUFFICES ASSUME login[m].at = "copy", ~login'[m].met
                 PROVE  /\ login[m].read = modCount' /\ login[m].i <= size'
                        /\ \A k \in Login \ {m} : ~Users!Adding(k)'
        BY DEF Unmet
    <3>1. /\ login[m].read = modCount /\ login[m].i <= size
          /\ \A k \in Login \ {m} : ~Users!Adding(k)
        BY <2>1 DEF Unmet
    <3>2. UNCHANGED <<size, modCount>> /\ ~Users!Adding(l)'
        BY <3>1
    <3>3. \A k \in Login \ {l} : ~Users!Adding(k) => ~Users!Adding(k)'
        BY DEF Users!Adding
    <3>4. QED
        BY <3>1, <3>2, <3>3
  <2>3. MetIsSeen(m)'
    <3>1. login'[m].met => ~login[m].alone
      <4>1. CASE login[m].met
          BY <2>1, <4>1 DEF MetIsSeen
      <4>2. CASE login[m].at = "copy" /\ Users!UnderWay(l)
          BY <2>1, <4>2 DEF OneLogin, Users!UnderWay, Users!Over
      <4>3. QED
          BY <4>1, <4>2
    <3>2. QED
        BY <2>1, <3>1 DEF MetIsSeen
  <2>4. Brought(m)'
      BY <1>1, <2>1 DEF Brought, Users!UnderWay
  <2>5. QED
      BY <2>2, <2>3, <2>4
<1>3. QED
    BY <1>1, <1>2 DEF UsersMeet

\* A step that is Goes(l, to): what is left to show of it.
LEMMA MeetGoesTo ==
    ASSUME UsersInv, UsersMeet, NEW l \in Login, NEW to \in LoginState, Users!Goes(l, to),
           UNCHANGED came, Users!UnderWay(l),
           \/ Users!Adding(l)
           \/ /\ UNCHANGED <<size, modCount>>
              /\ to.at \notin {"count", "size", "store", "grow"},
           \A p \in 1..Len(elementData') : elementData'[p] \in Granted,
           to.at = "copy" /\ ~to.met =>
              /\ to.read = modCount' /\ to.i <= size'
              /\ \A m \in Login \ {l} : ~Users!Adding(m),
           to.met => ~to.alone,
           to.at = "failed" => to.met,
           to.user = login[l].user, to.has \subseteq Granted
    PROVE  UsersMeet'
<1>1. login \in [Login -> LoginState]
    BY DEF UsersInv, UsersType
<1>2. login'[l] = to /\ \A m \in Login \ {l} : login'[m] = login[m]
    BY <1>1 DEF Users!Goes
<1>3. Granted' = Granted /\ came' = came
    BY DEF Granted
<1>4. Brought(l)' /\ MetIsSeen(l)'
    BY <1>2, <1>3 DEF UsersMeet, Brought, MetIsSeen, Users!UnderWay
<1>5. Unmet(l)'
    BY <1>2 DEF Unmet, Users!Adding
<1>6. \/ Users!Adding(l)
      \/ UNCHANGED <<size, modCount>> /\ ~Users!Adding(l)'
    BY <1>2 DEF Users!Adding
<1>7. QED
    BY <1>2, <1>4, <1>5, <1>6, MeetGoes

\* Every step of a login under way.
LEMMA MeetKeeps ==
    ASSUME UsersInv, UsersMeet, NEW l \in Login, UNCHANGED came,
           \/ Users!AddReadsCount(l) \/ Users!AddCounts(l) \/ Users!AddReadsSize(l)
           \/ Users!AddStores(l) \/ Users!AddGrows(l)
           \/ Users!CopyBegins(l) \/ Users!CopyFails(l) \/ Users!Copies(l) \/ Users!Answers(l)
    PROVE  UsersMeet'
<1> DEFINE user == login[l].user
           i == login[l].i
<1>0. /\ login \in [Login -> LoginState] /\ login[l] \in LoginState
      /\ elementData \in Seq(STRING) /\ size \in Nat /\ modCount \in Nat
      /\ size <= Len(elementData) /\ Len(elementData) \in Nat
      /\ Filled(l) /\ OneLogin(l) /\ Unmet(l) /\ MetIsSeen(l) /\ Brought(l)
      /\ \A p \in 1..Len(elementData) : elementData[p] \in Granted
    BY DEF UsersInv, UsersType, UsersMeet
<1>1. ASSUME NEW pc \in LoginAt, NEW n \in Nat, NEW read \in Nat, NEW has \in SUBSET STRING
      PROVE  /\ Users!At(pc, l, n, read, has) \in LoginState
             /\ Users!At(pc, l, n, read, has).at = pc /\ Users!At(pc, l, n, read, has).user = user
             /\ Users!At(pc, l, n, read, has).i = n /\ Users!At(pc, l, n, read, has).read = read
             /\ Users!At(pc, l, n, read, has).has = has
             /\ Users!At(pc, l, n, read, has).alone = login[l].alone
             /\ Users!At(pc, l, n, read, has).met = login[l].met
    BY <1>0 DEF Users!At, LoginState
<1>2. /\ i \in Nat /\ i + 1 \in Nat /\ login[l].read \in Nat /\ login[l].has \in SUBSET STRING
      /\ {} \in SUBSET STRING /\ 0 \in Nat /\ {} \subseteq Granted
      /\ \A pc \in {"count", "size", "store", "grow", "add", "copy", "answered", "failed"} :
            pc \in LoginAt
    BY <1>0 DEF LoginState, LoginAt
<1>3. ASSUME NEW pc \in {"size", "store", "grow", "add"}, NEW n \in Nat, NEW read \in Nat,
             Users!Goes(l, Users!At(pc, l, n, read, {})), Users!Adding(l),
             \A p \in 1..Len(elementData') : elementData'[p] \in Granted
      PROVE  UsersMeet'
  <2> DEFINE to == Users!At(pc, l, n, read, {})
  <2>1. /\ to \in LoginState /\ to.at = pc /\ to.user = user /\ to.has = {}
        /\ to.alone = login[l].alone /\ to.met = login[l].met
      BY <1>1, <1>2
  <2>2. Users!UnderWay(l) /\ Users!Goes(l, to)
      BY <1>3 DEF Users!Adding, Users!UnderWay, Users!Over
  <2> HIDE DEF to
  <2>3. QED
      BY <1>0, <1>2, <1>3, <2>1, <2>2, MeetGoesTo DEF MetIsSeen
<1>4. CASE Users!AddReadsCount(l)
  <2> DEFINE to == Users!At("count", l, i, modCount, {})
             other(k) == [login[k] EXCEPT !.met = @ \/ login[k].at = "copy"]
  <2>1. /\ login[l].at = "add" /\ UNCHANGED <<elementData, size, modCount>>
        /\ login' = [k \in Login |-> IF k = l THEN to ELSE other(k)]
      BY <1>4 DEF Users!AddReadsCount, Users!ListStays
  <2>2. /\ to.at = "count" /\ to.user = user /\ to.has = {}
        /\ to.alone = login[l].alone /\ to.met = login[l].met
      BY <1>0, <1>1, <1>2
  <2>3. ASSUME NEW k \in Login \ {l}
        PROVE  /\ login'[k] = other(k)
               /\ other(k).at = login[k].at /\ other(k).user = login[k].user
               /\ other(k).i = login[k].i /\ other(k).read = login[k].read
               /\ other(k).has = login[k].has /\ other(k).alone = login[k].alone
               /\ other(k).met <=> login[k].met \/ login[k].at = "copy"
    <3>1. login[k] \in LoginState
        BY <1>0
    <3>2. login'[k] = other(k)
        BY <2>1
    <3>3. QED
        BY <3>1, <3>2 DEF LoginState
  <2>4. login'[l] = to /\ Users!UnderWay(l)
      BY <2>1 DEF Users!UnderWay, Users!Over
  <2> HIDE DEF to, other
  <2>5. Granted' = Granted /\ came' = came
      BY DEF Granted
  <2>6. Unmet(l)' /\ MetIsSeen(l)' /\ Brought(l)'
      BY <1>0, <2>2, <2>4, <2>5 DEF Unmet, MetIsSeen, Brought, Users!UnderWay
  <2>7. QED
      BY <1>0, <2>1, <2>3, <2>4, <2>6, MeetGoes
<1>5. CASE Users!AddCounts(l)
    BY <1>0, <1>2, <1>3, <1>5 DEF Users!AddCounts, Users!Adding
<1>6. CASE Users!AddReadsSize(l)
    BY <1>0, <1>2, <1>3, <1>6 DEF Users!AddReadsSize, Users!ListStays, Users!Adding
<1>7. CASE Users!AddStores(l)
  <2> DEFINE n == login[l].read + 1
             role == Roles[user][i + 1]
  <2>1. /\ login[l].at = "store" /\ Users!Goes(l, Users!At("grow", l, i, login[l].read, {}))
        /\ elementData' = IF n > Len(elementData) THEN Append(elementData, role)
                                                  ELSE [elementData EXCEPT ![n] = role]
      BY <1>7 DEF Users!AddStores
  <2>2. user \in came /\ user \in DOMAIN Roles /\ i < Len(Roles[user])
      BY <1>0, <2>1 DEF Filled, Brought, Users!UnderWay, Users!Over
  <2>3. role \in Granted
    <3>1. Roles[user] \in Seq(STRING)
        BY <2>2, ServicesAssumption
    <3>2. i + 1 \in DOMAIN Roles[user]
        BY <1>2, <2>2, <3>1
    <3>3. QED
        BY <2>2, <3>2, GrantedRoles
  <2>4. ASSUME NEW p \in 1..Len(elementData') PROVE elementData'[p] \in Granted
    <3> HIDE DEF role
    <3>1. CASE n > Len(elementData)
      <4>1. elementData' = Append(elementData, role)
          BY <2>1, <3>1
      <4>2. \/ p \in 1..Len(elementData) /\ elementData'[p] = elementData[p]
            \/ elementData'[p] = role
          BY <1>0, <4>1
      <4>3. QED
          BY <1>0, <2>3, <4>2
    <3>2. CASE ~(n > Len(elementData))
      <4>1. elementData' = [elementData EXCEPT ![n] = role]
          BY <2>1, <3>2
      <4>2. /\ p \in 1..Len(elementData)
            /\ elementData'[p] = elementData[p] \/ elementData'[p] = role
          BY <1>0, <4>1
      <4>3. QED
          BY <1>0, <2>3, <4>2
    <3>3. QED
        BY <3>1, <3>2
  <2>5. QED
      BY <1>0, <1>2, <1>3, <2>1, <2>4 DEF Users!Adding
<1>8. CASE Users!AddGrows(l)
    BY <1>0, <1>2, <1>3, <1>8 DEF Users!AddGrows, Users!Adding
<1>9. CASE Users!CopyBegins(l)
  <2> DEFINE from == Users!At("copy", l, 0, modCount, {})
             meets == \E m \in Login \ {l} : Users!Adding(m)
             to == [from EXCEPT !.met = meets]
  <2>1. login[l].at = "add" /\ Users!Goes(l, to) /\ UNCHANGED <<elementData, size, modCount>>
      BY <1>9 DEF Users!CopyBegins, Users!ListStays
  <2>b. meets \in BOOLEAN
      OBVIOUS
  <2> HIDE DEF to, meets
  <2>2. /\ from \in LoginState /\ from.at = "copy" /\ from.i = 0 /\ from.user = user
        /\ from.read = modCount /\ from.alone = login[l].alone /\ from.has = {}
    <3>1. "copy" \in LoginAt /\ modCount \in Nat /\ 0 \in Nat /\ {} \in SUBSET STRING
        BY <1>0 DEF LoginAt
    <3>2. QED
        BY <1>1, <3>1
  <2>3. /\ to \in LoginState /\ to.at = "copy" /\ to.i = 0 /\ to.user = user
        /\ to.read = modCount /\ to.alone = login[l].alone /\ to.has = {}
        /\ to.met = meets
    <3> HIDE DEF from
    <3>1. QED
        BY <2>2, <2>b DEF LoginState, to
  <2>4. Users!UnderWay(l)
      BY <2>1 DEF Users!UnderWay, Users!Over
  <2>5. to.met => ~to.alone
    <3>1. \A m \in Login : Users!Adding(m) => Users!UnderWay(m)
        BY DEF Users!Adding, Users!UnderWay, Users!Over
    <3>2. QED
        BY <1>0, <2>3, <2>4, <3>1 DEF OneLogin, meets
  <2>6. ~to.met => \A m \in Login \ {l} : ~Users!Adding(m)
      BY <2>3 DEF meets
  <2>7. QED
      BY <1>0, <1>2, <2>1, <2>3, <2>4, <2>5, <2>6, MeetGoesTo
<1>10. ASSUME NEW pc \in {"copy", "failed", "answered"}, NEW n \in Nat, NEW read \in Nat,
              NEW has \in SUBSET STRING, has \subseteq Granted,
              Users!Goes(l, Users!At(pc, l, n, read, has)), Users!ListStays,
              login[l].at = "copy",
              pc = "copy" => read = login[l].read /\ n <= size,
              pc = "failed" => login[l].met
       PROVE  UsersMeet'
  <2> DEFINE to == Users!At(pc, l, n, read, has)
  <2>1. /\ to \in LoginState /\ to.at = pc /\ to.user = user /\ to.has = has
        /\ to.i = n /\ to.read = read
        /\ to.alone = login[l].alone /\ to.met = login[l].met
      BY <1>1, <1>2, <1>10
  <2>2. Users!UnderWay(l) /\ Users!Goes(l, to) /\ UNCHANGED <<elementData, size, modCount>>
      BY <1>10 DEF Users!UnderWay, Users!Over, Users!ListStays
  <2>3. ~login[l].met => /\ login[l].read = modCount
                         /\ \A m \in Login \ {l} : ~Users!Adding(m)
      BY <1>0, <1>10 DEF Unmet
  <2> HIDE DEF to
  <2>4. QED
      BY <1>0, <1>10, <2>1, <2>2, <2>3, MeetGoesTo DEF MetIsSeen
<1>11. CASE Users!CopyFails(l)
  <2>1. /\ login[l].at = "copy" /\ (modCount # login[l].read \/ i > size)
        /\ Users!Goes(l, Users!At("failed", l, 0, 0, {})) /\ Users!ListStays
      BY <1>11 DEF Users!CopyFails
  <2>2. login[l].met
      BY <1>0, <1>2, <2>1 DEF Unmet
  <2>3. QED
      BY <1>2, <1>10, <2>1, <2>2
<1>12. CASE Users!Copies(l)
  <2> DEFINE has == login[l].has \cup {elementData[i + 1]}
  <2>1. /\ login[l].at = "copy" /\ i < size
        /\ Users!Goes(l, Users!At("copy", l, i + 1, login[l].read, has)) /\ Users!ListStays
      BY <1>12 DEF Users!Copies
  <2>2. i + 1 \in 1..Len(elementData) /\ i + 1 <= size
      BY <1>0, <1>2, <2>1
  <2>3. has \in SUBSET STRING /\ has \subseteq Granted
      BY <1>0, <1>2, <2>2 DEF Brought
  <2> HIDE DEF has
  <2>4. QED
      BY <1>2, <1>10, <2>1, <2>2, <2>3
<1>13. CASE Users!Answers(l)
  <2>1. /\ login[l].at = "copy" /\ Users!ListStays
        /\ Users!Goes(l, Users!At("answered", l, 0, 0, login[l].has))
      BY <1>13 DEF Users!Answers
  <2>2. login[l].has \subseteq Granted
      BY <1>0 DEF Brought
  <2>3. QED
      BY <1>2, <1>10, <2>1, <2>2
<1>14. QED
    BY <1>4, <1>5, <1>6, <1>7, <1>8, <1>9, <1>11, <1>12, <1>13

LEMMA MeetNext == UsersInv /\ UsersMeet /\ [Users!Next]_Users!vars => UsersMeet'
<1>1. UsersMeet /\ UNCHANGED Users!vars => UsersMeet'
    BY DEF Users!vars, UsersMeet, Unmet, MetIsSeen, Brought, Granted, Users!Adding,
           Users!UnderWay
<1>2. QED
    BY <1>1, MeetBegins, MeetKeeps DEF Users!Next

\* What the run checks follows from both.
LEMMA UsersInvImplies == UsersInv /\ UsersMeet => Users!LoginsHaveTheirRoles
<1> SUFFICES ASSUME UsersInv, UsersMeet, NEW l \in Login
             PROVE  /\ login[l].at = "failed" /\ login[l].user # Stranger
                          => login[l].met /\ ~login[l].alone
                    /\ login[l].at = "answered" => login[l].has \subseteq Granted
                    /\ login[l].at = "answered" /\ login[l].alone
                          => Users!RolesOf(login[l].user) \subseteq login[l].has
    BY DEF Users!LoginsHaveTheirRoles, Granted
<1>1. IsAnswered(l) /\ MetIsSeen(l) /\ Brought(l)
    BY DEF UsersInv, UsersMeet
<1>2. QED
    BY <1>1 DEF IsAnswered, MetIsSeen, Brought, Users!RolesOf

-----------------------------------------------------------------------------
(* The sign-in and its log files.                                          *)

SignAt == {"called", "copy", "record", "empty", "write", "decide", "returned", "failed"}
Codes == {0, 500, 1000}
SignState == [at : SignAt, user : User, line : Nat, alone : BOOLEAN, code : Codes]
Line == User \X (0..Sign!Lines)

SignType ==
    /\ log1 \in Seq(Line) /\ log2 \in Seq(Line) /\ rows \in Seq(User)
    /\ signIn \in [SignIns -> SignState]

\* A sign-in that has been alone since it opened the files is the only one under way, ...
OneSignIn(r) ==
    signIn[r].alone /\ r \in Sign!Under => Sign!Under = {r}

\* ... and the second file has its lines, as far as it has come, and no other.
HasLines(r, k) ==
    Len(log2) = k /\ \A n \in 1..k : log2[n] = Sign!LineOf(signIn[r].user, n)
OwnLines(r) ==
    signIn[r].alone =>
       /\ signIn[r].at = "write" => signIn[r].line < Sign!Lines /\ HasLines(r, signIn[r].line)
       /\ signIn[r].at = "decide" => HasLines(r, Sign!Lines)

\* The sign-ins of a user that have recorded it, and its records in the first file.
Recorded(user) == {r \in SignIns : Sign!Past(r) /\ signIn[r].user = user}
RecordsOf(user) == {n \in DOMAIN log1 : log1[n] = Sign!LineOf(user, 0)}

RecordsAreKept ==
    \A user \in User : Cardinality(Recorded(user)) <= Cardinality(RecordsOf(user))

SignInv ==
    /\ SignType /\ RecordsAreKept /\ Sign!SuccessIsDeserved
    /\ \A r \in SignIns : OneSignIn(r) /\ OwnLines(r)

-----------------------------------------------------------------------------
\* Lines of the files.
LEMMA LineType ==
    /\ Sign!Gap \in Line
    /\ \A user \in User, n \in 0..Sign!Lines : Sign!LineOf(user, n) \in Line
BY ServicesAssumption DEF Sign!Gap, Line, Sign!LineOf, Sign!Lines

\* A write leaves a file of lines, which has grown to the place of the write, and
\* nothing in front of it has changed.
LEMMA WriteAtKeeps ==
    ASSUME NEW file \in Seq(Line), NEW n \in Nat \ {0}, NEW line \in Line
    PROVE  /\ Sign!WriteAt(file, n, line) \in Seq(Line)
           /\ n = Len(file) + 1 =>
                /\ Len(Sign!WriteAt(file, n, line)) = n
                /\ Sign!WriteAt(file, n, line)[n] = line
                /\ \A i \in 1..n - 1 : Sign!WriteAt(file, n, line)[i] = file[i]
<1> DEFINE m == IF n > Len(file) THEN n ELSE Len(file)
           at(i) == IF i = n THEN line ELSE IF i <= Len(file) THEN file[i] ELSE Sign!Gap
<1>1. m \in Nat /\ Len(file) \in Nat /\ Sign!WriteAt(file, n, line) = [i \in 1..m |-> at(i)]
    BY DEF Sign!WriteAt
<1>2. \A i \in 1..m : at(i) \in Line
    BY LineType
<1>3. Sign!WriteAt(file, n, line) \in Seq(Line)
    BY <1>1, <1>2
<1>4. ASSUME n = Len(file) + 1
      PROVE  m = n /\ at(n) = line /\ \A i \in 1..n - 1 : i \in 1..m /\ at(i) = file[i]
    BY <1>1, <1>4
<1> HIDE DEF at, m
<1>5. QED
    BY <1>1, <1>3, <1>4

\* Where no request comes past its record, and the first file is as it was, the records
\* are kept.
LEMMA RecordsStay ==
    ASSUME RecordsAreKept, log1' = log1,
           \A r \in SignIns : Sign!Past(r)' = Sign!Past(r) /\ signIn'[r].user = signIn[r].user
    PROVE  RecordsAreKept'
<1>1. ASSUME NEW user \in User
      PROVE  Recorded(user)' = Recorded(user) /\ RecordsOf(user)' = RecordsOf(user)
    BY DEF Recorded, RecordsOf
<1>2. QED
    BY <1>1 DEF RecordsAreKept

\* A request that goes on was under way: no other that is under way has been alone.
LEMMA CallGoes ==
    ASSUME SignInv, NEW r \in SignIns, r \in Sign!Under, NEW to \in SignState,
           signIn' = [signIn EXCEPT ![r] = to],
           to.alone = signIn[r].alone, to.user = signIn[r].user, to.at # "called"
    PROVE  /\ signIn' \in [SignIns -> SignState] /\ signIn'[r] = to
           /\ \A q \in SignIns \ {r} : signIn'[q] = signIn[q] /\ OwnLines(q)'
           /\ \A q \in SignIns : OneSignIn(q)' /\ signIn'[q].user = signIn[q].user
<1>1. signIn \in [SignIns -> SignState]
    BY DEF SignInv, SignType
<1>2. signIn' \in [SignIns -> SignState] /\ signIn'[r] = to
      /\ \A q \in SignIns \ {r} : signIn'[q] = signIn[q]
    BY <1>1
<1>3. Sign!Under' \subseteq Sign!Under
    BY <1>2 DEF Sign!Under
<1>4. ASSUME NEW q \in SignIns \ {r}
      PROVE  ~(signIn[q].alone /\ q \in Sign!Under)
    BY <1>4 DEF SignInv, OneSignIn
<1>5. ASSUME NEW q \in SignIns \ {r}
      PROVE  OwnLines(q)' /\ OneSignIn(q)'
    BY <1>2, <1>3, <1>4 DEF OwnLines, OneSignIn, Sign!Under
<1>6. OneSignIn(r)'
    BY <1>2, <1>3 DEF SignInv, OneSignIn
<1>7. QED
    BY <1>2, <1>5, <1>6

-----------------------------------------------------------------------------
\* The initial states.
LEMMA SignInit == Sign!Init => SignInv
<1> SUFFICES ASSUME Sign!Init PROVE SignInv
    OBVIOUS
<1>1. /\ log1 \in Seq(Line) /\ log2 = <<>> /\ rows = <<>>
      /\ signIn \in [SignIns -> {Sign!Call(user) : user \in User}]
  <2>1. Sign!LineOf(Inner, 0) \in Line
      BY LineType, ServicesAssumption DEF Sign!Lines
  <2>2. <<>> \in Seq(Line) /\ <<Sign!LineOf(Inner, 0)>> \in Seq(Line)
      BY <2>1
  <2>3. QED
      BY <2>2 DEF Sign!Init
<1>2. \A user \in User : /\ Sign!Call(user) \in SignState /\ Sign!Call(user).at = "called"
                         /\ Sign!Call(user).code = 0
    BY DEF Sign!Call, SignState, SignAt, Codes
<1>3. /\ signIn \in [SignIns -> SignState]
      /\ \A r \in SignIns : signIn[r].at = "called" /\ signIn[r].code = 0
    BY <1>1, <1>2
<1>4. RecordsAreKept
  <2> SUFFICES ASSUME NEW user \in User
               PROVE  Cardinality(Recorded(user)) <= Cardinality(RecordsOf(user))
      BY DEF RecordsAreKept
  <2>1. Cardinality(Recorded(user)) = 0
      BY <1>3, FS_EmptySet DEF Recorded, Sign!Past
  <2>2. IsFiniteSet(RecordsOf(user))
      BY <1>1, FS_Interval, FS_Subset DEF RecordsOf
  <2>3. QED
      BY <2>1, <2>2, FS_CardinalityType
<1>5. Sign!SuccessIsDeserved
    BY <1>3 DEF Sign!SuccessIsDeserved
<1>6. \A r \in SignIns : OneSignIn(r) /\ OwnLines(r)
    BY <1>3 DEF OneSignIn, OwnLines, Sign!Under
<1>7. QED
    BY <1>1, <1>3, <1>4, <1>5, <1>6 DEF SignInv, SignType

\* A request that opens the files ends the solitude of those under way.
LEMMA OpensKeeps ==
    ASSUME SignInv, NEW r \in SignIns, Sign!Opens(r)
    PROVE  SignInv'
<1> DEFINE to == [signIn[r] EXCEPT !.at = IF present = {1, 3} THEN "copy" ELSE "failed",
                                 !.alone = Sign!Under = {}]
           from(q) == [signIn[q] EXCEPT !.alone = @ /\ q \notin Sign!Under]
<1>1. /\ signIn[r].at = "called" /\ UNCHANGED <<log1, rows>>
      /\ log2' = IF 1 \in present THEN <<>> ELSE log2
      /\ signIn' = [q \in SignIns |-> IF q = r THEN to ELSE from(q)]
    BY DEF Sign!Opens
<1>2. signIn \in [SignIns -> SignState] /\ log2 \in Seq(Line)
    BY DEF SignInv, SignType
<1>3. /\ to \in SignState /\ to.user = signIn[r].user /\ to.at \in {"copy", "failed"}
      /\ to.code = signIn[r].code /\ to.alone = (Sign!Under = {})
    BY <1>2 DEF SignState, SignAt
<1>4. ASSUME NEW q \in SignIns \ {r}
      PROVE  /\ from(q) \in SignState /\ from(q).at = signIn[q].at
             /\ from(q).user = signIn[q].user /\ from(q).code = signIn[q].code
             /\ from(q).alone <=> signIn[q].alone /\ q \notin Sign!Under
    BY <1>2, <1>4 DEF SignState
<1> HIDE DEF to, from
<1>5. signIn'[r] = to /\ \A q \in SignIns \ {r} : signIn'[q] = from(q)
    BY <1>1
<1>6. SignType'
    BY <1>1, <1>2, <1>3, <1>4 DEF SignInv, SignType
<1>7. RecordsAreKept'
  <2>1. \A q \in SignIns : Sign!Past(q)' = Sign!Past(q) /\ signIn'[q].user = signIn[q].user
      BY <1>1, <1>3, <1>4, <1>5 DEF Sign!Past
  <2>2. QED
      BY <1>1, <2>1, RecordsStay DEF SignInv
<1>8. Sign!SuccessIsDeserved'
    BY <1>1, <1>3, <1>4, <1>5 DEF SignInv, Sign!SuccessIsDeserved
<1>9. Sign!Under' \subseteq Sign!Under \cup {r}
    BY <1>4, <1>5 DEF Sign!Under
<1>10. OneSignIn(r)' /\ OwnLines(r)'
    BY <1>3, <1>5, <1>9 DEF OneSignIn, OwnLines
<1>11. ASSUME NEW q \in SignIns \ {r}
       PROVE  OneSignIn(q)' /\ OwnLines(q)'
    BY <1>4, <1>5, <1>11 DEF OneSignIn, OwnLines, Sign!Under
<1>12. QED
    BY <1>6, <1>7, <1>8, <1>10, <1>11 DEF SignInv

\* The record of a request joins those of its user.
LEMMA RecordsKeeps ==
    ASSUME SignInv, NEW r \in SignIns, Sign!Records(r)
    PROVE  SignInv'
<1> DEFINE to == [signIn[r] EXCEPT !.at = "empty"]
           line == Sign!LineOf(signIn[r].user, 0)
<1>1. /\ signIn[r].at = "record" /\ log1' = Append(log1, line)
      /\ signIn' = [signIn EXCEPT ![r] = to] /\ UNCHANGED <<log2, rows>>
    BY DEF Sign!Records, Sign!AppendsRecord
<1>2. /\ signIn \in [SignIns -> SignState] /\ signIn[r] \in SignState
      /\ log1 \in Seq(Line) /\ log2 \in Seq(Line) /\ rows \in Seq(User)
    BY DEF SignInv, SignType
<1>3. /\ to \in SignState /\ to.user = signIn[r].user /\ to.at = "empty"
      /\ to.code = signIn[r].code /\ to.alone = signIn[r].alone
    BY <1>2 DEF SignState, SignAt
<1> HIDE DEF to
<1>4. /\ signIn' \in [SignIns -> SignState] /\ signIn'[r] = to
      /\ \A q \in SignIns \ {r} : signIn'[q] = signIn[q] /\ OwnLines(q)'
      /\ \A q \in SignIns : OneSignIn(q)' /\ signIn'[q].user = signIn[q].user
    BY <1>1, <1>3, CallGoes DEF Sign!Under
<1>5. line \in Line
    BY <1>2, LineType DEF SignState, Sign!Lines
<1>6. /\ log1' \in Seq(Line) /\ DOMAIN log1' = DOMAIN log1 \cup {Len(log1) + 1}
      /\ Len(log1) + 1 \notin DOMAIN log1 /\ log1'[Len(log1) + 1] = line
      /\ \A n \in DOMAIN log1 : log1'[n] = log1[n]
    BY <1>1, <1>2, <1>5
<1>7. RecordsAreKept'
  <2> SUFFICES ASSUME NEW user \in User
               PROVE  Cardinality(Recorded(user)') <= Cardinality(RecordsOf(user)')
      BY DEF RecordsAreKept
  <2>1. IsFiniteSet(Recorded(user)) /\ IsFiniteSet(RecordsOf(user))
    <3>1. DOMAIN log1 = 1..Len(log1) /\ Len(log1) \in Nat
        BY <1>2
    <3>2. IsFiniteSet(DOMAIN log1)
        BY <3>1, FS_Interval
    <3>3. QED
        BY <3>2, ServicesAssumption, FS_Subset DEF Recorded, RecordsOf
  <2>2. Cardinality(Recorded(user)) <= Cardinality(RecordsOf(user))
      BY DEF SignInv, RecordsAreKept
  <2>3. CASE signIn[r].user = user
    <3>1. Recorded(user)' = Recorded(user) \cup {r} /\ r \notin Recorded(user)
        BY <1>1, <1>3, <1>4, <2>3 DEF Recorded, Sign!Past
    <3>2. /\ RecordsOf(user)' = RecordsOf(user) \cup {Len(log1) + 1}
          /\ Len(log1) + 1 \notin RecordsOf(user)
        BY <1>6, <2>3 DEF RecordsOf
    <3>3. /\ Cardinality(Recorded(user)') = Cardinality(Recorded(user)) + 1
          /\ Cardinality(RecordsOf(user)') = Cardinality(RecordsOf(user)) + 1
        BY <2>1, <3>1, <3>2, FS_AddElement
    <3>4. QED
        BY <2>1, <2>2, <3>3, FS_CardinalityType
  <2>4. CASE signIn[r].user # user
    <3>1. Recorded(user)' = Recorded(user)
        BY <1>1, <1>3, <1>4, <2>4 DEF Recorded, Sign!Past
    <3>2. RecordsOf(user)' = RecordsOf(user)
        BY <1>6, <2>4 DEF RecordsOf, Sign!LineOf
    <3>3. QED
        BY <2>2, <3>1, <3>2
  <2>5. QED
      BY <2>3, <2>4
<1>8. Sign!SuccessIsDeserved'
    BY <1>1, <1>3, <1>4 DEF SignInv, Sign!SuccessIsDeserved
<1>9. OwnLines(r)'
    BY <1>3, <1>4 DEF OwnLines
<1>10. QED
    BY <1>1, <1>2, <1>4, <1>6, <1>7, <1>8, <1>9 DEF SignInv, SignType

\* The other steps of a request.
LEMMA CallKeeps ==
    ASSUME SignInv, NEW r \in SignIns, NEW to \in SignState,
           signIn' = [signIn EXCEPT ![r] = to], r \in Sign!Under,
           to.alone = signIn[r].alone, to.user = signIn[r].user, to.at \notin {"called", "failed"},
           signIn[r].at \in {"copy", "record"} <=> to.at \in {"copy", "record"},
           to.code # signIn[r].code =>
              /\ to.code = 1000 => to.user \in Sign!Range(rows) \cup {Inner}
              /\ to.code = 500 => to.user # Inner,
           log2' \in Seq(Line), UNCHANGED <<log1, rows>>,
           to.alone /\ to.at = "write" =>
              /\ to.line < Sign!Lines /\ Len(log2') = to.line
              /\ \A n \in 1..to.line : log2'[n] = Sign!LineOf(to.user, n),
           to.alone /\ to.at = "decide" =>
              Len(log2') = Sign!Lines /\ \A n \in 1..Sign!Lines : log2'[n] = Sign!LineOf(to.user, n)
    PROVE  SignInv'
<1>1. /\ signIn' \in [SignIns -> SignState] /\ signIn'[r] = to
      /\ \A q \in SignIns \ {r} : signIn'[q] = signIn[q] /\ OwnLines(q)'
      /\ \A q \in SignIns : OneSignIn(q)' /\ signIn'[q].user = signIn[q].user
    BY CallGoes
<1>2. OwnLines(r)'
    BY <1>1 DEF OwnLines, HasLines
<1>3. Sign!SuccessIsDeserved'
    BY <1>1 DEF SignInv, Sign!SuccessIsDeserved
<1>4. RecordsAreKept'
  <2>1. signIn[r].at \in SignAt /\ to.at \in SignAt
      BY DEF SignInv, SignType, SignState
  <2>2. QED
      BY <1>1, <2>1, RecordsStay DEF SignInv, Sign!Past, Sign!Under, SignAt
<1>5. QED
    BY <1>1, <1>2, <1>3, <1>4 DEF SignInv, SignType

LEMMA RequestKeeps ==
    ASSUME SignInv, NEW r \in SignIns,
           \/ Sign!CopiesLine(r) \/ Sign!EndOfCopy(r) \/ Sign!Empties(r)
           \/ Sign!WritesLine(r) \/ Sign!Decides(r)
    PROVE  SignInv'
<1> PICK x \in SignState : x = signIn[r]
    BY DEF SignInv, SignType
<1>0. /\ signIn \in [SignIns -> SignState] /\ signIn[r] = x
      /\ r \in Sign!Under <=> x.at \notin {"called", "returned", "failed"}
      /\ log1 \in Seq(Line) /\ log2 \in Seq(Line) /\ rows \in Seq(User)
      /\ x.line \in Nat /\ x.line + 1 \in Nat \ {0} /\ x.user \in User
    BY DEF SignInv, SignType, SignState, Sign!Under
<1>1. CASE Sign!CopiesLine(r)
  <2> DEFINE to == [x EXCEPT !.line = @ + 1]
  <2>1. /\ x.at = "copy" /\ x.line < Len(log1) /\ signIn' = [signIn EXCEPT ![r] = to]
        /\ log2' = Sign!WriteAt(log2, x.line + 1, log1[x.line + 1]) /\ UNCHANGED <<log1, rows>>
      BY <1>0, <1>1 DEF Sign!CopiesLine
  <2>2. /\ to \in SignState /\ to.alone = x.alone /\ to.user = x.user /\ to.at = x.at
        /\ to.code = x.code
    <3>1. x.line + 1 \in Nat
        BY <1>0
    <3>2. QED
        BY <3>1 DEF SignState
  <2>3. log2' \in Seq(Line)
    <3>1. log1[x.line + 1] \in Line
        BY <1>0, <2>1
    <3>2. QED
        BY <1>0, <2>1, <3>1, WriteAtKeeps
  <2> HIDE DEF to
  <2>4. QED
      BY <1>0, <2>1, <2>2, <2>3, CallKeeps
<1>2. CASE Sign!EndOfCopy(r)
  <2> DEFINE to == [x EXCEPT !.at = "record"]
  <2>1. /\ x.at = "copy" /\ signIn' = [signIn EXCEPT ![r] = to] /\ UNCHANGED <<log1, log2, rows>>
      BY <1>0, <1>2 DEF Sign!EndOfCopy
  <2>2. /\ to \in SignState /\ to.alone = x.alone /\ to.user = x.user /\ to.at = "record"
        /\ to.code = x.code
      BY DEF SignState, SignAt
  <2> HIDE DEF to
  <2>3. QED
      BY <1>0, <2>1, <2>2, CallKeeps
<1>3. CASE Sign!Empties(r)
  <2> DEFINE to == [x EXCEPT !.at = "write", !.line = 0]
  <2>1. /\ x.at = "empty" /\ signIn' = [signIn EXCEPT ![r] = to] /\ log2' = <<>>
        /\ UNCHANGED <<log1, rows>>
      BY <1>0, <1>3 DEF Sign!Empties, Sign!EmptiesLog2
  <2>2. /\ to \in SignState /\ to.alone = x.alone /\ to.user = x.user /\ to.at = "write"
        /\ to.code = x.code /\ to.line = 0
      BY DEF SignState, SignAt
  <2>3. log2' \in Seq(Line) /\ Len(log2') = 0 /\ 0 < Sign!Lines /\ 1..0 = {}
      BY <2>1 DEF Sign!Lines
  <2> HIDE DEF to
  <2>4. QED
      BY <1>0, <2>1, <2>2, <2>3, CallKeeps
<1>4. CASE Sign!WritesLine(r)
  <2> DEFINE k == x.line + 1
             to == [x EXCEPT !.line = k, !.at = IF k = Sign!Lines THEN "decide" ELSE @]
  <2>1. /\ x.at = "write" /\ x.line < Sign!Lines /\ signIn' = [signIn EXCEPT ![r] = to]
        /\ log2' = Sign!WriteAt(log2, k, Sign!LineOf(x.user, k)) /\ UNCHANGED <<log1, rows>>
      BY <1>0, <1>4 DEF Sign!WritesLine
  <2>2. /\ to \in SignState /\ to.alone = x.alone /\ to.user = x.user
        /\ to.at = (IF k = Sign!Lines THEN "decide" ELSE "write")
        /\ to.code = x.code /\ to.line = k
    <3>1. k \in Nat
        BY <1>0
    <3> HIDE DEF k
    <3>2. QED
        BY <2>1, <3>1 DEF SignState, SignAt
  <2>3. k \in 1..Sign!Lines /\ k \in Nat \ {0} /\ Sign!LineOf(x.user, k) \in Line
      BY <1>0, <2>1, LineType DEF Sign!Lines
  <2>4. log2' \in Seq(Line)
      BY <1>0, <2>1, <2>3, WriteAtKeeps
  <2>5. x.alone => /\ Len(log2') = k
                   /\ \A n \in 1..k : log2'[n] = Sign!LineOf(x.user, n)
    <3> SUFFICES ASSUME x.alone
                 PROVE  Len(log2') = k /\ \A n \in 1..k : log2'[n] = Sign!LineOf(x.user, n)
        OBVIOUS
    <3>1. Len(log2) = x.line /\ \A n \in 1..x.line : log2[n] = Sign!LineOf(x.user, n)
        BY <1>0, <2>1 DEF SignInv, OwnLines, HasLines
    <3>2. /\ Len(log2') = k /\ log2'[k] = Sign!LineOf(x.user, k)
          /\ \A n \in 1..x.line : log2'[n] = log2[n]
      <4> DEFINE line == Sign!LineOf(x.user, k)
      <4>1. /\ k = Len(log2) + 1 /\ 1..x.line = 1..k - 1 /\ k \in Nat \ {0}
            /\ log2' = Sign!WriteAt(log2, k, line) /\ log2 \in Seq(Line) /\ line \in Line
          BY <1>0, <2>1, <2>3, <3>1
      <4> HIDE DEF k, line
      <4>2. /\ Len(Sign!WriteAt(log2, k, line)) = k /\ Sign!WriteAt(log2, k, line)[k] = line
            /\ \A i \in 1..k - 1 : Sign!WriteAt(log2, k, line)[i] = log2[i]
          BY <4>1, WriteAtKeeps
      <4>3. QED
          BY <4>1, <4>2 DEF line
    <3>3. \A n \in 1..k : n = k \/ n \in 1..x.line
        BY <1>0
    <3>4. QED
        BY <3>1, <3>2, <3>3
  <2>6. to.line < Sign!Lines \/ k = Sign!Lines
      BY <2>2, <2>3 DEF Sign!Lines
  <2> HIDE DEF to
  <2>7. QED
      BY <1>0, <2>1, <2>2, <2>4, <2>5, <2>6, CallKeeps
<1>5. CASE Sign!Decides(r)
  <2> DEFINE code == Sign!Code(x.user)
             to == [x EXCEPT !.at = "returned", !.code = code]
  <2>1. /\ x.at = "decide" /\ signIn' = [signIn EXCEPT ![r] = to] /\ UNCHANGED <<log1, log2, rows>>
      BY <1>0, <1>5 DEF Sign!Decides
  <2>2. /\ code \in Codes
        /\ code = 1000 => x.user \in Sign!Range(rows) \cup {Inner}
        /\ code = 500 => x.user # Inner
    <3>1. CASE rows = <<>>
        BY <3>1 DEF Sign!Code, Codes
    <3>2. CASE rows # <<>>
      <4>1. Sign!Last(rows) \in Sign!Range(rows)
          BY <1>0, <3>2 DEF Sign!Last, Sign!Range
      <4>2. QED
          BY <3>2, <4>1 DEF Sign!Code, Sign!CodeFor, Sign!Matches, Codes
    <3>3. QED
        BY <3>1, <3>2
  <2> HIDE DEF code
  <2>3. /\ to \in SignState /\ to.alone = x.alone /\ to.user = x.user /\ to.at = "returned"
        /\ to.code = code
      BY <2>2 DEF SignState, SignAt
  <2> HIDE DEF to
  <2>4. /\ to.code = 1000 => to.user \in Sign!Range(rows) \cup {Inner}
        /\ to.code = 500 => to.user # Inner
      BY <2>2, <2>3
  <2>5. /\ log2' \in Seq(Line) /\ UNCHANGED <<log1, rows>> /\ r \in Sign!Under
        /\ signIn' = [signIn EXCEPT ![r] = to] /\ to.alone = signIn[r].alone /\ to.user = signIn[r].user
        /\ signIn[r].at \notin {"copy", "record"}
      BY <1>0, <2>1, <2>3
  <2>6. to.at \notin {"called", "failed", "copy", "record", "write", "decide"}
      BY <2>3
  <2>7. QED
      BY <2>3, <2>4, <2>5, <2>6, CallKeeps
<1>6. QED
    BY <1>1, <1>2, <1>3, <1>4, <1>5

\* A user that is added is stored, and so are those that were.
LEMMA AddsUserKeeps ==
    ASSUME SignInv, NEW user \in User, Sign!AddsUser(user)
    PROVE  SignInv'
<1>1. rows' = Append(rows, user) /\ UNCHANGED <<log1, log2, signIn>> /\ rows \in Seq(User)
    BY DEF Sign!AddsUser, SignInv, SignType
<1>2. rows' \in Seq(User) /\ Sign!Range(rows) \subseteq Sign!Range(rows')
  <2>1. \A i \in DOMAIN rows : i \in DOMAIN rows' /\ rows'[i] = rows[i]
      BY <1>1
  <2>2. QED
      BY <1>1, <2>1 DEF Sign!Range
<1>3. Sign!SuccessIsDeserved'
    BY <1>1, <1>2 DEF SignInv, Sign!SuccessIsDeserved
<1>4. RecordsAreKept'
    BY <1>1, RecordsStay DEF SignInv, Sign!Past
<1>5. \A r \in SignIns : OneSignIn(r)' /\ OwnLines(r)'
    BY <1>1 DEF SignInv, OneSignIn, OwnLines, HasLines, Sign!Under
<1>6. QED
    BY <1>1, <1>2, <1>3, <1>4, <1>5 DEF SignInv, SignType

\* Every step.
LEMMA SignNext == SignInv /\ [Sign!Next]_Sign!vars => SignInv'
<1>1. ASSUME SignInv, UNCHANGED Sign!vars PROVE SignInv'
  <2>1. UNCHANGED <<log1, log2, rows, signIn>>
      BY <1>1 DEF Sign!vars
  <2>2. RecordsAreKept'
      BY <1>1, <2>1, RecordsStay DEF SignInv, Sign!Past
  <2>3. Sign!SuccessIsDeserved' /\ SignType'
      BY <1>1, <2>1 DEF SignInv, Sign!SuccessIsDeserved, SignType
  <2>4. \A r \in SignIns : OneSignIn(r)' /\ OwnLines(r)'
      BY <1>1, <2>1 DEF SignInv, OneSignIn, OwnLines, HasLines, Sign!Under
  <2>5. QED
      BY <2>2, <2>3, <2>4 DEF SignInv
<1>2. QED
    BY <1>1, OpensKeeps, RecordsKeeps, RequestKeeps, AddsUserKeeps DEF Sign!Next

\* SignIn counts as this module does.
LEMMA SameCardinality == \A S : Sign!Cardinality(S) = Cardinality(S)
BY DEF Sign!Cardinality, Cardinality

\* What the run checks follows from it.
LEMMA SignInvImplies == SignInv => Sign!SignInsAreLogged /\ Sign!SuccessIsDeserved
<1> SUFFICES ASSUME SignInv PROVE Sign!SignInsAreLogged
    BY DEF SignInv
<1>1. ASSUME NEW r \in SignIns, signIn[r].at = "decide", signIn[r].alone
      PROVE  log2 = [n \in 1..Sign!Lines |-> Sign!LineOf(signIn[r].user, n)]
  <2>1. log2 = [n \in 1..Len(log2) |-> log2[n]]
      BY DEF SignInv, SignType
  <2>2. Len(log2) = Sign!Lines /\ \A n \in 1..Sign!Lines : log2[n] = Sign!LineOf(signIn[r].user, n)
      BY <1>1 DEF SignInv, OwnLines, HasLines
  <2>3. QED
      BY <2>1, <2>2
<1>2. \A user \in User :
          Sign!Cardinality({r \in SignIns : Sign!Past(r) /\ signIn[r].user = user})
              <= Sign!Cardinality({n \in DOMAIN log1 : log1[n] = Sign!LineOf(user, 0)})
    BY SameCardinality DEF SignInv, RecordsAreKept, Recorded, RecordsOf
<1>3. QED
    BY <1>1, <1>2 DEF Sign!SignInsAreLogged

-----------------------------------------------------------------------------
(* Side by side.                                                           *)

\* The services share nothing: each behaves as it does alone.
LEMMA EachIsItself == MCSpec => Files!Spec /\ Sign!Spec /\ Users!Spec
<1>1. MCInit => Files!Init /\ Sign!Init /\ Users!Init
    BY DEF MCInit
<1>2. [MCNext]_mcVars => [Files!Next]_Files!vars
    BY DEF MCNext, mcVars, fileVars, Files!vars, StudentsStep, FilesStep, SignStep,
           UsersStep
<1>3. [MCNext]_mcVars => [Sign!Next]_Sign!vars
    BY DEF MCNext, mcVars, signVars, Sign!vars, StudentsStep, FilesStep, SignStep, UsersStep
<1>4. [MCNext]_mcVars => [Users!Next]_Users!vars
    BY DEF MCNext, mcVars, userVars, Users!vars, StudentsStep, FilesStep, SignStep,
           UsersStep
<1>5. QED
    BY <1>1, <1>2, <1>3, <1>4, PTL DEF MCSpec, Files!Spec, Sign!Spec, Users!Spec

\* The invariant of the upload directory.
THEOREM FilesInvariant == Files!Spec => []FilesInv
BY FilesInit, FilesNext, PTL DEF Files!Spec

\* The invariant of the user details.
THEOREM UsersInvariant == Users!Spec => [](UsersInv /\ UsersMeet)
BY UsersInit, UsersNext, MeetInit, MeetNext, PTL DEF Users!Spec

\* The invariant of the sign-in.
THEOREM SignInvariant == Sign!Spec => []SignInv
BY SignInit, SignNext, PTL DEF Sign!Spec

\* What FileSystemStorageService.store has stored after the start is there, however many
\* uploads to one name overlap or fail, unless one deleted it and failed to create its own.
THEOREM StoredStays == MCSpec => []StoredIsKept
<1>1. FilesInv => StoredIsKept
    BY FilesInvImplies DEF StoredIsKept
<1>2. QED
    BY <1>1, EachIsItself, FilesInvariant, PTL

\* FileSystemStorageService.deleteAll leaves no file of an earlier run, unless an upload
\* was taken while the application started.
THEOREM OldFilesAreGone == MCSpec => []OldFilesGo
<1>1. FilesInv => OldFilesGo
    BY FilesInvImplies DEF OldFilesGo
<1>2. QED
    BY <1>1, EachIsItself, FilesInvariant, PTL

\* A download that no upload to its name disturbs sends a whole file, although the file
\* is looked up, measured and opened one after the other (loadAsResource and serveFile).
THEOREM UndisturbedDownloads == MCSpec => []UndisturbedIsWhole
<1>1. FilesInv => UndisturbedIsWhole
    BY FilesInvImplies DEF UndisturbedIsWhole
<1>2. QED
    BY <1>1, EachIsItself, FilesInvariant, PTL

\* A login of a known user fails only when another one was adding a role while it copied,
\* is answered with roles of users that have come, and when alone with all its own, whatever
\* logins that met each other have left in the list of SysUserDetailService.
THEOREM LoginsGetTheirRoles == MCSpec => []LoginsHaveTheirRoles
<1>1. UsersInv /\ UsersMeet => LoginsHaveTheirRoles
    BY UsersInvImplies DEF LoginsHaveTheirRoles
<1>2. QED
    BY <1>1, EachIsItself, UsersInvariant, PTL

\* Filestrem.record loses no sign-in, one that is alone leaves its own lines in the second
\* file, and signIn lets nobody in who is neither stored nor built in.
THEOREM SignInsStay == MCSpec => []SignInsAreKept
<1>1. SignInv => SignInsAreKept
    BY SignInvImplies DEF SignInsAreKept
<1>2. QED
    BY <1>1, EachIsItself, SignInvariant, PTL
=============================================================================
