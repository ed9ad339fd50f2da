\* Two requests that change the table and one that queries it; two uploads and a
\* download over two names; two sign-ins; two threads in which users log in. The
\* requests are finitely many, so that a service may come to an end.
SPECIFICATION MCSpec
CONSTANTS
    Request = {r1, r2}
    Adder = {r1}
    Name = {"Ann"}
    MaxId = 10005
    Reader = {q1}
    NoStudent = NoStudent
    Upload = {u1, u2}
    Download = {d1}
    FileName = {n1, n2}
    Size = 2
    NoFile = NoFile
    Old = Old
    SignIns = {i1, i2}
    User <- MCUser
    Inner <- MCInner
    MaxRows = 1
    Login = {l1, l2}
    Roles <- MCRoles
    Stranger = Stranger
    MaxSize = 2
INVARIANTS
    AnswersAreOfTheTable
    StoredIsKept
    OldFilesGo
    UndisturbedIsWhole
    SignInsAreKept
    
PROPERTIES
    InsertAddsARow
    TableSpec
CHECK_DEADLOCK FALSE
