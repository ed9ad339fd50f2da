----------------------------- MODULE MCServices -----------------------------
(***************************************************************************)
(* The services of the application that share nothing, side by side: the   *)
(* table of students and its queries, the upload directory, the sign-in    *)
(* and the user details.  The initial state picks the one that runs; the   *)
(* others stand still.                                                     *)
(***************************************************************************)
EXTENDS StudentQueries, Sequences

CONSTANTS Upload, Download, FileName, Size, NoFile, Old,
          SignIns, User, Inner, MaxRows,
          Login, Roles, Stranger, MaxSize

\* There is a file name and every file has something in it; NoFile and Old are not
\* files of an upload; the built-in account is a user; the roles of a user are a list.
ASSUME ServicesAssumption ==
    /\ FileName # {} /\ Size \in Nat \ {0}
    /\ Old \notin Upload /\ NoFile \notin Upload /\ NoFile # Old
    /\ IsFiniteSet(SignIns) /\ Inner \in User
    /\ \A user \in DOMAIN Roles : Roles[user] \in Seq(STRING)

\* A user of the sign-in is a name with a password.
MCInner == <<"admin", "a">>
MCUser == {<<"admin", "a">>, <<"ann", "a">>, <<"ann", "b">>}

\* The roles of those who log in with the form.
MCRoles == [ann |-> <<"user">>, bob |-> <<"user", "admin">>]

VARIABLES root, dir, len, boot, todo, up, down, lost,
          present, log1, log2, rows, signIn,
          elementData, size, modCount, login, came,
          service

Files == INSTANCE FileSystemStorageService WITH Name <- FileName
Sign == INSTANCE SignIn WITH Request <- SignIns, call <- signIn
Users == INSTANCE SysUserDetailService

studentVars == <<studentMap, studentId, call, query>>
fileVars == <<root, dir, len, boot, todo, up, down, lost>>
signVars == <<present, log1, log2, rows, signIn>>
userVars == <<elementData, size, modCount, login, came>>
mcVars == <<studentVars, fileVars, signVars, userVars, service>>

Runs(s) == service = s /\ service' = s

MCInit ==
    /\ service \in {"students", "queries", "files", "sign-in", "users"}
    /\ Init /\ QueryInit
    /\ Files!Init /\ (root => service = "files")
    /\ Sign!Init
    /\ service # "sign-in" => /\ present = {1, 3} /\ log1 = <<>>
                              /\ \A r \in SignIns : signIn[r].user = Inner
    /\ Users!Init

\* Two requests change the table; one does while it is queried.
StudentsStep ==
    /\ UNCHANGED <<fileVars, signVars, userVars>>
    /\ \/ Runs("students") /\ Next /\ UNCHANGED query
       \/ Runs("queries") /\ QueryNext /\ \A r \in Request \ Adder : call'[r].at = "idle"

FilesStep ==
    /\ Runs("files") /\ Files!Next
    /\ UNCHANGED <<studentVars, signVars, userVars>>

SignStep ==
    /\ Runs("sign-in") /\ Sign!Next
    /\ UNCHANGED <<studentVars, fileVars, userVars>>

UsersStep ==
    /\ Runs("users") /\ Users!Next
    /\ UNCHANGED <<studentVars, fileVars, signVars>>

MCNext == StudentsStep \/ FilesStep \/ SignStep \/ UsersStep

MCSpec == MCInit /\ [][MCNext]_mcVars

-----------------------------------------------------------------------------
\* FileSystemStorageService.store: what was stored after the start is there, however
\* uploads to one name overlapped or failed, unless one deleted it and could not create
\* its own file.
StoredIsKept == Files!StoredIsKept

\* deleteAll: the start leaves no file of an earlier run behind, unless an upload that
\* was taken before it was over broke the walk off.
OldFilesGo == Files!OldFilesGo

\* load: a download that no upload to its name disturbs sends a whole file.
UndisturbedIsWhole == Files!UndisturbedIsWhole

\* signIn and Filestrem: no record of a sign-in is lost, one that is alone leaves its own
\* lines, and nobody gets in who is neither stored nor built in.
SignInsAreKept == Sign!SignInsAreLogged /\ Sign!SuccessIsDeserved

\* loadUserByUsername: a login fails only when another one was adding a role while it
\* copied the list, an answer has only roles of users that have logged in, and a login
\* that no other overlaps has all the roles of its user.
LoginsHaveTheirRoles == Users!LoginsHaveTheirRoles
=============================================================================
