---------------------- MODULE FileSystemStorageService ----------------------
(***************************************************************************)
(* The upload directory: interfaces.impl.FileSystemStorageService, the     *)
(* requests of controller.UploadController, and the start of Application,  *)
(* whose runner clears the directory while requests are already served.    *)
(*                                                                         *)
(* A file is named by the upload that created it, since Files.copy deletes *)
(* the name and creates a new file.  The file system is POSIX: a file that *)
(* is open can be deleted, and who has it open goes on using it.  Every    *)
(* content has Size chunks.                                                *)
(***************************************************************************)
EXTENDS Naturals

CONSTANTS Upload,    \* the requests that store a file, one file each
          Download,  \* the requests that fetch a file
          Name,      \* the file names below the root
          Size,      \* the chunks of a file
          NoFile,    \* no file has this name
          Old        \* a whole file of an earlier run of the application

VARIABLES root,      \* does rootLocation exist
          dir,       \* dir[n]: the file of this name
          len,       \* len[u]: the chunks written to the file of u
          boot,      \* where the start of the application stands
          todo,      \* the names that the walk of deleteAll has yet to delete
          up,        \* up[u]: where an upload stands, its name, and, as history,
                     \* whether it was taken before the start was over
          down,      \* down[d]: where a download stands, its name, the length
                     \* it announced, the file it has open, and, as history,
                     \* whether no upload to the name disturbed it
          lost       \* history: the names whose file was deleted for one that could
                     \* not be created, and for which none was created since

vars == <<root, dir, len, boot, todo, up, down, lost>>

AnyName == CHOOSE n \in Name : TRUE   \* the name in a request yet to come

Length(f) == IF f = Old THEN Size ELSE len[f]

Init ==
    /\ root \in BOOLEAN
    /\ dir \in [Name -> IF root THEN {NoFile, Old} ELSE {NoFile}]
    /\ len = [u \in Upload |-> 0]
    /\ boot = "quote"
    /\ todo = {}
    /\ up = [u \in Upload |-> [at |-> "new", name |-> AnyName, early |-> FALSE]]
    /\ down = [d \in Download |-> [at |-> "new", name |-> AnyName, length |-> 0,
                                   file |-> NoFile, calm |-> FALSE]]
    /\ lost = {}

-----------------------------------------------------------------------------
\* The start: Application.run and Application.init, one runner after the other.

\* The quote cannot be fetched: the exception ends the application.
QuoteFails == boot = "quote" /\ boot' = "closed" /\ UNCHANGED <<root, dir, todo>>

Present == {n \in Name : dir[n] # NoFile}

\* A wrong variant: the walk looks into another directory.
Overlooked == {}

\* deleteAll: Files.walkFileTree lists the directory, if there is one.
Listed == Present

WalkStarts ==
    /\ boot = "quote"
    /\ boot' = IF root THEN "walk" ELSE "init"
    /\ todo' = Listed
    /\ UNCHANGED <<root, dir>>

\* A file that came after the walk had begun may be listed or not.
WalkSees(n) ==
    /\ boot = "walk"
    /\ dir[n] # NoFile
    /\ todo' = todo \cup {n}
    /\ UNCHANGED <<root, dir, boot>>

WalkDeletes(n) ==
    /\ n \in todo
    /\ dir[n] # NoFile
    /\ dir' = [dir EXCEPT ![n] = NoFile]
    /\ todo' = todo \ {n}
    /\ UNCHANGED <<root, boot>>

\* A listed file is gone: the exception ends the walk and is swallowed.
WalkFails(n) ==
    /\ n \in todo
    /\ dir[n] = NoFile
    /\ todo' = {}
    /\ boot' = "init"
    /\ UNCHANGED <<root, dir>>

\* At last the directory itself, which stays when it is not empty.
WalkEnds ==
    /\ boot = "walk"
    /\ todo = {}
    /\ root' = (Present # {})
    /\ boot' = "init"
    /\ UNCHANGED <<dir, todo>>

Inits ==
    /\ boot = "init"
    /\ root' = TRUE
    /\ boot' = "up"
    /\ UNCHANGED <<dir, todo>>

BootStep ==
    /\ \/ QuoteFails \/ WalkStarts \/ WalkEnds \/ Inits
       \/ \E n \in Name : WalkSees(n) \/ WalkDeletes(n) \/ WalkFails(n)
    /\ UNCHANGED <<len, up, down, lost>>

-----------------------------------------------------------------------------
\* handleFileUpload and store.

Goes(u, pc) == up' = [up EXCEPT ![u].at = pc]

\* The file is empty or its name leads out of the root.
Refuses(u) ==
    /\ up[u].at = "new"
    /\ Goes(u, "failed")
    /\ UNCHANGED <<dir, len, down, lost>>

Accepts(u, n) ==
    /\ up[u].at = "new"
    /\ up' = [up EXCEPT ![u] = [at |-> "delete", name |-> n, early |-> boot # "up"]]
    /\ down' = [d \in Download |->
                   [down[d] EXCEPT !.calm = @ /\ down[d].name # n]]
    /\ UNCHANGED <<dir, len, lost>>

\* Files.copy with REPLACE_EXISTING: delete, create a new file, write it.
DeletesExisting(u) ==
    /\ up[u].at = "delete"
    /\ dir' = [dir EXCEPT ![up[u].name] = NoFile]
    /\ Goes(u, "create")
    /\ UNCHANGED <<len, down, lost>>

Creates(u) ==
    /\ up[u].at = "create"
    /\ root /\ dir[up[u].name] = NoFile
    /\ dir' = [dir EXCEPT ![up[u].name] = u]
    /\ lost' = lost \ {up[u].name}
    /\ Goes(u, "write")
    /\ UNCHANGED <<len, down>>

Writes(u) ==
    /\ up[u].at = "write"
    /\ len' = [len EXCEPT ![u] = @ + 1]
    /\ Goes(u, IF len[u] + 1 = Size THEN "stored" ELSE "write")
    /\ UNCHANGED <<dir, down, lost>>

Copies(u) == up[u].at \in {"delete", "create", "write"}

\* A wrong variant: an upload that fails clears the name.
CleansUp(u) ==
    /\ Copies(u)
    /\ dir' = [dir EXCEPT ![up[u].name] = NoFile]
    /\ Goes(u, "failed")
    /\ UNCHANGED <<len, down, lost>>

\* A wrong variant: store does not pass the exception on.
Swallows(u) ==
    /\ Copies(u)
    /\ Goes(u, "stored")
    /\ UNCHANGED <<dir, len, down, lost>>

\* Any of the three can fail: the file cannot be deleted, another upload has created one
\* meanwhile, the root is missing, the disk is full.  What is there stays as it is, and
\* the answer is an error.
CopyFails(u) ==
    /\ Copies(u)
    /\ lost' = IF up[u].at = "create" /\ dir[up[u].name] = NoFile
               THEN lost \cup {up[u].name} ELSE lost
    /\ Goes(u, "failed")
    /\ UNCHANGED <<dir, len, down>>

-----------------------------------------------------------------------------
\* serveFile and loadAsResource, then the framework that sends the resource.

Busy(n) == \E u \in Upload : up[u].name = n /\ Copies(u)

\* No upload to the name is under way and its file was not broken off.
Whole(n) ==
    /\ boot = "up" /\ ~Busy(n)
    /\ dir[n] = Old \/ (dir[n] \in Upload /\ up[dir[n]].at = "stored")

LoadAsResource(d, n) ==
    /\ down[d].at = "new"
    /\ down' = [down EXCEPT
                   ![d] = [at |-> IF dir[n] = NoFile THEN "missing" ELSE "measure",
                           name |-> n, length |-> 0, file |-> NoFile,
                           calm |-> Whole(n)]]

Measures(d) ==
    /\ down[d].at = "measure"
    /\ LET f == dir[down[d].name]
       IN  down' = IF f = NoFile
                   THEN [down EXCEPT ![d].at = "error"]
                   ELSE [down EXCEPT ![d].at = "open", ![d].length = Length(f)]

Opens(d) ==
    /\ down[d].at = "open"
    /\ LET f == dir[down[d].name]
       IN  down' = IF f = NoFile
                   THEN [down EXCEPT ![d].at = "cut"]
                   ELSE [down EXCEPT ![d].at = "read", ![d].file = f]

\* The open file is sent up to its present end.
Reads(d) ==
    /\ down[d].at = "read"
    /\ down' = [down EXCEPT
                   ![d].at = IF down[d].length = Size /\ Length(down[d].file) = Size
                             THEN "whole" ELSE "cut"]

RequestStep ==
    /\ boot # "closed"
    /\ \/ \E u \in Upload :
           \/ Refuses(u) \/ DeletesExisting(u) \/ Creates(u) \/ Writes(u) \/ CopyFails(u)
           \/ \E n \in Name : Accepts(u, n)
       \/ \E d \in Download :
           /\ \/ Measures(d) \/ Opens(d) \/ Reads(d)
              \/ \E n \in Name : LoadAsResource(d, n)
           /\ UNCHANGED <<dir, len, up, lost>>
    /\ UNCHANGED <<root, boot, todo>>

Next == BootStep \/ RequestStep

Spec == Init /\ [][Next]_vars

-----------------------------------------------------------------------------
\* What was stored after the start is there: its name has a file whenever no upload to it
\* is under way, however uploads to one name overlapped or failed; unless the last file of
\* that name was deleted by an upload that could then not create its own.
StoredIsKept ==
    boot = "up" =>
        \A u \in Upload : up[u].at = "stored" /\ ~up[u].early /\ ~Busy(up[u].name)
                              => dir[up[u].name] # NoFile \/ up[u].name \in lost

\* The start leaves no file of an earlier run behind, unless an upload that was
\* taken before it was over broke the walk off.
OldFilesGo ==
    boot = "up" /\ (\E n \in Name : dir[n] = Old) => \E u \in Upload : up[u].early

\* A download that no upload to its name disturbs sends a whole file.
UndisturbedIsWhole ==
    \A d \in Download : down[d].calm => down[d].at \notin {"error", "cut", "missing"}
=============================================================================
