------------------------------- MODULE SignIn -------------------------------
(***************************************************************************)
(* POST /v1/signIn: controller.VueController.signIn with the log files of  *)
(* utils.Filestrem.  Every request copies logs\1.txt to logs\2.txt, adds   *)
(* its user to 1, replaces 2 with three lines, and decides by the rows of  *)
(* the user table.  One step is one access to a file or to the table; a    *)
(* file is a sequence of lines of one length.  What the copy of logs\3.txt *)
(* to logs\4.txt writes is left out.                                       *)
(***************************************************************************)
EXTENDS Naturals, Sequences, FiniteSets, SequencesExt

CONSTANTS Request,  \* the sign-ins
          User,     \* the users that sign in and that are stored: pairs of name and password
          Inner,    \* the account that is built in
          MaxRows   \* the rows of the table (a bound for TLC)

VARIABLES present,  \* which of the files 1 and 3 are there
          log1,     \* the lines of logs\1.txt
          log2,     \* the lines of logs\2.txt
          rows,     \* the user table
          call      \* where each request stands

vars == <<present, log1, log2, rows, call>>

Lines == 3
LineOf(user, n) == <<user, n>>
Gap == <<Inner, 0>>  \* what a write behind the end of a file leaves in between

\* A request: its user, how many lines it has read and written since it opened the file,
\* whether no other one was under way with it, and its answer.
Call(user) == [at |-> "called", user |-> user, line |-> 0, alone |-> TRUE, code |-> 0]
Under == {r \in Request : call[r].at \notin {"called", "returned", "failed"}}

\* A write at the place that the writer has reached, whatever became of the file.
WriteAt(file, n, line) ==
    [i \in 1..(IF n > Len(file) THEN n ELSE Len(file)) |->
        IF i = n THEN line ELSE IF i <= Len(file) THEN file[i] ELSE Gap]

-----------------------------------------------------------------------------
\* br_bw opens 1, empties 2, and opens 3: without 1 nothing happens, without 3 file 2 is
\* empty when the request fails.
Opens(r) ==
    /\ call[r].at = "called"
    /\ log2' = IF 1 \in present THEN <<>> ELSE log2
    /\ call' = [q \in Request |->
                  IF q = r THEN [call[r] EXCEPT !.at = IF present = {1, 3} THEN "copy" ELSE "failed",
                                                !.alone = Under = {}]
                  ELSE [call[q] EXCEPT !.alone = @ /\ q \notin Under]]
    /\ UNCHANGED <<present, log1, rows>>

CopiesLine(r) ==
    /\ call[r].at = "copy" /\ call[r].line < Len(log1)
    /\ log2' = WriteAt(log2, call[r].line + 1, log1[call[r].line + 1])
    /\ call' = [call EXCEPT ![r].line = @ + 1]
    /\ UNCHANGED <<present, log1, rows>>
EndOfCopy(r) ==
    /\ call[r].at = "copy" /\ call[r].line >= Len(log1)
    /\ call' = [call EXCEPT ![r].at = "record"]
    /\ UNCHANGED <<present, log1, log2, rows>>

\* record.  A wrong variant: the file is written anew.
RecordsAnew(user) == log1' = <<LineOf(user, 0)>>
AppendsRecord(user) == log1' = Append(log1, LineOf(user, 0))
Records(r) ==
    /\ call[r].at = "record"
    /\ AppendsRecord(call[r].user)
    /\ call' = [call EXCEPT ![r].at = "empty"]
    /\ UNCHANGED <<present, log2, rows>>

\* userrecord.
EmptiesLog2 == log2' = <<>>
Empties(r) ==
    /\ call[r].at = "empty"
    /\ EmptiesLog2
    /\ call' = [call EXCEPT ![r].at = "write", ![r].line = 0]
    /\ UNCHANGED <<present, log1, rows>>
WritesLine(r) ==
    /\ call[r].at = "write" /\ call[r].line < Lines
    /\ log2' = WriteAt(log2, call[r].line + 1, LineOf(call[r].user, call[r].line + 1))
    /\ call' = [call EXCEPT ![r].line = @ + 1,
                            ![r].at = IF call[r].line + 1 = Lines THEN "decide" ELSE @]
    /\ UNCHANGED <<present, log1, rows>>

\* The loop over the rows: each overwrites the answer.
Matches(row, user) == row = user
CodeFor(row, user) == IF Matches(row, user) \/ user = Inner THEN 1000 ELSE 500
Code(user) == IF rows = <<>> THEN 0 ELSE CodeFor(Last(rows), user)
Decides(r) ==
    /\ call[r].at = "decide"
    /\ call' = [call EXCEPT ![r].at = "returned", ![r].code = Code(call[r].user)]
    /\ UNCHANGED <<present, log1, log2, rows>>

\* addNewUser
AddsUser(user) ==
    /\ Len(rows) < MaxRows
    /\ rows' = Append(rows, user)
    /\ UNCHANGED <<present, log1, log2, call>>

Init ==
    /\ present \in SUBSET {1, 3}
    /\ log1 \in {<<>>, <<LineOf(Inner, 0)>>}
    /\ log2 = <<>> /\ rows = <<>>
    /\ call \in [Request -> {Call(user) : user \in User}]

Next ==
    \/ \E r \in Request : \/ Opens(r) \/ CopiesLine(r) \/ EndOfCopy(r) \/ Records(r)
                          \/ Empties(r) \/ WritesLine(r) \/ Decides(r)
    \/ \E user \in User : AddsUser(user)

Spec == Init /\ [][Next]_vars

-----------------------------------------------------------------------------
Past(r) == call[r].at \in {"empty", "write", "decide", "returned"}

\* Sign-ins that overlap mix their lines in logs\2.txt; one that is alone leaves its own,
\* and no record of any of them is lost.
SignInsAreLogged ==
    /\ \A r \in Request : call[r].at = "decide" /\ call[r].alone =>
           log2 = [n \in 1..Lines |-> LineOf(call[r].user, n)]
    /\ \A user \in User :
           Cardinality({r \in Request : Past(r) /\ call[r].user = user})
               <= Cardinality({n \in DOMAIN log1 : log1[n] = LineOf(user, 0)})

\* The last row decides, so that a stored user may be refused; nobody gets in who is
\* neither stored nor built in, and the built-in account does as soon as a row is there.
SuccessIsDeserved ==
    \A r \in Request :
        /\ call[r].code = 1000 => call[r].user \in Range(rows) \cup {Inner}
        /\ call[r].code = 500 => call[r].user # Inner
=============================================================================
