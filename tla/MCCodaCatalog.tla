---------------------------- MODULE MCCodaCatalog ----------------------------
(* CodaCatalog on small instances; the bounds are given in the .cfg files. *)
EXTENDS CodaCatalog

SomeStems == [s \in {"", "column", "createdAt", "createdat", "updatedAt", "updatedat",
                     "Task", "task"} |->
                CASE s = "createdAt" -> "createdat"
                  [] s = "updatedAt" -> "updatedat"
                  [] s = "Task"      -> "task"
                  [] OTHER           -> s]

OneName == {Plain("task")}

\* Two names that differ in case only.
TwoSpellings == {Plain("Task"), Plain("task")}

\* Names that numbering and system columns can run into.
HardNames == {Plain("Task"), Plain("task"), [stem |-> "task", tail |-> <<2>>],
              Plain(""), Plain("column"), Plain("createdat")}

\* Two tables of up to three columns with plain names, which users edit twice.
EditedDocs ==
    [tables : [Tables -> TwoSpellings \cup {Absent}],
     columns : {cs \in [Tables \X Columns -> OneName \cup {Absent}] :
                    \A t \in Tables, c \in Columns : c > 3 => cs[t, c] = Absent},
     edits : {2}]

\* One table of up to four columns with any of the hard names, left as it is.
HardDocs ==
    [tables : {[t \in Tables |-> IF t = 1 THEN Plain("task") ELSE Absent]},
     columns : {[p \in Tables \X Columns |-> IF p[1] = 1 THEN cs[p[2]] ELSE Absent] :
                    cs \in [Columns -> HardNames \cup {Absent}]},
     edits : {0}]

AllDocs == EditedDocs \cup HardDocs
=============================================================================
