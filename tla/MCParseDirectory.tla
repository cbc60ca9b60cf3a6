---------------------------- MODULE MCParseDirectory ----------------------------
(***************************************************************************)
(* Values for TLC: five small files of which every goroutine has at most   *)
(* two ways to go; or one file, whose lines are any of some.               *)
(***************************************************************************)
EXTENDS ParseDirectory

LineOf(length) == [length |-> length, text |-> length > 0]
File(lines, found) ==
  [directory |-> "kept", kind |-> "code", lines |-> lines, found |-> found]

\* Two functions and a class that one of them belongs to.
Go == File(<<LineOf(3), LineOf(2), LineOf(0)>>,
           <<<<[from |-> 1, to |-> 1], [from |-> 2, to |-> 2]>>, <<[from |-> 1, to |-> 2]>>>>)
Notes == File(<<LineOf(2), LineOf(0), LineOf(3)>>, <<>>)

FiveFiles == <<Notes, Go, [Notes EXCEPT !.kind = "test"], Notes, [Go EXCEPT !.directory = "skipped"],
               Notes, Notes>>

\* A line of blanks has a length, too.
Lines == {LineOf(n) : n \in {0, 1, 3, 5}} \cup {[length |-> 1, text |-> FALSE]}
SomeTrees == {FiveFiles} \cup {<<File(lines, <<>>)>> : lines \in UNION {[1..n -> Lines] : n \in 1..4}}
=============================================================================
