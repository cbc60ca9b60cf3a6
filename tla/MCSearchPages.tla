---------------------------- MODULE MCSearchPages ----------------------------
(***************************************************************************)
(* Values for TLC: two chunks of one file that share lines, one of another *)
(* file, and matches with lines of both, of one, or of a file's name only. *)
(***************************************************************************)
EXTENDS SearchPages

ThreeChunks == <<[file |-> 1, from |-> 1, to |-> 4, fits |-> 2],
                 [file |-> 1, from |-> 3, to |-> 8, fits |-> 2],
                 [file |-> 2, from |-> 1, to |-> 5, fits |-> 0]>>

\* The contents of the first and the last chunk are equal; the second has been embedded by
\* two models.
Vector(c, m, s) == [chunk |-> c, model |-> m, score |-> s]
FourVectors == <<Vector(2, 1, 3), Vector(3, 1, 2), Vector(1, 1, 2), Vector(2, 2, 1)>>

Match(f, a, b) == [file |-> f, from |-> a, to |-> b, first |-> a, last |-> b, bare |-> FALSE]

\* Matches of lines; one whose best part is not all of it; one of a name only.
SomeIndexes == {<<Match(2, 1, 2), Match(1, 2, 4)>>,
                <<[Match(1, 4, 6) EXCEPT !.last = 4], Match(2, 9, 9)>>,
                <<[Match(1, 0, 0) EXCEPT !.bare = TRUE]>>}

SomeFilters == {{1, 2, 3}, {1, 3}}
=============================================================================
