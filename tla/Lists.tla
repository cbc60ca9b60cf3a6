--------------------------------- MODULE Lists ---------------------------------
(***************************************************************************)
(* The loop the code filters a list with, as a recursive function, and the *)
(* order of its comparisons, so that ListTheorems can say what they do.    *)
(***************************************************************************)
EXTENDS Integers, Sequences

\* s is a sequence, of whatever it holds.
IsList(s) == s \in Seq({s[i] : i \in DOMAIN s})

\* What the loop has appended after each position.
Kept(list, positions) ==
  LET kept[n \in 0..Len(list)] ==
        IF n = 0 THEN <<>>
        ELSE IF n \in positions THEN Append(kept[n - 1], list[n]) ELSE kept[n - 1]
  IN kept

\* The elements at some positions, in order.
Keep(list, positions) == Kept(list, positions)[Len(list)]

\* The elements that are in a set, in order.
KeepMembers(list, set) == Keep(list, {n \in DOMAIN list : list[n] \in set})

\* Of two tuples of numbers, s is less where they first differ.
Before(s, t) == \E i \in DOMAIN s : s[i] < t[i] /\ \A j \in 1..(i - 1) : s[j] = t[j]
=============================================================================
