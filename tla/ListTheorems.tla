------------------------------ MODULE ListTheorems ------------------------------
(***************************************************************************)
(* Induction over the positions of a list, from the least number of a set; *)
(* recursion along them; what filtering a list leaves; and finite sets in  *)
(* an order.                                                               *)
(***************************************************************************)
EXTENDS Lists, FiniteSetTheorems, SequenceTheorems, WellFoundedInduction, TLAPS

\* A set of numbers has a least one.
LEMMA LeastNumber ==
  ASSUME NEW T \in SUBSET Nat, T # {}
  PROVE  \E m \in T : \A n \in T : m <= n
<1> DEFINE R == OpToRel(<, Nat)
<1>1. IsWellFoundedOn(R, Nat)
  BY NatLessThanWellFounded
<1>2. \A x, y \in Nat : x < y => <<x, y>> \in R
  BY DEF OpToRel
<1> HIDE DEF R
<1>3. \E x \in T : \A y \in T : ~(<<y, x>> \in R)
  BY <1>1, WFMin
<1>4. PICK x \in T : \A y \in T : ~(<<y, x>> \in R)
  BY <1>3
<1>5. ASSUME NEW n \in T
      PROVE  x <= n
  <2>1. x \in Nat /\ n \in Nat /\ ~(n < x)
    BY <1>2, <1>4
  <2> QED BY <2>1
<1> QED BY <1>5

\* A set with 0 and the successors of its numbers below N reaches N.
THEOREM UpTo ==
  ASSUME NEW N \in Nat, NEW T, 0 \in T, \A n \in 0..(N - 1) : n \in T => n + 1 \in T
  PROVE  \A n \in 0..N : n \in T
<1> DEFINE Out == {n \in 0..N : n \notin T}
<1> SUFFICES ASSUME Out # {}
             PROVE  FALSE
  OBVIOUS
<1>a. Out \in SUBSET Nat
  OBVIOUS
<1>1. PICK m \in Out : \A n \in Out : m <= n
  <2> HIDE DEF Out
  <2> QED BY <1>a, LeastNumber
<1>2. m \in 1..N /\ m - 1 \in 0..(N - 1) /\ m - 1 \notin Out
  BY <1>1
<1>3. m - 1 \in T /\ (m - 1) + 1 = m
  BY <1>2
<1> QED BY <1>1, <1>2, <1>3

\* g computes each value from the one before.
Recurses(g, V, N, first, step) ==
  /\ g \in [0..N -> V] /\ g[0] = first
  /\ \A n \in 1..N : g[n] = step[n][g[n - 1]]

\* There is a function that does.
THEOREM Recursion ==
  ASSUME NEW V, NEW N \in Nat, NEW first \in V, NEW step \in [1..N -> [V -> V]]
  PROVE  \E g : Recurses(g, V, N, first, step)
<1> DEFINE T == {n \in 0..N : \E g : Recurses(g, V, n, first, step)}
<1>1. 0 \in T
  <2>1. Recurses([k \in 0..0 |-> first], V, 0, first, step)
    BY DEF Recurses
  <2>2. 0 \in 0..N
    OBVIOUS
  <2> QED BY <2>1, <2>2
<1>2. ASSUME NEW n \in 0..(N - 1), n \in T
      PROVE  n + 1 \in T
  <2>1. PICK g : Recurses(g, V, n, first, step)
    BY <1>2
  <2> DEFINE h == [k \in 0..(n + 1) |-> IF k = n + 1 THEN step[n + 1][g[n]] ELSE g[k]]
  <2>2. g[n] \in V /\ n + 1 \in 1..N
    BY <2>1 DEF Recurses
  <2>3. step[n + 1][g[n]] \in V
    BY <2>2
  <2>4. h \in [0..(n + 1) -> V] /\ h[0] = first
    BY <2>1, <2>3 DEF Recurses
  <2>5. ASSUME NEW k \in 1..(n + 1)
        PROVE  h[k] = step[k][h[k - 1]]
    <3>1. CASE k = n + 1
      <4>1. h[k - 1] = g[n]
        BY <3>1
      <4> QED BY <3>1, <4>1
    <3>2. CASE k # n + 1
      <4>1. k \in 1..n /\ k - 1 \in 0..n /\ h[k] = g[k] /\ h[k - 1] = g[k - 1]
        BY <3>2
      <4> QED BY <2>1, <4>1 DEF Recurses
    <3> QED BY <3>1, <3>2
  <2>6. Recurses(h, V, n + 1, first, step)
    BY <2>4, <2>5 DEF Recurses
  <2> QED BY <2>2, <2>6
<1> HIDE DEF T
<1>3. \A n \in 0..N : n \in T
  BY <1>1, <1>2, UpTo
<1> QED BY <1>3 DEF T

-----------------------------------------------------------------------------
(* Filtering.                                                              *)

LEMMA Appended ==
  ASSUME NEW V, NEW s \in Seq(V), NEW x \in V
  PROVE  /\ Append(s, x) \in Seq(V)
         /\ Len(Append(s, x)) = Len(s) + 1 /\ Len(s) \in Nat
         /\ Append(s, x)[Len(s) + 1] = x
         /\ \A k \in 1..Len(s) : Append(s, x)[k] = s[k]
OBVIOUS

LEMMA KeptType ==
  ASSUME NEW V, NEW list \in Seq(V), NEW positions
  PROVE  /\ Kept(list, positions) \in [0..Len(list) -> Seq(V)]
         /\ Kept(list, positions)[0] = <<>>
         /\ \A n \in 1..Len(list) : Kept(list, positions)[n] =
              IF n \in positions THEN Append(Kept(list, positions)[n - 1], list[n])
              ELSE Kept(list, positions)[n - 1]
<1> DEFINE N == Len(list)
           W == Seq(V)
           step == [n \in 1..N |->
                      [s \in W |-> IF n \in positions THEN Append(s, list[n]) ELSE s]]
           f == Kept(list, positions)
           Is(g) == g = [n \in 0..N |->
                           IF n = 0 THEN <<>>
                           ELSE IF n \in positions THEN Append(g[n - 1], list[n]) ELSE g[n - 1]]
<1>1. N \in Nat /\ <<>> \in W /\ step \in [1..N -> [W -> W]]
  OBVIOUS
<1>2. \E g : Recurses(g, W, N, <<>>, step)
  <2> HIDE DEF N, step, W
  <2> QED BY <1>1, Recursion
<1>3. PICK g \in [0..N -> W] : g[0] = <<>> /\ \A n \in 1..N : g[n] = step[n][g[n - 1]]
  BY <1>2 DEF Recurses
<1>4. ASSUME NEW n \in 1..N
      PROVE  g[n] = IF n \in positions THEN Append(g[n - 1], list[n]) ELSE g[n - 1]
  <2>1. g[n - 1] \in W
    BY <1>1
  <2> QED BY <1>3, <2>1
<1>5. Is(g)
  <2>1. \A n \in 0..N : n = 0 \/ n \in 1..N
    BY <1>1
  <2>2. g = [n \in 0..N |-> g[n]]
    BY <1>3
  <2> HIDE DEF N, W
  <2> QED BY <1>3, <1>4, <2>1, <2>2
<1>6. Is(f)
  BY <1>5 DEF Kept
<1> HIDE DEF step, f, N, W
<1> DEFINE T == {n \in 0..N : f[n] = g[n]}
<1>7. 0 \in T
  BY <1>1, <1>3, <1>6
<1>8. ASSUME NEW n \in 0..(N - 1), n \in T
      PROVE  n + 1 \in T
  <2>1. n + 1 \in 0..N /\ n + 1 \in 1..N /\ n + 1 # 0 /\ (n + 1) - 1 = n /\ f[n] = g[n]
    BY <1>1, <1>8
  <2>2. f[n + 1] = IF n + 1 \in positions THEN Append(f[n], list[n + 1]) ELSE f[n]
    BY <1>6, <2>1
  <2>3. g[n + 1] = IF n + 1 \in positions THEN Append(g[n], list[n + 1]) ELSE g[n]
    BY <1>4, <2>1
  <2> QED BY <2>1, <2>2, <2>3
<1> HIDE DEF T
<1>9. \A n \in 0..N : n \in T
  BY <1>1, <1>7, <1>8, UpTo
<1>10. f = g
  <2>1. f = [n \in 0..N |-> f[n]] /\ g = [n \in 0..N |-> g[n]]
    BY <1>3, <1>6
  <2> QED BY <1>9, <2>1 DEF T
<1> QED BY <1>3, <1>4, <1>10 DEF f, N, W

\* One more position.
LEMMA KeepStep ==
  ASSUME NEW V, NEW list \in Seq(V), NEW positions, NEW n \in Nat, n + 1 \in 1..Len(list)
  PROVE  /\ Kept(list, positions)[n] \in Seq(V) /\ list[n + 1] \in V
         /\ Kept(list, positions)[n + 1] =
              IF n + 1 \in positions THEN Append(Kept(list, positions)[n], list[n + 1])
              ELSE Kept(list, positions)[n]
<1>1. n \in 0..Len(list) /\ (n + 1) - 1 = n /\ list[n + 1] \in V
  OBVIOUS
<1> QED BY <1>1, KeptType

\* s is what list has at the positions at, which are increasing, and all those asked
\* for up to n.
Picks(s, list, positions, at, n) ==
  /\ at \in [1..Len(s) -> 1..n]
  /\ \A k \in 1..Len(s) : at[k] \in positions /\ s[k] = list[at[k]]
  /\ \A j, k \in 1..Len(s) : j < k => at[j] < at[k]
  /\ \A i \in 1..n : i \in positions => \E k \in 1..Len(s) : at[k] = i

LEMMA PicksNext ==
  ASSUME NEW V, NEW s \in Seq(V), NEW list, NEW positions, NEW at, NEW n \in Nat,
         Picks(s, list, positions, at, n), list[n + 1] \in V
  PROVE  \E new : Picks(IF n + 1 \in positions THEN Append(s, list[n + 1]) ELSE s,
                        list, positions, new, n + 1)
<1>1. CASE n + 1 \in positions
  <2> DEFINE t == Append(s, list[n + 1])
             L == Len(s)
             new == [k \in 1..(L + 1) |-> IF k = L + 1 THEN n + 1 ELSE at[k]]
  <2>1. Len(t) = L + 1 /\ L \in Nat /\ t[L + 1] = list[n + 1] /\ \A k \in 1..L : t[k] = s[k]
    BY Appended
  <2>2. \A k \in 1..L : at[k] \in 1..n
    BY DEF Picks
  <2> HIDE DEF t, L
  <2>3. new \in [1..Len(t) -> 1..(n + 1)]
    BY <2>1, <2>2
  <2>4. \A k \in 1..L : k \in 1..(L + 1) /\ new[k] = at[k]
    BY <2>1
  <2>5. \A k \in 1..Len(t) : k = L + 1 \/ k \in 1..L
    BY <2>1
  <2>6. L + 1 \in 1..(L + 1) /\ new[L + 1] = n + 1
    BY <2>1
  <2> HIDE DEF new
  <2>7. \A k \in 1..Len(t) : new[k] \in positions /\ t[k] = list[new[k]]
    BY <1>1, <2>1, <2>4, <2>5, <2>6 DEF Picks, L
  <2>8. ASSUME NEW j \in 1..Len(t), NEW k \in 1..Len(t), j < k
        PROVE  new[j] < new[k]
    <3>1. j \in 1..L
      BY <2>1, <2>8
    <3>2. new[j] = at[j] /\ at[j] \in 1..n
      BY <2>2, <2>4, <3>1
    <3>3. CASE k = L + 1
      BY <2>6, <3>2, <3>3
    <3>4. CASE k \in 1..L
      BY <2>4, <2>8, <3>1, <3>2, <3>4 DEF Picks, L
    <3> QED BY <2>5, <3>3, <3>4
  <2>9. ASSUME NEW i \in 1..(n + 1), i \in positions
        PROVE  \E k \in 1..Len(t) : new[k] = i
    <3>1. i = n + 1 \/ i \in 1..n
      OBVIOUS
    <3> QED BY <2>1, <2>4, <2>6, <2>9, <3>1 DEF Picks, L
  <2>10. Picks(t, list, positions, new, n + 1)
    BY <2>3, <2>7, <2>8, <2>9 DEF Picks
  <2> QED BY <1>1, <2>10 DEF t
<1>2. CASE n + 1 \notin positions
  <2>1. \A i \in 1..n : i \in 1..(n + 1)
    OBVIOUS
  <2>2. \A i \in 1..(n + 1) : i \in positions => i \in 1..n
    BY <1>2
  <2>3. Picks(s, list, positions, at, n + 1)
    BY <2>1, <2>2 DEF Picks
  <2> QED BY <1>2, <2>3
<1> QED BY <1>1, <1>2

\* A filtered list is the list at increasing positions, all that were asked for.
THEOREM KeepPicks ==
  ASSUME NEW V, NEW list \in Seq(V), NEW positions
  PROVE  /\ Keep(list, positions) \in Seq(V)
         /\ \E at : Picks(Keep(list, positions), list, positions, at, Len(list))
<1> DEFINE N == Len(list)
           f == Kept(list, positions)
           T == {n \in 0..N : \E at : Picks(f[n], list, positions, at, n)}
<1>1. N \in Nat /\ f \in [0..N -> Seq(V)] /\ f[0] = <<>> /\ f[N] = Keep(list, positions)
  BY KeptType DEF Keep
<1>2. \A n \in 0..(N - 1) :
        /\ f[n] \in Seq(V) /\ list[n + 1] \in V
        /\ f[n + 1] = IF n + 1 \in positions THEN Append(f[n], list[n + 1]) ELSE f[n]
  BY KeepStep
<1> HIDE DEF f, N
<1>3. 0 \in T
  <2>1. Picks(<<>>, list, positions, [k \in 1..0 |-> 0], 0)
    BY DEF Picks
  <2> QED BY <1>1, <2>1
<1>4. ASSUME NEW n \in 0..(N - 1), n \in T
      PROVE  n + 1 \in T
  <2>1. PICK at : Picks(f[n], list, positions, at, n)
    BY <1>4
  <2>2. n \in Nat /\ n + 1 \in 0..N
    BY <1>1
  <2>3. \E new : Picks(f[n + 1], list, positions, new, n + 1)
    BY <1>2, <2>1, <2>2, PicksNext
  <2> QED BY <2>2, <2>3
<1> HIDE DEF T
<1>5. \A n \in 0..N : n \in T
  BY <1>1, <1>3, <1>4, UpTo
<1>6. N \in T /\ N = Len(list)
  BY <1>1, <1>5 DEF N
<1> QED BY <1>1, <1>6 DEF T
-----------------------------------------------------------------------------
(* More about filtered lists.                                              *)

\* What increases cannot fall behind its argument.
LEMMA PositionsGrow ==
  ASSUME NEW m \in Nat, NEW n \in Nat, NEW at \in [1..m -> 1..n],
         \A j, k \in 1..m : j < k => at[j] < at[k]
  PROVE  /\ \A k \in 1..m : k <= at[k]
         /\ m <= n
<1> DEFINE T == {k \in 0..m : k = 0 \/ k <= at[k]}
<1>1. 0 \in T
  OBVIOUS
<1>2. ASSUME NEW k \in 0..(m - 1), k \in T
      PROVE  k + 1 \in T
  <2>1. k + 1 \in 1..m /\ at[k + 1] \in 1..n
    OBVIOUS
  <2>2. CASE k = 0
    BY <2>1, <2>2
  <2>3. CASE k # 0
    <3>1. k \in 1..m /\ at[k] \in 1..n /\ k <= at[k] /\ at[k] < at[k + 1]
      BY <1>2, <2>1, <2>3
    <3> QED BY <2>1, <3>1
  <2> QED BY <2>2, <2>3
<1> HIDE DEF T
<1>3. \A k \in 0..m : k \in T
  BY <1>1, <1>2, UpTo
<1>4. \A k \in 1..m : k <= at[k] /\ at[k] \in 1..n
  BY <1>3 DEF T
<1>5. m <= n
  <2>1. m = 0 \/ m \in 1..m
    OBVIOUS
  <2> QED BY <1>4, <2>1
<1> QED BY <1>4, <1>5

\* Only the identity arranges 1 to n in increasing order.
LEMMA IncreasingIsIdentity ==
  ASSUME NEW n \in Nat, NEW p \in [1..n -> 1..n], \A i, j \in 1..n : i < j => p[i] < p[j]
  PROVE  \A i \in 1..n : p[i] = i
<1> DEFINE q == [k \in 1..n |-> n + 1 - p[n + 1 - k]]
<1>1. \A k \in 1..n : n + 1 - k \in 1..n /\ p[k] \in 1..n
  OBVIOUS
<1>2. q \in [1..n -> 1..n]
  BY <1>1
<1>3. \A j, k \in 1..n : j < k => q[j] < q[k]
  <2> SUFFICES ASSUME NEW j \in 1..n, NEW k \in 1..n, j < k
               PROVE  q[j] < q[k]
    OBVIOUS
  <2>1. n + 1 - k < n + 1 - j /\ n + 1 - k \in 1..n /\ n + 1 - j \in 1..n
    OBVIOUS
  <2>2. p[n + 1 - k] < p[n + 1 - j] /\ p[n + 1 - k] \in 1..n /\ p[n + 1 - j] \in 1..n
    BY <2>1
  <2> QED BY <2>2
<1> HIDE DEF q
<1>4. \A k \in 1..n : k <= p[k]
  BY PositionsGrow
<1>5. \A k \in 1..n : k <= q[k]
  BY <1>2, <1>3, PositionsGrow
<1>6. ASSUME NEW i \in 1..n
      PROVE  p[i] <= i
  <2>1. n + 1 - i \in 1..n /\ n + 1 - (n + 1 - i) = i /\ p[i] \in 1..n
    OBVIOUS
  <2>2. n + 1 - i <= n + 1 - p[i]
    BY <1>5, <2>1 DEF q
  <2> QED BY <2>1, <2>2
<1>7. ASSUME NEW i \in 1..n
      PROVE  p[i] = i
  <2>1. p[i] \in 1..n /\ p[i] <= i /\ i <= p[i]
    BY <1>4, <1>6
  <2> QED BY <2>1
<1> QED BY <1>7

\* Filtering makes no list longer.
LEMMA KeepLength ==
  ASSUME NEW V, NEW list \in Seq(V), NEW positions
  PROVE  Len(Keep(list, positions)) <= Len(list)
<1>1. /\ Keep(list, positions) \in Seq(V)
      /\ \E at : Picks(Keep(list, positions), list, positions, at, Len(list))
  BY KeepPicks
<1>2. PICK at : Picks(Keep(list, positions), list, positions, at, Len(list))
  BY <1>1
<1>3. Len(Keep(list, positions)) \in Nat /\ Len(list) \in Nat
  BY <1>1
<1> QED BY <1>2, <1>3, PositionsGrow DEF Picks

\* s is where t starts.
Starts(s, t) == Len(s) <= Len(t) /\ \A k \in 1..Len(s) : s[k] = t[k]

\* Filtering by a set that has all there is changes nothing.
THEOREM KeepAll ==
  ASSUME NEW V, NEW list \in Seq(V), NEW set, \A n \in DOMAIN list : list[n] \in set
  PROVE  KeepMembers(list, set) = list
<1> DEFINE all == {n \in DOMAIN list : list[n] \in set}
           N == Len(list)
           f == Kept(list, all)
           Copied(s, n) == Len(s) = n /\ \A k \in 1..n : s[k] = list[k]
           T == {n \in 0..N : Copied(f[n], n)}
<1>1. N \in Nat /\ f \in [0..N -> Seq(V)] /\ f[0] = <<>>
  BY KeptType
<1>2. ASSUME NEW n \in 0..(N - 1)
      PROVE  f[n] \in Seq(V) /\ list[n + 1] \in V /\ f[n + 1] = Append(f[n], list[n + 1])
  <2>1. n \in Nat /\ n + 1 \in 1..N /\ n + 1 \in all
    OBVIOUS
  <2> HIDE DEF all
  <2> QED BY <2>1, KeepStep
<1> HIDE DEF f, all
<1>3. 0 \in T
  BY <1>1
<1>4. ASSUME NEW n \in 0..(N - 1), n \in T
      PROVE  n + 1 \in T
  <2>1. n \in Nat /\ n + 1 \in 0..N /\ Copied(f[n], n)
    BY <1>1, <1>4
  <2> DEFINE s == f[n]
             x == list[n + 1]
             t == Append(s, x)
  <2>2. s \in Seq(V) /\ x \in V /\ f[n + 1] = t
    BY <1>2
  <2>3. Len(s) = n /\ \A k \in 1..n : s[k] = list[k]
    BY <2>1
  <2> HIDE DEF s, x
  <2>4. Len(t) = Len(s) + 1 /\ t[Len(s) + 1] = x /\ \A k \in 1..Len(s) : t[k] = s[k]
    BY <2>2, Appended
  <2> HIDE DEF t
  <2>5. \A k \in 1..(n + 1) : k \in 1..n \/ k = n + 1
    BY <2>1
  <2>6. Copied(t, n + 1)
    BY <2>3, <2>4, <2>5 DEF x
  <2> QED BY <2>1, <2>2, <2>6
<1> HIDE DEF T
<1>5. \A n \in 0..N : n \in T
  BY <1>1, <1>3, <1>4, UpTo
<1>6. Copied(f[N], N) /\ f[N] \in Seq(V)
  BY <1>1, <1>5 DEF T
<1>7. f[N] = list
  <2> DEFINE t == f[N]
  <2>1. t \in Seq(V) /\ list \in Seq(V) /\ Len(t) = Len(list) /\ \A k \in 1..Len(list) : t[k] = list[k]
    BY <1>6
  <2> HIDE DEF t, N
  <2>2. t = list
    BY <2>1
  <2> QED BY <2>2 DEF t
<1> QED BY <1>7 DEF KeepMembers, Keep, f, all
-----------------------------------------------------------------------------
(* Lists of whatever they hold.                                            *)

THEOREM ListIs ==
  ASSUME NEW n \in Nat, NEW s, DOMAIN s = 1..n, s = [k \in 1..n |-> s[k]]
  PROVE  IsList(s) /\ Len(s) = n
<1> DEFINE V == {s[i] : i \in DOMAIN s}
<1>1. s \in [1..n -> V]
  OBVIOUS
<1>2. s \in Seq(V)
  BY <1>1
<1> QED BY <1>2 DEF IsList

THEOREM ListAppend ==
  ASSUME NEW s, IsList(s), NEW x
  PROVE  /\ Len(s) \in Nat /\ DOMAIN s = 1..Len(s)
         /\ IsList(Append(s, x)) /\ Len(Append(s, x)) = Len(s) + 1
         /\ DOMAIN Append(s, x) = 1..(Len(s) + 1)
         /\ Append(s, x)[Len(s) + 1] = x /\ \A k \in 1..Len(s) : Append(s, x)[k] = s[k]
<1> DEFINE V == {s[i] : i \in DOMAIN s} \cup {x}
           t == Append(s, x)
<1>1. s \in Seq({s[i] : i \in DOMAIN s})
  BY DEF IsList
<1>2. s \in Seq(V) /\ x \in V
  BY <1>1
<1> HIDE DEF V
<1>3. /\ Len(s) \in Nat /\ DOMAIN s = 1..Len(s) /\ t \in Seq(V) /\ Len(t) = Len(s) + 1
      /\ t[Len(s) + 1] = x /\ \A k \in 1..Len(s) : t[k] = s[k]
  BY <1>2, Appended
<1>4. DOMAIN t = 1..(Len(s) + 1) /\ t = [k \in 1..(Len(s) + 1) |-> t[k]]
  <2>1. \A u \in Seq(V) : DOMAIN u = 1..Len(u) /\ u = [k \in 1..Len(u) |-> u[k]]
    OBVIOUS
  <2> HIDE DEF t
  <2> QED BY <1>3, <2>1
<1>5. IsList(t)
  BY <1>3, <1>4, ListIs
<1> QED BY <1>3, <1>4, <1>5
-----------------------------------------------------------------------------
(* Orders.                                                                 *)

StrictOrder(R, S) ==
  /\ \A x \in S : <<x, x>> \notin R
  /\ \A x, y, z \in S : <<x, y>> \in R /\ <<y, z>> \in R => <<x, z>> \in R
  /\ \A x, y \in S : x # y => <<x, y>> \in R \/ <<y, x>> \in R

\* What comes before x.
Earlier(R, S, x) == {y \in S : <<y, x>> \in R}

\* Tuples of numbers are strictly ordered by where they first differ.
LEMMA BeforeOrder ==
  ASSUME NEW n \in Nat, NEW s \in [1..n -> Int], NEW t \in [1..n -> Int]
  PROVE  /\ ~Before(s, s)
         /\ s # t => Before(s, t) \/ Before(t, s)
         /\ \A u \in [1..n -> Int] : Before(s, t) /\ Before(t, u) => Before(s, u)
<1>1. ~Before(s, s)
  BY DEF Before
<1>2. ASSUME s # t
      PROVE  Before(s, t) \/ Before(t, s)
  <2> DEFINE Off == {i \in 1..n : s[i] # t[i]}
  <2>1. Off \in SUBSET Nat /\ Off # {}
    BY <1>2
  <2>2. \E m \in Off : \A i \in Off : m <= i
    <3> HIDE DEF Off
    <3> QED BY <2>1, LeastNumber
  <2>3. PICK m \in Off : \A i \in Off : m <= i
    BY <2>2
  <2>4. m \in 1..n /\ s[m] # t[m] /\ s[m] \in Int /\ t[m] \in Int
    OBVIOUS
  <2>5. \A j \in 1..(m - 1) : s[j] = t[j]
    <3> SUFFICES ASSUME NEW j \in 1..(m - 1)
                 PROVE  s[j] = t[j]
      OBVIOUS
    <3>1. j \in 1..n /\ ~(m <= j)
      BY <2>4
    <3> QED BY <2>3, <3>1
  <2>6. CASE s[m] < t[m]
    BY <2>4, <2>5, <2>6 DEF Before
  <2>7. CASE t[m] < s[m]
    BY <2>4, <2>5, <2>7 DEF Before
  <2> QED BY <2>4, <2>6, <2>7
<1>3. ASSUME NEW u \in [1..n -> Int], Before(s, t), Before(t, u)
      PROVE  Before(s, u)
  <2>1. PICK i \in 1..n : s[i] < t[i] /\ \A j \in 1..(i - 1) : s[j] = t[j]
    BY <1>3 DEF Before
  <2>2. PICK k \in 1..n : t[k] < u[k] /\ \A j \in 1..(k - 1) : t[j] = u[j]
    BY <1>3 DEF Before
  <2>3. s[i] \in Int /\ t[i] \in Int /\ u[i] \in Int /\ s[k] \in Int /\ t[k] \in Int /\ u[k] \in Int
    OBVIOUS
  <2>4. CASE i <= k
    <3>1. \A j \in 1..(i - 1) : j \in 1..(k - 1)
      BY <2>4
    <3>2. i = k \/ i \in 1..(k - 1)
      BY <2>4
    <3>3. s[i] < u[i]
      BY <2>1, <2>2, <2>3, <3>2
    <3> QED BY <2>1, <2>2, <3>1, <3>3 DEF Before
  <2>5. CASE k < i
    <3>1. k \in 1..(i - 1) /\ \A j \in 1..(k - 1) : j \in 1..(i - 1)
      BY <2>5
    <3>2. s[k] < u[k]
      BY <2>1, <2>2, <2>3, <3>1
    <3> QED BY <2>1, <2>2, <3>1, <3>2 DEF Before
  <2> QED BY <2>4, <2>5
<1> QED BY <1>1, <1>2, <1>3

\* So things that each have a tuple of their own are.
THEOREM TupleOrder ==
  ASSUME NEW S, NEW n \in Nat, NEW tuple \in [S -> [1..n -> Int]],
         \A x, y \in S : x # y => tuple[x] # tuple[y],
         NEW R, \A x, y \in S : <<x, y>> \in R <=> Before(tuple[x], tuple[y])
  PROVE  StrictOrder(R, S)
<1>1. \A x, y \in S : <<x, y>> \in R <=> Before(tuple[x], tuple[y])
  OBVIOUS
<1>2. \A x \in S : tuple[x] \in [1..n -> Int]
  OBVIOUS
<1>3. \A x \in S : <<x, x>> \notin R
  BY <1>1, <1>2, BeforeOrder
<1>4. ASSUME NEW x \in S, NEW y \in S, NEW z \in S, <<x, y>> \in R, <<y, z>> \in R
      PROVE  <<x, z>> \in R
  <2>1. Before(tuple[x], tuple[y]) /\ Before(tuple[y], tuple[z])
    BY <1>1, <1>4
  <2>2. Before(tuple[x], tuple[z])
    BY <1>2, <2>1, BeforeOrder
  <2> QED BY <1>1, <2>2
<1>5. ASSUME NEW x \in S, NEW y \in S, x # y
      PROVE  <<x, y>> \in R \/ <<y, x>> \in R
  <2>1. tuple[x] # tuple[y]
    BY <1>5
  <2>2. Before(tuple[x], tuple[y]) \/ Before(tuple[y], tuple[x])
    BY <1>2, <2>1, BeforeOrder
  <2> QED BY <1>1, <2>2
<1> QED BY <1>3, <1>4, <1>5 DEF StrictOrder

\* In a finite set, as many come before the elements as there are numbers to count them.
THEOREM Counted ==
  ASSUME NEW S, IsFiniteSet(S), NEW R, StrictOrder(R, S)
  PROVE  /\ Cardinality(S) \in Nat
         /\ \A x \in S : Cardinality(Earlier(R, S, x)) \in 0..(Cardinality(S) - 1)
         /\ \A x, y \in S : <<x, y>> \in R =>
              Cardinality(Earlier(R, S, x)) < Cardinality(Earlier(R, S, y))
         /\ \A i \in 1..Cardinality(S) :
              \E x \in S : Cardinality(Earlier(R, S, x)) = i - 1
<1> DEFINE n == Cardinality(S)
           count == [x \in S |-> Cardinality(Earlier(R, S, x))]
<1>1. n \in Nat
  BY FS_CardinalityType
<1>2. ASSUME NEW x \in S
      PROVE  IsFiniteSet(Earlier(R, S, x)) /\ count[x] \in Nat
  <2>1. Earlier(R, S, x) \in SUBSET S
    BY DEF Earlier
  <2> QED BY <2>1, FS_Subset, FS_CardinalityType
<1>3. ASSUME NEW x \in S
      PROVE  count[x] \in 0..(n - 1)
  <2>1. Earlier(R, S, x) \in SUBSET S /\ Earlier(R, S, x) # S
    BY DEF Earlier, StrictOrder
  <2>2. count[x] <= n /\ n # count[x]
    BY <2>1, FS_Subset
  <2> QED BY <1>1, <1>2, <2>2
<1>4. ASSUME NEW x \in S, NEW y \in S, <<x, y>> \in R
      PROVE  count[x] < count[y]
  <2>1. Earlier(R, S, x) \in SUBSET Earlier(R, S, y)
    BY <1>4 DEF Earlier, StrictOrder
  <2>2. x \in Earlier(R, S, y) /\ x \notin Earlier(R, S, x)
    BY <1>4 DEF Earlier, StrictOrder
  <2>3. count[x] <= count[y] /\ count[y] # count[x]
    BY <1>2, <2>1, <2>2, FS_Subset
  <2> QED BY <1>2, <2>3
<1>5. count \in Injection(S, 0..(n - 1))
  <2>1. count \in [S -> 0..(n - 1)]
    BY <1>3
  <2>2. ASSUME NEW x \in S, NEW y \in S, x # y
        PROVE  count[x] # count[y]
    <3>1. <<x, y>> \in R \/ <<y, x>> \in R
      BY <2>2 DEF StrictOrder
    <3>2. count[x] < count[y] \/ count[y] < count[x]
      BY <1>4, <3>1
    <3>3. count[x] \in Nat /\ count[y] \in Nat
      BY <1>2
    <3> HIDE DEF count
    <3> QED BY <3>2, <3>3
  <2>3. DOMAIN count = S
    OBVIOUS
  <2> HIDE DEF count, n
  <2> QED BY <2>1, <2>2, <2>3 DEF Injection, IsInjective
<1>6. IsFiniteSet(0..(n - 1)) /\ Cardinality(0..(n - 1)) = n
  <2>1. n - 1 \in Int /\ (n - 1) - 0 + 1 = n /\ (0 > n - 1 => n = 0)
    BY <1>1
  <2> HIDE DEF n
  <2> QED BY <2>1, FS_Interval
<1> HIDE DEF count
<1>7. count \in Surjection(S, 0..(n - 1))
  <2>1. Cardinality(S) = Cardinality(0..(n - 1))
    BY <1>6
  <2> HIDE DEF n
  <2> QED BY <1>5, <1>6, <2>1, FS_Injection
<1>8. ASSUME NEW i \in 1..n
      PROVE  \E x \in S : count[x] = i - 1
  <2>1. i - 1 \in 0..(n - 1)
    BY <1>1
  <2> QED BY <1>7, <2>1 DEF Surjection
<1> QED BY <1>1, <1>3, <1>4, <1>8 DEF count

\* A finite set that is not empty has a first element.
THEOREM FirstOne ==
  ASSUME NEW S, IsFiniteSet(S), S # {}, NEW R, StrictOrder(R, S)
  PROVE  \E x \in S : \A y \in S \ {x} : <<x, y>> \in R
<1>1. Cardinality(S) \in Nat /\ Cardinality(S) # 0
  BY FS_CardinalityType, FS_EmptySet
<1>2. 1 \in 1..Cardinality(S) /\ 1 - 1 = 0
  BY <1>1
<1>3. PICK x \in S : Cardinality(Earlier(R, S, x)) = 0
  BY <1>2, Counted
<1>4. IsFiniteSet(Earlier(R, S, x))
  BY FS_Subset DEF Earlier
<1>5. Earlier(R, S, x) = {}
  BY <1>3, <1>4, FS_EmptySet
<1> QED BY <1>5 DEF Earlier, StrictOrder
=============================================================================
