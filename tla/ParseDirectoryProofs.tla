------------------------- MODULE ParseDirectoryProofs -------------------------
(***************************************************************************)
(* Proofs about the goroutines that parse a checkout, for every number of  *)
(* files, places in the pool and failures.                                 *)
(***************************************************************************)
EXTENDS ParseDirectory, ListTheorems, FiniteSetTheorems

LEMMA ParsersFinite ==
  ASSUME ParseInv, NEW state
  PROVE  /\ Parsers(state) \subseteq entries /\ IsFiniteSet(Parsers(state))
         /\ Cardinality(Parsers(state)) \in Nat
         /\ Cardinality(Parsers(state)) <= Capacity /\ Capacity \in Nat
         /\ Cardinality(Parsers(state)) = Capacity => Parsers(state) = entries
<1>1. Parsers(state) \subseteq entries /\ IsFiniteSet(entries)
  BY DEF Parsers, ParseInv
<1> QED BY <1>1, FS_Subset, FS_CardinalityType DEF Capacity

\* A goroutine that runs has not been counted yet, so that there is room.
LEMMA Room ==
  ASSUME ParseInv, NEW i \in Running
  PROVE  closed = 0 /\ Len(results) < Capacity /\ skipped < Capacity
<1>1. i \in entries /\ i \notin Parsers("done")
  BY DEF Running, Parsers
<1>2. Cardinality(Parsers("done")) < Capacity
  BY <1>1, ParsersFinite
<1>3. Len(results) \in Nat /\ skipped \in Nat /\ closed \in 0..2
  BY DEF ParseInv
<1> QED BY <1>1, <1>2, <1>3, ParsersFinite DEF ParseInv, ChannelsOK

\* A goroutine ends.
LEMMA OneMoreDone ==
  ASSUME ParseInv, NEW i \in Running, parser' = [parser EXCEPT ![i] = "done"],
         entries' = entries
  PROVE  /\ parser' \in [entries -> {"none", "running", "done"}]
         /\ Parsers("done")' = Parsers("done") \cup {i}
         /\ Parsers("none")' = Parsers("none")
         /\ Cardinality(Parsers("done"))' = Cardinality(Parsers("done")) + 1
<1>1. /\ i \in entries /\ parser[i] = "running"
      /\ parser \in [entries -> {"none", "running", "done"}]
  BY DEF Running, Parsers, ParseInv
<1>2. \A k \in entries : parser'[k] = IF k = i THEN "done" ELSE parser[k]
  BY <1>1
<1>3. parser' \in [entries -> {"none", "running", "done"}]
  BY <1>1
<1>4. Parsers("done")' = Parsers("done") \cup {i} /\ Parsers("none")' = Parsers("none")
  BY <1>1, <1>2 DEF Parsers
<1>5. i \notin Parsers("done")
  BY <1>1 DEF Parsers
<1> QED BY <1>3, <1>4, <1>5, ParsersFinite, FS_AddElement

-----------------------------------------------------------------------------
(* How a file is cut by size.                                              *)

LEMMA SumsType ==
  ASSUME NEW lines \in Seq(Line)
  PROVE  /\ Sums(lines) \in [0..Len(lines) -> Nat] /\ Sums(lines)[0] = 0
         /\ \A n \in 1..Len(lines) : Sums(lines)[n] = Sums(lines)[n - 1] + lines[n].length + 1
<1> DEFINE N == Len(lines)
           step == [n \in 1..N |-> [v \in Nat |-> v + lines[n].length + 1]]
           f == Sums(lines)
           Is(g) == g = [n \in 0..N |-> IF n = 0 THEN 0 ELSE g[n - 1] + lines[n].length + 1]
<1>1. N \in Nat /\ \A n \in 1..N : lines[n].length \in Nat
  <2>1. \A n \in 1..N : lines[n] \in Line
    OBVIOUS
  <2> QED BY <2>1 DEF Line
<1>2. step \in [1..N -> [Nat -> Nat]]
  BY <1>1
<1>3. \E g : Recurses(g, Nat, N, 0, step)
  <2> HIDE DEF N, step
  <2> QED BY <1>1, <1>2, Recursion
<1>4. PICK g \in [0..N -> Nat] : g[0] = 0 /\ \A n \in 1..N : g[n] = step[n][g[n - 1]]
  BY <1>3 DEF Recurses
<1>5. ASSUME NEW n \in 1..N
      PROVE  g[n] = g[n - 1] + lines[n].length + 1
  <2>1. g[n - 1] \in Nat
    BY <1>1
  <2> QED BY <1>4, <2>1
<1>6. Is(g)
  BY <1>1, <1>4, <1>5
<1>7. Is(f)
  BY <1>6 DEF Sums
<1> HIDE DEF f, N
<1>8. f[0] = 0 /\ \A n \in 1..N : f[n] = f[n - 1] + lines[n].length + 1
  <2>1. \A n \in 1..N : n \in 0..N /\ n # 0
    BY <1>1
  <2>2. 0 \in 0..N
    BY <1>1
  <2> QED BY <1>7, <2>1, <2>2
<1> DEFINE T == {n \in 0..N : f[n] \in Nat}
<1>9. 0 \in T
  BY <1>1, <1>8
<1>10. ASSUME NEW n \in 0..(N - 1), n \in T
       PROVE  n + 1 \in T
  <2>1. n + 1 \in 1..N /\ n + 1 \in 0..N /\ (n + 1) - 1 = n
    BY <1>1
  <2>2. f[n + 1] = f[n] + lines[n + 1].length + 1
    BY <1>8, <2>1
  <2>3. f[n] \in Nat /\ lines[n + 1].length \in Nat
    BY <1>1, <1>10, <2>1
  <2>4. f[n + 1] \in Nat
    BY <2>2, <2>3
  <2> QED BY <2>1, <2>4
<1> HIDE DEF T
<1>11. \A n \in 0..N : n \in T
  BY <1>1, <1>9, <1>10, UpTo
<1>12. f \in [0..N -> Nat]
  BY <1>7, <1>11 DEF T
<1> QED BY <1>8, <1>12 DEF f, N

LEMMA BytesType ==
  ASSUME NEW lines \in Seq(Line), NEW from \in 1..(Len(lines) + 1), NEW to \in 0..Len(lines)
  PROVE  Bytes(lines, from, to) \in Int
<1>1. from - 1 \in 0..Len(lines)
  OBVIOUS
<1> QED BY <1>1, SumsType DEF Bytes

Chunk == [from : Nat, to : Nat]
CutState == [from : Nat, list : Seq(Chunk)]

\* The loop after one more line.
CutNext(lines, acc, n) ==
  IF acc.from < n /\ Bytes(lines, acc.from, n) > ChunkSizeBytes
  THEN [from |-> n, list |-> Append(acc.list, [from |-> acc.from, to |-> n - 1])]
  ELSE acc

LEMMA CutNextType ==
  ASSUME NEW lines, NEW n \in Nat, n # 0, NEW acc \in CutState
  PROVE  CutNext(lines, acc, n) \in CutState
<1>1. acc.from \in Nat /\ acc.list \in Seq(Chunk)
  BY DEF CutState
<1>2. [from |-> acc.from, to |-> n - 1] \in Chunk
  BY <1>1 DEF Chunk
<1>3. Append(acc.list, [from |-> acc.from, to |-> n - 1]) \in Seq(Chunk)
  BY <1>1, <1>2
<1> QED BY <1>3 DEF CutNext, CutState

LEMMA CutsType ==
  ASSUME NEW lines \in Seq(Line)
  PROVE  /\ Cuts(lines) \in [0..Len(lines) -> CutState]
         /\ Cuts(lines)[0] = [from |-> 1, list |-> <<>>]
         /\ \A n \in 1..Len(lines) : Cuts(lines)[n] = CutNext(lines, Cuts(lines)[n - 1], n)
<1> DEFINE N == Len(lines)
           first == [from |-> 1, list |-> <<>>]
           step == [n \in 1..N |-> [acc \in CutState |-> CutNext(lines, acc, n)]]
           f == Cuts(lines)
           Is(g) == g = [n \in 0..N |->
             IF n = 0 THEN [from |-> 1, list |-> <<>>]
             ELSE IF g[n - 1].from < n /\ Bytes(lines, g[n - 1].from, n) > ChunkSizeBytes
             THEN [from |-> n, list |-> Append(g[n - 1].list, [from |-> g[n - 1].from, to |-> n - 1])]
             ELSE g[n - 1]]
<1>1. N \in Nat
  OBVIOUS
<1>2. first \in CutState
  BY DEF CutState
<1>3. step \in [1..N -> [CutState -> CutState]]
  <2>1. \A n \in 1..N : \A acc \in CutState : CutNext(lines, acc, n) \in CutState
    BY <1>1, CutNextType
  <2> QED BY <2>1
<1>4. \E g : Recurses(g, CutState, N, first, step)
  <2> HIDE DEF N, step, first
  <2> QED BY <1>1, <1>2, <1>3, Recursion
<1>5. PICK g \in [0..N -> CutState] : g[0] = first /\ \A n \in 1..N : g[n] = step[n][g[n - 1]]
  BY <1>4 DEF Recurses
<1>6. ASSUME NEW n \in 1..N
      PROVE  g[n] = CutNext(lines, g[n - 1], n)
  <2>1. g[n - 1] \in CutState
    BY <1>1
  <2> QED BY <1>5, <2>1
<1>7. Is(g)
  <2>1. \A n \in 0..N : n = 0 \/ n \in 1..N
    BY <1>1
  <2>2. g = [n \in 0..N |-> g[n]]
    BY <1>5
  <2> HIDE DEF N
  <2> QED BY <1>5, <1>6, <2>1, <2>2 DEF CutNext
<1>8. Is(f)
  BY <1>7 DEF Cuts
<1> HIDE DEF f, N, step
<1>9. f[0] = first /\ \A n \in 1..N : f[n] = CutNext(lines, f[n - 1], n)
  <2>1. \A n \in 1..N : n \in 0..N /\ n # 0
    BY <1>1
  <2>2. 0 \in 0..N
    BY <1>1
  <2> QED BY <1>8, <2>1, <2>2 DEF CutNext
<1> DEFINE T == {n \in 0..N : f[n] \in CutState}
<1>10. 0 \in T
  BY <1>1, <1>2, <1>9
<1>11. ASSUME NEW n \in 0..(N - 1), n \in T
       PROVE  n + 1 \in T
  <2>1. n + 1 \in 1..N /\ n + 1 \in 0..N /\ (n + 1) - 1 = n /\ n + 1 \in Nat /\ n + 1 # 0
    BY <1>1
  <2>2. f[n + 1] = CutNext(lines, f[n], n + 1)
    BY <1>9, <2>1
  <2> QED BY <1>11, <2>1, <2>2, CutNextType
<1> HIDE DEF T
<1>12. \A n \in 0..N : n \in T
  BY <1>1, <1>10, <1>11, UpTo
<1>13. f \in [0..N -> CutState]
  BY <1>8, <1>12 DEF T
<1> QED BY <1>9, <1>13 DEF f, N

\* The chunks of list follow one another, hold all lines up to end, and none is too long.
Tiled(list, end, lines) ==
  /\ \A k \in 1..Len(list) :
       /\ 1 <= list[k].from /\ list[k].from <= list[k].to /\ list[k].to <= end
       /\ \/ Bytes(lines, list[k].from, list[k].to) <= ChunkSizeBytes + 1
          \/ list[k].from = list[k].to
  /\ \A j, k \in 1..Len(list) : j < k => list[j].to < list[k].from
  /\ \A n \in 1..end : \E k \in 1..Len(list) : n \in list[k].from..list[k].to

LEMMA TiledAppend ==
  ASSUME NEW lines, NEW list \in Seq(Chunk), NEW from \in Nat, NEW to \in Nat,
         1 <= from, from <= to, Tiled(list, from - 1, lines),
         Bytes(lines, from, to) <= ChunkSizeBytes + 1 \/ from = to
  PROVE  /\ Append(list, [from |-> from, to |-> to]) \in Seq(Chunk)
         /\ Append(list, [from |-> from, to |-> to]) # <<>>
         /\ Tiled(Append(list, [from |-> from, to |-> to]), to, lines)
<1> DEFINE c == [from |-> from, to |-> to]
           new == Append(list, c)
           L == Len(list)
<1>1. c \in Chunk
  BY DEF Chunk
<1>2. /\ new \in Seq(Chunk) /\ Len(new) = L + 1 /\ L \in Nat /\ new[L + 1] = c
      /\ \A k \in 1..L : new[k] = list[k]
  BY <1>1, Appended
<1>3. c.from = from /\ c.to = to
  OBVIOUS
<1>4. \A k \in 1..L : list[k] \in Chunk
  OBVIOUS
<1>5. \A k \in 1..L : list[k].from \in Nat /\ list[k].to \in Nat
  BY <1>4 DEF Chunk
<1> HIDE DEF c, new, L
<1>6. \A k \in 1..Len(new) : k = L + 1 \/ k \in 1..L
  BY <1>2
<1>7. L + 1 \in 1..Len(new) /\ \A k \in 1..L : k \in 1..Len(new)
  BY <1>2
<1>8. ASSUME NEW k \in 1..Len(new)
      PROVE  /\ 1 <= new[k].from /\ new[k].from <= new[k].to /\ new[k].to <= to
             /\ \/ Bytes(lines, new[k].from, new[k].to) <= ChunkSizeBytes + 1
                \/ new[k].from = new[k].to
  <2>1. CASE k = L + 1
    BY <1>2, <1>3, <2>1
  <2>2. CASE k \in 1..L
    <3>1. /\ 1 <= list[k].from /\ list[k].from <= list[k].to /\ list[k].to <= from - 1
          /\ \/ Bytes(lines, list[k].from, list[k].to) <= ChunkSizeBytes + 1
             \/ list[k].from = list[k].to
      BY <2>2 DEF Tiled, L
    <3>2. list[k].to <= to
      BY <1>5, <2>2, <3>1
    <3> QED BY <1>2, <2>2, <3>1, <3>2
  <2> QED BY <1>6, <2>1, <2>2
<1>9. ASSUME NEW j \in 1..Len(new), NEW k \in 1..Len(new), j < k
      PROVE  new[j].to < new[k].from
  <2>1. j \in 1..L
    BY <1>2, <1>9
  <2>2. CASE k = L + 1
    <3>1. list[j].to <= from - 1 /\ list[j].to \in Nat
      BY <1>5, <2>1 DEF Tiled, L
    <3> QED BY <1>2, <1>3, <2>1, <2>2, <3>1
  <2>3. CASE k \in 1..L
    BY <1>2, <1>9, <2>1, <2>3 DEF Tiled, L
  <2> QED BY <1>6, <2>2, <2>3
<1>10. ASSUME NEW n \in 1..to
       PROVE  \E k \in 1..Len(new) : n \in new[k].from..new[k].to
  <2>1. n \in 1..(from - 1) \/ n \in from..to
    OBVIOUS
  <2>2. CASE n \in 1..(from - 1)
    BY <1>2, <1>7, <2>2 DEF Tiled, L
  <2>3. CASE n \in from..to
    BY <1>2, <1>3, <1>7, <2>3
  <2> QED BY <2>1, <2>2, <2>3
<1>11. new # <<>>
  BY <1>2
<1>12. Tiled(new, to, lines)
  BY <1>8, <1>9, <1>10 DEF Tiled
<1> QED BY <1>2, <1>11, <1>12 DEF new, c

\* The loop has cut what is before where it is, and can end a chunk there.
CutOK(lines, acc, n) ==
  /\ 1 <= acc.from /\ (acc.from <= n \/ (n = 0 /\ acc.from = 1))
  /\ Tiled(acc.list, acc.from - 1, lines)
  /\ n # 0 => Bytes(lines, acc.from, n) <= ChunkSizeBytes \/ acc.from = n

LEMMA CutNextOK ==
  ASSUME NEW lines \in Seq(Line), NEW n \in Nat, n + 1 <= Len(lines),
         NEW acc \in CutState, CutOK(lines, acc, n)
  PROVE  CutOK(lines, CutNext(lines, acc, n + 1), n + 1)
<1> USE ParseAssumption
<1>1. acc.from \in Nat /\ acc.list \in Seq(Chunk)
  BY DEF CutState
<1>2. acc.from \in 1..(Len(lines) + 1) /\ n + 1 \in 0..Len(lines) /\ n \in 0..Len(lines)
  BY <1>1 DEF CutOK
<1>3. Bytes(lines, acc.from, n + 1) \in Int /\ Bytes(lines, acc.from, n) \in Int
      /\ ChunkSizeBytes \in Nat
  BY <1>2, BytesType
<1>4. CASE acc.from < n + 1 /\ Bytes(lines, acc.from, n + 1) > ChunkSizeBytes
  <2> DEFINE new == Append(acc.list, [from |-> acc.from, to |-> n])
  <2>1. n # 0 /\ acc.from <= n
    BY <1>1, <1>4 DEF CutOK
  <2>2. Bytes(lines, acc.from, n) <= ChunkSizeBytes + 1 \/ acc.from = n
    BY <1>3, <2>1 DEF CutOK
  <2>3. 1 <= acc.from /\ Tiled(acc.list, acc.from - 1, lines)
    BY DEF CutOK
  <2>4. Tiled(new, n, lines)
    BY <1>1, <2>1, <2>2, <2>3, TiledAppend
  <2>5. (n + 1) - 1 = n /\ 1 <= n + 1 /\ n + 1 <= n + 1 /\ n + 1 # 0
    OBVIOUS
  <2> HIDE DEF new
  <2>6. CutNext(lines, acc, n + 1) = [from |-> n + 1, list |-> new]
    BY <1>4, <2>5 DEF CutNext, new
  <2> QED BY <2>4, <2>5, <2>6 DEF CutOK
<1>5. CASE ~(acc.from < n + 1 /\ Bytes(lines, acc.from, n + 1) > ChunkSizeBytes)
  <2>1. CutNext(lines, acc, n + 1) = acc
    BY <1>5 DEF CutNext
  <2>2. acc.from <= n + 1 /\ 1 <= acc.from
    BY <1>1 DEF CutOK
  <2>3. Bytes(lines, acc.from, n + 1) <= ChunkSizeBytes \/ acc.from = n + 1
    BY <1>1, <1>3, <1>5, <2>2
  <2> QED BY <2>1, <2>2, <2>3 DEF CutOK
<1> QED BY <1>4, <1>5

LEMMA CutsOK ==
  ASSUME NEW lines \in Seq(Line)
  PROVE  CutOK(lines, Cut(lines), Len(lines)) /\ Cut(lines) \in CutState
<1> DEFINE N == Len(lines)
           f == Cuts(lines)
           T == {n \in 0..N : CutOK(lines, f[n], n)}
<1>1. /\ f \in [0..N -> CutState] /\ f[0] = [from |-> 1, list |-> <<>>] /\ N \in Nat
      /\ \A n \in 1..N : f[n] = CutNext(lines, f[n - 1], n)
  BY CutsType
<1>2. 0 \in T
  <2>1. Tiled(<<>>, 0, lines)
    BY DEF Tiled
  <2>2. CutOK(lines, [from |-> 1, list |-> <<>>], 0)
    BY <2>1 DEF CutOK
  <2> HIDE DEF f, N
  <2> QED BY <1>1, <2>2
<1>3. ASSUME NEW n \in 0..(N - 1), n \in T
      PROVE  n + 1 \in T
  <2>1. n + 1 \in 1..N /\ n + 1 \in 0..N /\ n \in 0..N /\ (n + 1) - 1 = n /\ n \in Nat
    BY <1>1
  <2>2. CutOK(lines, CutNext(lines, f[n], n + 1), n + 1)
    BY <1>1, <1>3, <2>1, CutNextOK
  <2>3. f[n + 1] = CutNext(lines, f[n], n + 1)
    BY <1>1, <2>1
  <2> QED BY <2>1, <2>2, <2>3
<1> HIDE DEF T
<1>4. \A n \in 0..N : n \in T
  BY <1>1, <1>2, <1>3, UpTo
<1>5. N \in T
  BY <1>1, <1>4
<1> QED BY <1>1, <1>5 DEF T, Cut

\* A file is cut into chunks that follow one another and hold all its lines.
LEMMA SimpleChunksTile ==
  ASSUME NEW lines \in Seq(Line)
  PROVE  /\ SimpleChunks(lines) \in Seq(Chunk) /\ SimpleChunks(lines) # <<>>
         /\ lines # <<>> => Tiled(SimpleChunks(lines), Len(lines), lines)
         /\ lines = <<>> => SimpleChunks(lines) = <<[from |-> 1, to |-> 0]>>
<1> USE ParseAssumption
<1> DEFINE N == Len(lines)
           from == Cut(lines).from
<1>1. N \in Nat /\ ChunkSizeBytes \in Nat
  OBVIOUS
<1>2. CASE Bytes(lines, 1, N) - 1 <= ChunkSizeBytes
  <2>1. SimpleChunks(lines) = <<[from |-> 1, to |-> N]>>
    BY <1>2 DEF SimpleChunks
  <2>2. [from |-> 1, to |-> N] \in Chunk
    BY <1>1 DEF Chunk
  <2>3. ASSUME lines # <<>>
        PROVE  Tiled(SimpleChunks(lines), N, lines)
    <3>1. 1 <= N
      BY <2>3
    <3>2. Bytes(lines, 1, N) \in Int
      BY <1>1, BytesType
    <3>3. Bytes(lines, 1, N) <= ChunkSizeBytes + 1
      BY <1>1, <1>2, <3>2
    <3>4. Tiled(<<>>, 1 - 1, lines) /\ <<>> \in Seq(Chunk)
      BY DEF Tiled
    <3>5. <<[from |-> 1, to |-> N]>> = Append(<<>>, [from |-> 1, to |-> N])
      BY <2>2
    <3>6. 1 \in Nat /\ 1 <= 1
      OBVIOUS
    <3> HIDE DEF N
    <3>7. Tiled(Append(<<>>, [from |-> 1, to |-> N]), N, lines)
      BY <1>1, <3>1, <3>3, <3>4, <3>6, TiledAppend
    <3> QED BY <2>1, <3>5, <3>7
  <2> QED BY <2>1, <2>2, <2>3
<1>3. CASE ~(Bytes(lines, 1, N) - 1 <= ChunkSizeBytes)
  <2>1. SimpleChunks(lines) = Append(Cut(lines).list, [from |-> from, to |-> N])
    BY <1>3 DEF SimpleChunks
  <2>2. from \in Nat /\ Cut(lines).list \in Seq(Chunk)
    BY CutsOK DEF CutState
  <2>3. N # 0
    <3>1. Sums(lines)[0] = 0
      BY SumsType
    <3>2. N = 0 => Bytes(lines, 1, N) = 0
      BY <3>1 DEF Bytes
    <3> QED BY <1>1, <1>3, <3>2
  <2>4. /\ 1 <= from /\ from <= N /\ Tiled(Cut(lines).list, from - 1, lines)
        /\ Bytes(lines, from, N) <= ChunkSizeBytes \/ from = N
    BY <2>3, CutsOK DEF CutOK
  <2>5. Bytes(lines, from, N) <= ChunkSizeBytes + 1 \/ from = N
    <3>1. from \in 1..(N + 1) /\ N \in 0..N
      BY <1>1, <2>2, <2>4
    <3>2. Bytes(lines, from, N) \in Int
      BY <3>1, BytesType
    <3> QED BY <1>1, <2>4, <3>2
  <2> DEFINE new == Append(Cut(lines).list, [from |-> from, to |-> N])
  <2>6. new \in Seq(Chunk) /\ new # <<>> /\ Tiled(new, N, lines)
    <3> HIDE DEF from, N
    <3> QED BY <1>1, <2>2, <2>4, <2>5, TiledAppend
  <2>7. lines # <<>>
    BY <2>3
  <2> QED BY <2>1, <2>6, <2>7
<1> QED BY <1>2, <1>3

\* Ranges with a number in common.
LEMMA Meet ==
  ASSUME NEW a \in Nat, NEW b \in Nat, NEW c \in Nat, NEW d \in Nat,
         NEW n \in a..b, n \in c..d
  PROVE  ~(b < c) /\ ~(d < a)
OBVIOUS

\* Each line with text is in one of the chunks that are left, and none is too long.
LeftTiles(left, lines) ==
  /\ left \in Seq(Chunk)
  /\ \A n \in 1..Len(lines) : lines[n].text =>
       \E k \in 1..Len(left) :
         /\ n \in left[k].from..left[k].to
         /\ \A j \in 1..Len(left) : n \in left[j].from..left[j].to => j = k
  /\ \A k \in 1..Len(left) :
       \/ Bytes(lines, left[k].from, left[k].to) <= ChunkSizeBytes + 1
       \/ left[k].from = left[k].to

\* So it is where a file is cut by size.
LEMMA WithTextTiles ==
  ASSUME NEW lines \in Seq(Line), NEW left, left = WithText(SimpleChunks(lines), lines)
  PROVE  LeftTiles(left, lines)
<1> DEFINE list == SimpleChunks(lines)
           positions == {k \in DOMAIN list : HasText(lines, list[k])}
<1>1. list \in Seq(Chunk)
  BY SimpleChunksTile
<1>2. left = Keep(list, positions)
  BY DEF WithText
<1>3. left \in Seq(Chunk) /\ \E at : Picks(left, list, positions, at, Len(list))
  <2> HIDE DEF list, positions
  <2> QED BY <1>1, <1>2, KeepPicks
<1>4. PICK at : Picks(left, list, positions, at, Len(list))
  BY <1>3
<1>5. CASE lines = <<>>
  <2>1. list = <<[from |-> 1, to |-> 0]>>
    BY <1>5, SimpleChunksTile
  <2>2. \A k \in DOMAIN list : list[k].from = 1 /\ list[k].to = 0
    BY <2>1
  <2>3. positions = {}
    BY <2>2 DEF HasText
  <2>4. 1..Len(left) = {}
    BY <1>4, <2>3 DEF Picks
  <2> QED BY <1>3, <1>5, <2>4 DEF LeftTiles
<1>6. CASE lines # <<>>
  <2>1. Tiled(list, Len(lines), lines)
    BY <1>6, SimpleChunksTile
  <2>2. Len(list) \in Nat /\ DOMAIN list = 1..Len(list)
    BY <1>1
  <2>3. \A k \in 1..Len(list) : list[k].from \in Nat /\ list[k].to \in Nat
    <3>1. \A k \in 1..Len(list) : list[k] \in Chunk
      BY <1>1
    <3> QED BY <3>1 DEF Chunk
  <2>4. \A k \in 1..Len(left) : at[k] \in 1..Len(list) /\ left[k] = list[at[k]]
    BY <1>4 DEF Picks
  <2> HIDE DEF list
  <2>5. ASSUME NEW n \in 1..Len(lines), lines[n].text
        PROVE  \E k \in 1..Len(left) :
                 /\ n \in left[k].from..left[k].to
                 /\ \A j \in 1..Len(left) : n \in left[j].from..left[j].to => j = k
    <3>1. PICK m \in 1..Len(list) : n \in list[m].from..list[m].to
      BY <2>1 DEF Tiled
    <3>2. m \in positions
      BY <2>2, <2>5, <3>1 DEF HasText
    <3>3. PICK k \in 1..Len(left) : at[k] = m
      BY <1>4, <3>1, <3>2 DEF Picks
    <3>4. n \in left[k].from..left[k].to
      BY <2>4, <3>1, <3>3
    <3>5. ASSUME NEW j \in 1..Len(left), n \in left[j].from..left[j].to, j # k
          PROVE  FALSE
      <4>1. j < k \/ k < j
        BY <1>3, <3>5
      <4>2. at[j] < at[k] \/ at[k] < at[j]
        BY <1>4, <4>1 DEF Picks
      <4>3. at[j] \in 1..Len(list) /\ at[k] \in 1..Len(list)
        BY <2>4
      <4>4. list[at[j]].to < list[at[k]].from \/ list[at[k]].to < list[at[j]].from
        BY <2>1, <4>2, <4>3 DEF Tiled
      <4>5. n \in list[at[j]].from..list[at[j]].to /\ n \in list[at[k]].from..list[at[k]].to
        BY <2>4, <3>4, <3>5
      <4>6. /\ list[at[j]].from \in Nat /\ list[at[j]].to \in Nat
            /\ list[at[k]].from \in Nat /\ list[at[k]].to \in Nat
        BY <2>3, <4>3
      <4>7. ~(list[at[j]].to < list[at[k]].from) /\ ~(list[at[k]].to < list[at[j]].from)
        BY <4>5, <4>6, Meet
      <4> QED BY <4>4, <4>7
    <3> QED BY <3>4, <3>5
  <2>6. ASSUME NEW k \in 1..Len(left)
        PROVE  \/ Bytes(lines, left[k].from, left[k].to) <= ChunkSizeBytes + 1
               \/ left[k].from = left[k].to
    BY <2>1, <2>4 DEF Tiled
  <2> QED BY <1>3, <2>5, <2>6 DEF LeftTiles
<1> QED BY <1>5, <1>6

-----------------------------------------------------------------------------
(* One lemma for each action.                                              *)

LEMMA InitParse ==
  ASSUME Init
  PROVE  ParseInv
<1>1. entries = {} /\ parser \in [entries -> {"none", "running", "done"}]
  BY DEF Init
<1>2. \A state : Parsers(state) = {}
  BY <1>1 DEF Parsers
<1>3. IsFiniteSet(entries) /\ Cardinality(Parsers("done")) = 0
  BY <1>1, <1>2, FS_EmptySet
<1>4. results \in Seq(entries) /\ Len(results) = 0 /\ results = <<>>
  BY DEF Init
<1> QED BY <1>1, <1>2, <1>3, <1>4 DEF Init, ParseInv, LaunchedOK, ChannelsOK

LEMMA WalkStep ==
  ASSUME ParseInv, Walk
  PROVE  ParseInv'
<1>1. /\ UNCHANGED <<tree, results, skipped, closed>> /\ pc = "walk"
      /\ entries = {} /\ results = <<>> /\ skipped = 0 /\ closed = 0
  BY DEF Walk, ParseInv, LaunchedOK
<1>2. CASE /\ entries' = {i \in DOMAIN tree : Wanted(tree[i])}
           /\ parser' = [i \in entries' |-> "none"] /\ pc' = "launch"
  <2>1. IsFiniteSet(entries')
    <3>1. entries' \subseteq DOMAIN tree /\ IsFiniteSet(DOMAIN tree)
      BY <1>2, ParseAssumption DEF ParseInv
    <3> QED BY <3>1, FS_Subset
  <2>2. parser' \in [entries' -> {"none", "running", "done"}]
    BY <1>2
  <2>3. Parsers("done")' = {}
    BY <1>2 DEF Parsers
  <2>4. Cardinality(Parsers("done")') = 0
    BY <2>3, FS_EmptySet
  <2>5. results' \in Seq(entries') /\ Len(results') = 0
    BY <1>1
  <2>6. LaunchedOK'
    BY <1>1, <1>2 DEF LaunchedOK
  <2>7. ChannelsOK'
    BY <1>1, <1>2, <2>4, <2>5 DEF ChannelsOK
  <2> QED BY <1>1, <1>2, <2>1, <2>2, <2>5, <2>6, <2>7 DEF ParseInv
<1>3. CASE pc' = "failed" /\ UNCHANGED <<entries, parser>>
  <2>1. UNCHANGED <<Parsers("done"), Parsers("none")>>
    BY <1>3 DEF Parsers
  <2> QED BY <1>1, <1>3, <2>1 DEF ParseInv, LaunchedOK, ChannelsOK
<1> QED BY <1>2, <1>3 DEF Walk

LEMMA LaunchStep ==
  ASSUME ParseInv, Launch
  PROVE  ParseInv'
<1>1. /\ UNCHANGED <<tree, entries, results, skipped, closed>>
      /\ pc = "launch" /\ closed = 0
  BY DEF Launch, ParseInv, LaunchedOK
<1>2. ASSUME NEW i \in Parsers("none"), parser' = [parser EXCEPT ![i] = "running"], pc' = pc
      PROVE  ParseInv'
  <2>1. i \in entries /\ parser[i] = "none" /\ parser \in [entries -> {"none", "running", "done"}]
    BY <1>2 DEF Parsers, ParseInv
  <2>2. parser' \in [entries -> {"none", "running", "done"}]
    BY <1>2, <2>1
  <2>3. Parsers("done")' = Parsers("done")
    BY <1>1, <1>2, <2>1 DEF Parsers
  <2> QED BY <1>1, <1>2, <2>2, <2>3 DEF ParseInv, LaunchedOK, ChannelsOK
<1>3. CASE Parsers("none") = {} /\ pc' = "collect" /\ UNCHANGED parser
  <2>1. UNCHANGED <<Parsers("done"), Parsers("none")>>
    BY <1>1, <1>3 DEF Parsers
  <2> QED BY <1>1, <1>3, <2>1 DEF ParseInv, LaunchedOK, ChannelsOK
<1> QED BY <1>2, <1>3 DEF Launch

LEMMA ParseStep ==
  ASSUME ParseInv, NEW i \in entries, Parse(i)
  PROVE  ParseInv'
<1>1. /\ UNCHANGED <<tree, entries, closed, skipped>> /\ i \in Running
      /\ parser' = [parser EXCEPT ![i] = "done"] /\ results' = Append(results, i)
      /\ pc' = IF closed < 1 THEN pc ELSE "crashed"
  BY DEF Parse, Ends
<1>2. closed = 0 /\ pc' = pc
  BY <1>1, Room
<1>3. /\ parser' \in [entries -> {"none", "running", "done"}]
      /\ Parsers("none")' = Parsers("none")
      /\ Cardinality(Parsers("done"))' = Cardinality(Parsers("done")) + 1
  BY <1>1, OneMoreDone
<1>4. results' \in Seq(entries) /\ Len(results') = Len(results) + 1 /\ Len(results) \in Nat
  BY <1>1 DEF ParseInv
<1>5. pc \in {"launch", "collect", "failed"}
  BY <1>1, <1>2 DEF ParseInv, LaunchedOK, ChannelsOK, Running, Parsers
<1>6. ChannelsOK'
  <2>1. Cardinality(Parsers("done")) \in Nat /\ skipped \in Nat
    BY ParsersFinite DEF ParseInv
  <2> QED BY <1>1, <1>2, <1>3, <1>4, <1>5, <2>1 DEF ParseInv, ChannelsOK
<1> QED BY <1>1, <1>2, <1>3, <1>4, <1>5, <1>6 DEF ParseInv, LaunchedOK

LEMMA ParseFailsStep ==
  ASSUME ParseInv, NEW i \in entries, ParseFails(i)
  PROVE  ParseInv'
<1>1. /\ UNCHANGED <<tree, entries, closed, results>> /\ i \in Running
      /\ parser' = [parser EXCEPT ![i] = "done"] /\ skipped' = skipped + 1
      /\ pc' = IF closed < 2 THEN pc ELSE "crashed"
  BY DEF ParseFails, Ends
<1>2. closed = 0 /\ pc' = pc
  BY <1>1, Room
<1>3. /\ parser' \in [entries -> {"none", "running", "done"}]
      /\ Parsers("none")' = Parsers("none")
      /\ Cardinality(Parsers("done"))' = Cardinality(Parsers("done")) + 1
  BY <1>1, OneMoreDone
<1>4. pc \in {"launch", "collect", "failed"}
  BY <1>1, <1>2 DEF ParseInv, LaunchedOK, ChannelsOK, Running, Parsers
<1>5. ChannelsOK'
  <2>1. Cardinality(Parsers("done")) \in Nat /\ skipped \in Nat /\ Len(results) \in Nat
    BY ParsersFinite DEF ParseInv
  <2> QED BY <1>1, <1>2, <1>3, <1>4, <2>1 DEF ParseInv, ChannelsOK
<1> QED BY <1>1, <1>2, <1>3, <1>4, <1>5 DEF ParseInv, LaunchedOK

\* Nothing is left to run once everything is launched and nothing runs.
LEMMA CloseChannelStep ==
  ASSUME ParseInv, CloseChannel
  PROVE  ParseInv'
<1>1. /\ UNCHANGED <<tree, entries, parser, results, skipped, pc>> /\ closed' = closed + 1
      /\ pc \in {"collect", "count", "wait"} /\ Running = {} /\ closed < 2
  BY DEF CloseChannel
<1>2. Parsers("done") = entries
  BY <1>1 DEF ParseInv, LaunchedOK, Running, Parsers
<1>3. UNCHANGED <<Parsers("done"), Parsers("none")>>
  BY <1>1 DEF Parsers
<1>4. closed' \in 0..2
  BY <1>1 DEF ParseInv
<1>5. ChannelsOK'
  BY <1>1, <1>2, <1>3, <1>4 DEF ParseInv, ChannelsOK
<1> QED BY <1>1, <1>3, <1>4, <1>5 DEF ParseInv, LaunchedOK

LEMMA CollectStep ==
  ASSUME ParseInv, Collect
  PROVE  ParseInv'
<1>1. UNCHANGED <<tree, entries, parser, skipped, closed>> /\ pc = "collect"
  BY DEF Collect
<1>2. UNCHANGED <<Parsers("done"), Parsers("none")>>
  BY <1>1 DEF Parsers
<1>3. CASE results # <<>> /\ results' = Tail(results) /\ pc' = pc
  <2>1. results' \in Seq(entries) /\ Len(results') <= Len(results) /\ Len(results') \in Nat
        /\ Len(results) \in Nat
    BY <1>3 DEF ParseInv
  <2>2. Cardinality(Parsers("done")) \in Nat /\ skipped \in Nat
    BY ParsersFinite DEF ParseInv
  <2> QED BY <1>1, <1>2, <1>3, <2>1, <2>2 DEF ParseInv, LaunchedOK, ChannelsOK
<1>4. CASE results = <<>> /\ closed > 0 /\ pc' = "count" /\ UNCHANGED results
  BY <1>1, <1>2, <1>4 DEF ParseInv, LaunchedOK, ChannelsOK
<1> QED BY <1>3, <1>4 DEF Collect

LEMMA CountSkippedStep ==
  ASSUME ParseInv, CountSkipped
  PROVE  ParseInv'
<1>1. UNCHANGED <<tree, entries, parser, results, closed>> /\ pc = "count"
  BY DEF CountSkipped
<1>2. UNCHANGED <<Parsers("done"), Parsers("none")>>
  BY <1>1 DEF Parsers
<1>3. CASE skipped > 0 /\ skipped' = skipped - 1 /\ pc' = pc
  <2>1. /\ Cardinality(Parsers("done")) \in Nat /\ skipped \in Nat /\ skipped' \in Nat
        /\ Len(results) \in Nat
    BY <1>3, ParsersFinite DEF ParseInv
  <2> QED BY <1>1, <1>2, <1>3, <2>1 DEF ParseInv, LaunchedOK, ChannelsOK
<1>4. CASE skipped = 0 /\ closed = 2 /\ pc' = "wait" /\ UNCHANGED skipped
  BY <1>1, <1>2, <1>4 DEF ParseInv, LaunchedOK, ChannelsOK
<1> QED BY <1>3, <1>4 DEF CountSkipped

LEMMA ReturnStep ==
  ASSUME ParseInv, Return
  PROVE  ParseInv'
<1>1. /\ UNCHANGED <<tree, entries, parser, results, skipped, closed>>
      /\ pc = "wait" /\ pc' = "returned"
  BY DEF Return
<1>2. UNCHANGED <<Parsers("done"), Parsers("none")>>
  BY <1>1 DEF Parsers
<1> QED BY <1>1, <1>2 DEF ParseInv, LaunchedOK, ChannelsOK

LEMMA ParseStutter ==
  ASSUME ParseInv, UNCHANGED vars
  PROVE  ParseInv'
<1>1. UNCHANGED <<tree, pc, entries, parser, results, skipped, closed>>
  BY DEF vars
<1>2. UNCHANGED <<Parsers("done"), Parsers("none")>>
  BY <1>1 DEF Parsers
<1> QED BY <1>1, <1>2 DEF ParseInv, LaunchedOK, ChannelsOK

-----------------------------------------------------------------------------
(* The invariant and what follows from it.                                 *)

\* The channels of ParseDirectory hold no more than the goroutines that have ended
\* sent, and are closed when all have (ParseInv), for any number of files and places.
THEOREM ParseConsistent == Spec => []ParseInv
<1>1. Init => ParseInv
  BY InitParse
<1>2. ParseInv /\ [Next]_vars => ParseInv'
  BY WalkStep, LaunchStep, ParseStep, ParseFailsStep, CloseChannelStep, CollectStep,
     CountSkippedStep, ReturnStep, ParseStutter DEF Next, Main
<1> QED BY <1>1, <1>2, PTL DEF Spec

\* Nobody blocks on a full channel while main launches, nobody sends to a closed
\* channel, and nothing is left in a channel or running when ParseDirectory returns.
THEOREM NobodyWaitsToSend == Spec => []SendsGoThrough
<1>1. ParseInv => SendsGoThrough
  <2> SUFFICES ASSUME ParseInv
               PROVE  SendsGoThrough
    OBVIOUS
  <2>1. pc # "crashed"
    BY DEF ParseInv
  <2>2. \A i \in Running : closed = 0 /\ Len(results) < Capacity /\ skipped < Capacity
    BY Room
  <2>3. ASSUME pc = "returned"
        PROVE  results = <<>> /\ skipped = 0 /\ closed = 2 /\ Running = {}
    <3>1. results = <<>> /\ skipped = 0 /\ closed = 2
      BY <2>3 DEF ParseInv, ChannelsOK
    <3>2. Running = {}
      BY <3>1, Room
    <3> QED BY <3>1, <3>2
  <2> QED BY <2>1, <2>2, <2>3 DEF SendsGoThrough
<1> QED BY <1>1, ParseConsistent, PTL

-----------------------------------------------------------------------------
(* What was sent arrives, once.                                            *)

LEMMA InitHandedOver ==
  ASSUME Init
  PROVE  HandedOver
<1>1. entries = {} /\ made = <<>> /\ results = <<>> /\ answer = <<>>
  BY DEF Init
<1>2. DOMAIN made = entries /\ made = [i \in entries |-> made[i]]
  BY <1>1
<1>3. DOMAIN results = {} /\ DOMAIN answer = {}
  BY <1>1
<1>4. IsList(answer)
  BY <1>1 DEF IsList
<1> QED BY <1>1, <1>2, <1>3, <1>4 DEF HandedOver, SentOK, AnswerOK

\* A step that hands nothing over.
LEMMA HandedKept ==
  ASSUME HandedOver, UNCHANGED <<tree, entries, made, results, answer>>,
         \A i \in entries : parser[i] = "done" => parser'[i] = "done",
         pc' = "returned" <=> pc = "returned"
  PROVE  HandedOver'
<1>1. SentOK'
  BY DEF HandedOver, SentOK
<1>2. AnswerOK'
  BY DEF HandedOver, AnswerOK
<1> QED BY <1>1, <1>2 DEF HandedOver

LEMMA WalkHandsOver ==
  ASSUME ParseInv, HandedOver, Walk
  PROVE  HandedOver'
<1>1. /\ entries = {} /\ results = <<>> /\ pc = "walk"
      /\ UNCHANGED <<tree, results, answer>>
  BY DEF Walk, ParseInv, LaunchedOK
<1>2. DOMAIN results = {} /\ DOMAIN answer = {} /\ IsList(answer)
  BY <1>1 DEF HandedOver, AnswerOK
<1>3. CASE made' = [i \in entries' |-> <<>>]
  <2>1. /\ DOMAIN made' = entries' /\ made' = [i \in entries' |-> made'[i]]
        /\ \A i \in entries' : made'[i] = <<>>
    BY <1>3
  <2>2. SentOK'
    BY <1>1, <1>2, <2>1 DEF SentOK
  <2>3. AnswerOK'
    BY <1>1, <1>2 DEF AnswerOK
  <2> QED BY <2>2, <2>3 DEF HandedOver
<1>4. CASE pc' = "failed" /\ UNCHANGED <<entries, parser, made>>
  BY <1>1, <1>4, HandedKept
<1> QED BY <1>3, <1>4 DEF Walk

LEMMA LaunchHandsOver ==
  ASSUME ParseInv, HandedOver, Launch
  PROVE  HandedOver'
<1>1. UNCHANGED <<tree, entries, made, results, answer>> /\ pc = "launch"
  BY DEF Launch
<1>2. pc' \in {"launch", "collect"}
  BY <1>1 DEF Launch
<1>3. ASSUME NEW k \in entries, parser[k] = "done"
      PROVE  parser'[k] = "done"
  <2>1. parser \in [entries -> {"none", "running", "done"}]
    BY DEF ParseInv
  <2>2. CASE \E i \in Parsers("none") : parser' = [parser EXCEPT ![i] = "running"]
    BY <1>3, <2>1, <2>2 DEF Parsers
  <2> QED BY <1>3, <2>2 DEF Launch
<1> QED BY <1>1, <1>2, <1>3, HandedKept

\* The chunks of a file are never none.
LEMMA ParsedType ==
  ASSUME ParseInv, NEW i \in entries, NEW chunks \in Parsed(tree[i])
  PROVE  chunks # <<>>
<1>1. tree[i].lines \in Seq(Line)
  BY ParseAssumption DEF ParseInv
<1>2. SimpleChunks(tree[i].lines) # <<>>
  BY <1>1, SimpleChunksTile
<1> QED BY <1>2 DEF Parsed

LEMMA ParseHandsOver ==
  ASSUME ParseInv, HandedOver, NEW i \in entries, Parse(i)
  PROVE  HandedOver'
<1>1. /\ UNCHANGED <<tree, entries, answer>> /\ i \in Running
      /\ parser' = [parser EXCEPT ![i] = "done"] /\ results' = Append(results, i)
      /\ pc' = IF closed < 1 THEN pc ELSE "crashed"
  BY DEF Parse, Ends
<1>2. PICK chunks \in Parsed(tree[i]) : made' = [made EXCEPT ![i] = chunks]
  BY DEF Parse
<1>3. chunks # <<>>
  BY <1>2, ParsedType
<1>4. pc' = pc /\ pc # "returned"
  BY <1>1, Room DEF ParseInv, ChannelsOK
<1>5. parser \in [entries -> {"none", "running", "done"}] /\ parser[i] = "running"
  BY <1>1 DEF ParseInv, Running, Parsers
<1>6. made[i] = <<>>
  BY <1>5 DEF HandedOver, SentOK
<1>7. /\ DOMAIN made' = entries /\ made' = [k \in entries |-> made'[k]]
      /\ made'[i] = chunks /\ \A k \in entries : k # i => made'[k] = made[k]
  BY <1>2 DEF HandedOver, SentOK
<1> DEFINE L == Len(results)
<1>8. /\ results \in Seq(entries) /\ L \in Nat /\ DOMAIN results = 1..L
      /\ DOMAIN results' = 1..(L + 1) /\ results'[L + 1] = i
      /\ \A k \in 1..L : results'[k] = results[k]
  BY <1>1 DEF ParseInv
<1> HIDE DEF L
<1>9. \A k \in 1..L : results[k] # i /\ results[k] \in entries
  <2>1. \A k \in DOMAIN results : made[results[k]] # <<>>
    BY DEF HandedOver, SentOK
  <2>2. \A k \in 1..L : results[k] \in entries
    BY <1>8
  <2> QED BY <1>6, <1>8, <2>1, <2>2
<1>10. \A k \in DOMAIN answer : answer[k].file # i /\ answer[k].file \in entries
  BY <1>6 DEF HandedOver, AnswerOK
<1>11. L + 1 \in DOMAIN results' /\ \A k \in DOMAIN results' : k = L + 1 \/ k \in 1..L
  BY <1>8
<1>12. SentOK'
  <2>1. ASSUME NEW k \in entries, made'[k] # <<>>
        PROVE  /\ parser'[k] = "done"
               /\ \/ \E n \in DOMAIN results' : results'[n] = k
                  \/ \E n \in DOMAIN answer : answer[n].file = k
    <3>1. CASE k = i
      BY <1>1, <1>5, <1>8, <1>11, <3>1
    <3>2. CASE k # i
      <4>1. /\ parser[k] = "done"
            /\ \/ \E n \in DOMAIN results : results[n] = k
               \/ \E n \in DOMAIN answer : answer[n].file = k
        BY <1>7, <2>1, <3>2 DEF HandedOver, SentOK
      <4>2. \A n \in DOMAIN results : n \in DOMAIN results' /\ results'[n] = results[n]
        BY <1>8
      <4> QED BY <1>1, <1>5, <3>2, <4>1, <4>2
    <3> QED BY <3>1, <3>2
  <2>2. \A j, k \in DOMAIN results' : results'[j] = results'[k] => j = k
    BY <1>8, <1>9, <1>11 DEF HandedOver, SentOK
  <2>3. \A k \in DOMAIN results' : made'[results'[k]] # <<>>
    BY <1>3, <1>7, <1>8, <1>9, <1>11 DEF HandedOver, SentOK
  <2>4. \A j \in DOMAIN results', k \in DOMAIN answer : results'[j] # answer[k].file
    BY <1>8, <1>10, <1>11 DEF HandedOver, SentOK
  <2> QED BY <1>1, <1>7, <2>1, <2>2, <2>3, <2>4 DEF SentOK
<1>13. AnswerOK'
  BY <1>1, <1>4, <1>7, <1>10 DEF HandedOver, AnswerOK
<1> QED BY <1>12, <1>13 DEF HandedOver

LEMMA ParseFailsHandsOver ==
  ASSUME ParseInv, HandedOver, NEW i \in entries, ParseFails(i)
  PROVE  HandedOver'
<1>1. /\ UNCHANGED <<tree, entries, made, results, answer>> /\ i \in Running
      /\ parser' = [parser EXCEPT ![i] = "done"]
      /\ pc' = IF closed < 2 THEN pc ELSE "crashed"
  BY DEF ParseFails, Ends
<1>2. pc' = pc
  BY <1>1, Room
<1>3. parser \in [entries -> {"none", "running", "done"}]
  BY DEF ParseInv
<1> QED BY <1>1, <1>2, <1>3, HandedKept

LEMMA CollectHandsOver ==
  ASSUME ParseInv, HandedOver, Collect
  PROVE  HandedOver'
<1>1. UNCHANGED <<tree, entries, parser, made>> /\ pc = "collect"
  BY DEF Collect
<1>2. CASE results = <<>> /\ pc' = "count" /\ UNCHANGED <<answer, results>>
  BY <1>1, <1>2, HandedKept
<1>3. CASE /\ results # <<>> /\ pc' = pc /\ results' = Tail(results)
           /\ answer' = Append(answer, [file |-> Head(results), chunks |-> made[Head(results)]])
  <2> DEFINE i == results[1]
             L == Len(results)
             N == Len(answer)
             block == [file |-> i, chunks |-> made[i]]
  <2>1. /\ results \in Seq(entries) /\ L \in Nat /\ L # 0 /\ DOMAIN results = 1..L
        /\ i \in entries /\ Head(results) = i
        /\ DOMAIN results' = 1..(L - 1) /\ \A k \in 1..(L - 1) : results'[k] = results[k + 1]
    BY <1>3 DEF ParseInv
  <2>2. answer' = Append(answer, block)
    BY <1>3, <2>1
  <2> HIDE DEF block
  <2>3. /\ N \in Nat /\ DOMAIN answer = 1..N /\ IsList(answer')
        /\ DOMAIN answer' = 1..(N + 1) /\ answer'[N + 1] = block
        /\ \A k \in 1..N : answer'[k] = answer[k]
    BY <2>2, ListAppend DEF HandedOver, AnswerOK
  <2>4. block = [file |-> i, chunks |-> made[i]] /\ block.file = i
    BY DEF block
  <2> HIDE DEF L, N, i
  <2>a. \A k \in DOMAIN results : made[results[k]] # <<>>
    BY DEF HandedOver, SentOK
  <2>5. 1 \in DOMAIN results /\ i = results[1] /\ made[i] # <<>>
    BY <2>1, <2>a DEF i
  <2>6. \A k \in DOMAIN answer : answer[k].file # i
    BY <2>5 DEF HandedOver, SentOK
  <2>7. N + 1 \in DOMAIN answer' /\ \A k \in DOMAIN answer' : k = N + 1 \/ k \in 1..N
    BY <2>3
  <2>8. \A k \in 1..(L - 1) : k + 1 \in DOMAIN results /\ k + 1 # 1
    BY <2>1
  <2>9. \A k \in DOMAIN results' : results'[k] # i
    BY <2>1, <2>5, <2>8 DEF HandedOver, SentOK
  <2>10. SentOK'
    <3>1. ASSUME NEW k \in entries, made[k] # <<>>
          PROVE  \/ \E n \in DOMAIN results' : results'[n] = k
                 \/ \E n \in DOMAIN answer' : answer'[n].file = k
      <4>1. CASE k = i
        BY <2>3, <2>4, <2>7, <4>1
      <4>2. CASE k # i /\ \E n \in DOMAIN results : results[n] = k
        <5>1. PICK n \in 1..L : results[n] = k
          BY <2>1, <4>2
        <5>2. n # 1
          BY <2>5, <4>2, <5>1
        <5>3. n - 1 \in 1..(L - 1) /\ (n - 1) + 1 = n
          BY <2>1, <5>2
        <5>4. results'[n - 1] = k
          BY <2>1, <5>1, <5>3
        <5> QED BY <2>1, <5>3, <5>4
      <4>3. CASE \E n \in DOMAIN answer : answer[n].file = k
        BY <2>3, <4>3
      <4> QED BY <3>1, <4>1, <4>2, <4>3 DEF HandedOver, SentOK
    <3>2. ASSUME NEW j \in DOMAIN results', NEW k \in DOMAIN results', results'[j] = results'[k]
          PROVE  j = k
      <4>1. j + 1 = k + 1
        BY <2>1, <2>8, <3>2 DEF HandedOver, SentOK
      <4> QED BY <2>1, <4>1
    <3>3. \A k \in DOMAIN results' : made[results'[k]] # <<>>
      BY <2>1, <2>8, <2>a
    <3>4. ASSUME NEW j \in DOMAIN results', NEW k \in DOMAIN answer'
          PROVE  results'[j] # answer'[k].file
      <4>1. CASE k = N + 1
        BY <2>3, <2>4, <2>9, <4>1
      <4>2. CASE k \in 1..N
        BY <2>1, <2>3, <2>8, <4>2 DEF HandedOver, SentOK
      <4> QED BY <2>7, <4>1, <4>2
    <3>5. \A k \in entries : made[k] # <<>> => parser[k] = "done"
      BY DEF HandedOver, SentOK
    <3>6. DOMAIN made = entries /\ made = [k \in entries |-> made[k]]
      BY DEF HandedOver, SentOK
    <3> QED BY <1>1, <3>1, <3>2, <3>3, <3>4, <3>5, <3>6 DEF SentOK
  <2>11. AnswerOK'
    <3>1. ASSUME NEW k \in DOMAIN answer'
          PROVE  /\ answer'[k].file \in entries /\ made[answer'[k].file] # <<>>
                 /\ answer'[k] = [file |-> answer'[k].file, chunks |-> made[answer'[k].file]]
      <4>1. CASE k = N + 1
        BY <2>1, <2>3, <2>4, <2>5, <4>1 DEF i
      <4>2. CASE k \in 1..N
        <5>1. k \in DOMAIN answer /\ answer'[k] = answer[k] /\ pc # "returned"
          BY <1>1, <2>3, <4>2
        <5> QED BY <5>1 DEF HandedOver, AnswerOK
      <4> QED BY <2>7, <4>1, <4>2
    <3>2. ASSUME NEW j \in DOMAIN answer', NEW k \in DOMAIN answer',
                 answer'[j].file = answer'[k].file
          PROVE  j = k
      BY <2>3, <2>4, <2>6, <2>7, <3>2 DEF HandedOver, AnswerOK
    <3>3. pc' # "returned"
      BY <1>1, <1>3
    <3> QED BY <1>1, <2>3, <3>1, <3>2, <3>3 DEF AnswerOK
  <2> QED BY <2>10, <2>11 DEF HandedOver
<1> QED BY <1>2, <1>3 DEF Collect

LEMMA ReturnHandsOver ==
  ASSUME ParseInv, HandedOver, Return
  PROVE  HandedOver'
<1>1. /\ UNCHANGED <<tree, entries, parser, made, results>>
      /\ pc = "wait" /\ pc' = "returned"
      /\ answer' = [k \in DOMAIN answer |->
                      [answer[k] EXCEPT !.chunks = WithText(@, tree[answer[k].file].lines)]]
  BY DEF Return
<1>2. DOMAIN answer' = DOMAIN answer
  BY <1>1
<1>3. ASSUME NEW k \in DOMAIN answer
      PROVE  /\ answer'[k].file = answer[k].file
             /\ answer'[k] = [file |-> answer[k].file,
                              chunks |-> WithText(made[answer[k].file], tree[answer[k].file].lines)]
  <2>1. answer[k] = [file |-> answer[k].file, chunks |-> made[answer[k].file]]
    BY <1>1 DEF HandedOver, AnswerOK
  <2>2. answer'[k] = [answer[k] EXCEPT !.chunks = WithText(@, tree[answer[k].file].lines)]
    BY <1>1
  <2> QED BY <2>1, <2>2
<1>4. IsList(answer')
  <2>1. PICK n \in Nat : DOMAIN answer = 1..n
    <3>1. DOMAIN answer = 1..Len(answer) /\ Len(answer) \in Nat
      BY ListAppend DEF HandedOver, AnswerOK
    <3> QED BY <3>1
  <2>2. answer' = [k \in 1..n |-> answer'[k]]
    BY <1>1, <2>1
  <2> QED BY <1>2, <2>1, <2>2, ListIs
<1>a. \A k \in DOMAIN answer' : k \in DOMAIN answer /\ answer'[k].file = answer[k].file
  BY <1>2, <1>3
<1>5. SentOK'
  <2>1. /\ DOMAIN made = entries /\ made = [i \in entries |-> made[i]]
        /\ \A k \in DOMAIN results : made[results[k]] # <<>>
        /\ \A j, k \in DOMAIN results : results[j] = results[k] => j = k
    BY DEF HandedOver, SentOK
  <2>2. ASSUME NEW i \in entries, made[i] # <<>>
        PROVE  /\ parser[i] = "done"
               /\ \/ \E k \in DOMAIN results : results[k] = i
                  \/ \E k \in DOMAIN answer' : answer'[k].file = i
    BY <1>2, <1>3, <2>2 DEF HandedOver, SentOK
  <2>3. \A j \in DOMAIN results, k \in DOMAIN answer' : results[j] # answer'[k].file
    BY <1>a DEF HandedOver, SentOK
  <2>4. UNCHANGED <<entries, parser, made, results>>
    BY <1>1
  <2> QED BY <2>1, <2>2, <2>3, <2>4 DEF SentOK
<1>6. AnswerOK'
  <2>1. ASSUME NEW k \in DOMAIN answer'
        PROVE  /\ answer'[k].file \in entries /\ made[answer'[k].file] # <<>>
               /\ answer'[k] = [file |-> answer'[k].file,
                     chunks |-> WithText(made[answer'[k].file], tree[answer'[k].file].lines)]
    BY <1>3, <1>a DEF HandedOver, AnswerOK
  <2>2. \A j, k \in DOMAIN answer' : answer'[j].file = answer'[k].file => j = k
    BY <1>a DEF HandedOver, AnswerOK
  <2>3. UNCHANGED <<tree, entries, made>> /\ pc' = "returned"
    BY <1>1
  <2> QED BY <1>4, <2>1, <2>2, <2>3 DEF AnswerOK
<1> QED BY <1>5, <1>6 DEF HandedOver

LEMMA OthersHandOver ==
  ASSUME ParseInv, HandedOver, CloseChannel \/ CountSkipped \/ UNCHANGED vars
  PROVE  HandedOver'
<1>1. /\ UNCHANGED <<tree, entries, made, results, answer, parser>>
      /\ pc' = pc \/ (pc = "count" /\ pc' = "wait")
  BY DEF CloseChannel, CountSkipped, vars
<1> QED BY <1>1, HandedKept

\* Whatever a parser sent is in the channel or with main, once and as it was sent.
THEOREM AllHandedOver == Spec => [](ParseInv /\ HandedOver)
<1>1. Init => HandedOver
  BY InitHandedOver
<1>2. ParseInv /\ HandedOver /\ [Next]_vars => HandedOver'
  BY WalkHandsOver, LaunchHandsOver, ParseHandsOver, ParseFailsHandsOver, CollectHandsOver,
     ReturnHandsOver, OthersHandOver DEF Next, Main
<1> QED BY <1>1, <1>2, ParseConsistent, PTL DEF Spec

\* A job is given all chunks of all files that could be read, each file's once, together
\* and in the parser's order, without those of blanks.
THEOREM NothingIsLeftBehind == Spec => []EverythingCollected
<1>1. ParseInv /\ HandedOver /\ SendsGoThrough => EverythingCollected
  <2> SUFFICES ASSUME ParseInv, HandedOver, SendsGoThrough, pc = "returned"
               PROVE  /\ entries = Parsers("done")
                      /\ \A i \in entries : made[i] # <<>> =>
                           \E k \in DOMAIN answer : answer[k].file = i
                      /\ \A k \in DOMAIN answer :
                           LET i == answer[k].file
                           IN /\ i \in entries /\ made[i] # <<>>
                              /\ answer[k].chunks = WithText(made[i], tree[i].lines)
                              /\ \A j \in DOMAIN answer : answer[j].file = i => j = k
    BY DEF EverythingCollected
  <2>1. entries = Parsers("done")
    BY DEF ParseInv, ChannelsOK
  <2>2. DOMAIN results = {}
    BY DEF ParseInv, ChannelsOK
  <2>3. \A i \in entries : made[i] # <<>> => \E k \in DOMAIN answer : answer[k].file = i
    BY <2>2 DEF HandedOver, SentOK
  <2>4. \A k \in DOMAIN answer :
          /\ answer[k].file \in entries /\ made[answer[k].file] # <<>>
          /\ answer[k].chunks = WithText(made[answer[k].file], tree[answer[k].file].lines)
    BY DEF HandedOver, AnswerOK
  <2>5. \A j, k \in DOMAIN answer : answer[j].file = answer[k].file => j = k
    BY DEF HandedOver, AnswerOK
  <2> QED BY <2>1, <2>3, <2>4, <2>5
<1> QED BY <1>1, AllHandedOver, NobodyWaitsToSend, PTL

\* Where a file is cut by size, each of its lines with text is in one chunk of the answer,
\* and no chunk is too long, whatever lines the file has and whatever the size is.
THEOREM LinesAreKept == Spec => []NoLineLost
<1>1. ParseInv /\ EverythingCollected => NoLineLost
  <2> SUFFICES ASSUME ParseInv, EverythingCollected, pc = "returned",
                      NEW i \in entries, made[i] = SimpleChunks(tree[i].lines)
               PROVE  /\ \A n \in DOMAIN tree[i].lines : tree[i].lines[n].text =>
                           Cardinality({p \in ChunksOf(i) :
                                          n \in ChunkAt(p).from..ChunkAt(p).to}) = 1
                      /\ \A p \in ChunksOf(i) :
                           \/ Bytes(tree[i].lines, ChunkAt(p).from, ChunkAt(p).to)
                                <= ChunkSizeBytes + 1
                           \/ ChunkAt(p).from = ChunkAt(p).to
    BY DEF NoLineLost
  <2> DEFINE lines == tree[i].lines
  <2>1. lines \in Seq(Line)
    BY ParseAssumption DEF ParseInv
  <2>2. made[i] # <<>>
    BY <2>1, SimpleChunksTile
  <2>3. PICK k \in DOMAIN answer : answer[k].file = i
    BY <2>2 DEF EverythingCollected
  <2> DEFINE left == answer[k].chunks
  <2>4. left = WithText(SimpleChunks(lines), lines)
    BY <2>3 DEF EverythingCollected
  <2>5. \A j \in DOMAIN answer : answer[j].file = i => j = k
    BY <2>3 DEF EverythingCollected
  <2> HIDE DEF lines, left
  <2>6. LeftTiles(left, lines)
    BY <2>1, <2>4, WithTextTiles
  <2>7. DOMAIN left = 1..Len(left) /\ DOMAIN lines = 1..Len(lines)
    BY <2>1, <2>6 DEF LeftTiles
  <2>8. ChunksOf(i) = {k} \X (1..Len(left))
    <3>1. {m \in DOMAIN answer : answer[m].file = i} = {k}
      BY <2>3, <2>5
    <3>2. ChunksOf(i) = UNION {{m} \X DOMAIN answer[m].chunks : m \in {k}}
      BY <3>1 DEF ChunksOf
    <3>3. ChunksOf(i) = {k} \X DOMAIN left
      BY <3>2 DEF left
    <3> QED BY <2>7, <3>3
  <2>9. \A m \in 1..Len(left) : <<k, m>> \in ChunksOf(i) /\ ChunkAt(<<k, m>>) = left[m]
    BY <2>8 DEF ChunkAt, left
  <2>10. \A p \in ChunksOf(i) : \E m \in 1..Len(left) : p = <<k, m>>
    BY <2>8
  <2>11. ASSUME NEW n \in DOMAIN lines, lines[n].text
         PROVE  Cardinality({p \in ChunksOf(i) : n \in ChunkAt(p).from..ChunkAt(p).to}) = 1
    <3>1. PICK m \in 1..Len(left) :
            /\ n \in left[m].from..left[m].to
            /\ \A j \in 1..Len(left) : n \in left[j].from..left[j].to => j = m
      BY <2>6, <2>7, <2>11 DEF LeftTiles
    <3>2. {p \in ChunksOf(i) : n \in ChunkAt(p).from..ChunkAt(p).to} = {<<k, m>>}
      BY <2>9, <2>10, <3>1
    <3> QED BY <3>2, FS_Singleton
  <2>12. \A p \in ChunksOf(i) :
           \/ Bytes(lines, ChunkAt(p).from, ChunkAt(p).to) <= ChunkSizeBytes + 1
           \/ ChunkAt(p).from = ChunkAt(p).to
    BY <2>6, <2>9, <2>10 DEF LeftTiles
  <2> QED BY <2>11, <2>12 DEF lines
<1> QED BY <1>1, ParseConsistent, NothingIsLeftBehind, PTL
=============================================================================
