--------------------------- MODULE SearchPagesProofs ---------------------------
(***************************************************************************)
(* What SearchPages promises, for every layout, index and filter.          *)
(***************************************************************************)
EXTENDS SearchPages, ListTheorems

Matches == [file : Nat, from : Nat, to : Nat, first : Nat, last : Nat, bare : BOOLEAN]

LEMMA LeastIs ==
  ASSUME NEW a \in Nat, NEW b \in Nat
  PROVE  /\ Least(a, b) \in Nat /\ Least(a, b) <= a /\ Least(a, b) <= b
         /\ Least(a, b) = a \/ Least(a, b) = b
         /\ b <= a => Least(a, b) = b
BY DEF Least

LEMMA ListOf ==
  ASSUME NEW V, NEW s \in Seq(V)
  PROVE  IsList(s) /\ Len(s) \in Nat /\ DOMAIN s = 1..Len(s)
<1>1. Len(s) \in Nat /\ DOMAIN s = 1..Len(s) /\ s = [k \in 1..Len(s) |-> s[k]]
  OBVIOUS
<1> QED BY <1>1, ListIs

\* The first n of a list, or all of it.
LEMMA FirstIs ==
  ASSUME NEW V, NEW list \in Seq(V), NEW n \in Nat
  PROVE  /\ First(n, list) \in Seq(V)
         /\ Len(First(n, list)) = Least(n, Len(list))
         /\ \A k \in 1..Len(First(n, list)) : First(n, list)[k] = list[k]
         /\ Starts(First(n, list), list)
<1> DEFINE m == Least(n, Len(list))
<1>0. Len(list) \in Nat
  OBVIOUS
<1>1. m \in Nat /\ m <= Len(list) /\ Len(list) \in Nat
  BY <1>0, LeastIs
<1>2. \A i \in 1..m : list[i] \in V
  BY <1>1
<1> HIDE DEF m
<1>3. 1 \in Int /\ m \in Int
  BY <1>1
<1>4. /\ SubSeq(list, 1, m) \in Seq(V)
      /\ Len(SubSeq(list, 1, m)) = IF 1 <= m THEN m - 1 + 1 ELSE 0
      /\ \A i \in 1..(m - 1 + 1) : SubSeq(list, 1, m)[i] = list[1 + i - 1]
  BY <1>2, <1>3, SubSeqProperties
<1>5. Len(SubSeq(list, 1, m)) = m /\ \A i \in 1..m : SubSeq(list, 1, m)[i] = list[i]
  <2>1. m - 1 + 1 = m /\ \A i \in 1..m : 1 + i - 1 = i
    BY <1>1
  <2>2. ~(1 <= m) => m = 0
    BY <1>1
  <2> QED BY <1>4, <2>1, <2>2
<1> QED BY <1>1, <1>4, <1>5 DEF First, Starts, m

LEMMA ChunkType ==
  ASSUME NEW c \in Chunks
  PROVE  /\ c \in Nat \ {0}
         /\ Layout[c] \in [file : Nat, from : Nat, to : Nat, fits : Nat]
<1> DEFINE V == [file : Nat, from : Nat \ {0}, to : Nat \ {0}, fits : Nat]
<1>1. Layout \in Seq(V)
  BY SearchAssumption DEF SearchAssumption
<1> HIDE DEF V
<1>2. c \in 1..Len(Layout) /\ Len(Layout) \in Nat
  BY <1>1 DEF Chunks
<1>3. c \in Nat \ {0}
  BY <1>2
<1>4. Layout[c] \in V
  BY <1>1, <1>2
<1>5. Layout[c] \in [file : Nat, from : Nat, to : Nat, fits : Nat]
  BY <1>4 DEF V
<1> QED BY <1>3, <1>5

LEMMA FiniteChunks == \A S \in SUBSET Chunks : IsFiniteSet(S)
<1>1. Len(Layout) \in Nat /\ Chunks = 1..Len(Layout)
  BY SearchAssumption DEF SearchAssumption, Chunks
<1>2. IsFiniteSet(Chunks)
  BY <1>1, FS_Interval
<1> QED BY <1>2, FS_Subset

LEMMA IndexType ==
  ASSUME index \in Indexes
  PROVE  /\ index \in Seq(Matches) /\ Len(index) <= MaxRank
         /\ FilesDiffer(index)
BY SearchAssumption DEF SearchAssumption, Matches, FilesDiffer

\* There are no more embeddings than MaxRank, each of a chunk.
LEMMA VectorType ==
  ASSUME NEW v \in Rows
  PROVE  v \in Nat /\ Vectors[v].chunk \in Chunks /\ Vectors[v].score \in Nat
<1> DEFINE V == [chunk : Chunks, model : Nat, score : Nat]
<1>1. Vectors \in Seq(V)
  BY SearchAssumption DEF SearchAssumption
<1> HIDE DEF V
<1>2. v \in 1..Len(Vectors) /\ Len(Vectors) \in Nat /\ Vectors[v] \in V
  BY <1>1 DEF Rows
<1>3. v \in Nat
  BY <1>2
<1> QED BY <1>2, <1>3 DEF V

LEMMA Upto ==
  ASSUME NEW n \in Nat
  PROVE  IsFiniteSet(1..n) /\ Cardinality(1..n) = n
<1>1. 1 \in Int /\ n \in Int /\ n - 1 + 1 = n /\ (1 > n => n = 0)
  OBVIOUS
<1>2. IsFiniteSet(1..n) /\ Cardinality(1..n) = IF 1 > n THEN 0 ELSE n - 1 + 1
  BY <1>1, FS_Interval
<1> QED BY <1>1, <1>2

LEMMA FiniteRows ==
  ASSUME NEW S \in SUBSET Rows
  PROVE  IsFiniteSet(S) /\ Cardinality(S) \in Nat /\ Cardinality(S) <= MaxRank
<1>1. Len(Vectors) \in Nat /\ Rows = 1..Len(Vectors) /\ Len(Vectors) <= MaxRank /\ MaxRank \in Nat
  BY SearchAssumption DEF SearchAssumption, Rows
<1>2. IsFiniteSet(Rows) /\ Cardinality(Rows) = Len(Vectors)
  BY <1>1, Upto
<1>3. IsFiniteSet(S) /\ Cardinality(S) <= Cardinality(Rows)
  BY <1>2, FS_Subset
<1>4. Cardinality(S) \in Nat
  BY <1>3, FS_CardinalityType
<1> QED BY <1>1, <1>2, <1>3, <1>4

LEMMA RanksAre == MaxRank \in Nat
BY SearchAssumption DEF SearchAssumption

\* A quotient without rest is positive.
LEMMA Exactly ==
  ASSUME NEW n \in Nat \ {0}, NEW a \in Nat \ {0}, n % a = 0
  PROVE  n \div a \in Nat /\ n \div a > 0 /\ n = a * (n \div a)
<1> DEFINE q == n \div a
<1>1. n = a * q /\ q \in Int
  OBVIOUS
<1> HIDE DEF q
<1>2. q > 0
  BY <1>1
<1> QED BY <1>1, <1>2 DEF q

\* It falls where its divisor grows.
LEMMA Quotients ==
  ASSUME NEW n \in Nat \ {0}, NEW a \in Nat \ {0}, NEW b \in Nat \ {0}, a < b,
         n % a = 0, n % b = 0
  PROVE  n \div a > n \div b
<1> DEFINE q == n \div a
           r == n \div b
<1>1. q \in Nat /\ n = a * q
  BY Exactly
<1>2. r \in Nat /\ r > 0 /\ n = b * r
  BY Exactly
<1> HIDE DEF q, r
<1>3. ASSUME q <= r
      PROVE  FALSE
  <2>1. a * q <= a * r
    BY <1>1, <1>2, <1>3
  <2>2. a * r < b * r
    BY <1>2
  <2>3. a * q \in Nat /\ a * r \in Nat /\ b * r \in Nat
    BY <1>1, <1>2
  <2> QED BY <1>1, <1>2, <2>1, <2>2, <2>3
<1> QED BY <1>1, <1>2, <1>3 DEF q, r

LEMMA RRFScores ==
  /\ \A i \in 1..MaxRank : RRFScore(i) \in Nat /\ RRFScore(i) > 0
  /\ \A i, j \in 1..MaxRank : i < j => RRFScore(i) > RRFScore(j)
<1>1. One \in Nat \ {0} /\ \A i \in 1..MaxRank : One % (60 + i) = 0
  BY SearchAssumption DEF SearchAssumption
<1>2. \A i \in 1..MaxRank : 60 + i \in Nat \ {0}
  BY RanksAre
<1>3. ASSUME NEW i \in 1..MaxRank
      PROVE  RRFScore(i) \in Nat /\ RRFScore(i) > 0
  <2> DEFINE d == 60 + i
  <2>1. d \in Nat \ {0} /\ One % d = 0
    BY <1>1, <1>2
  <2> HIDE DEF d
  <2>2. One \div d \in Nat /\ One \div d > 0
    BY <1>1, <2>1, Exactly
  <2> QED BY <2>2 DEF RRFScore, d
<1>4. ASSUME NEW i \in 1..MaxRank, NEW j \in 1..MaxRank, i < j
      PROVE  RRFScore(i) > RRFScore(j)
  <2>1. 60 + i < 60 + j
    BY <1>2, <1>4
  <2> QED BY <1>1, <1>2, <2>1, Quotients DEF RRFScore
<1> QED BY <1>3, <1>4

\* What the vector search finds.
LEMMA NearestIs ==
  ASSUME embedded \subseteq Rows, NEW n \in Nat, NEW list \in Nearest(n)
  PROVE  /\ list \in Seq(embedded) /\ IsInjective(list) /\ Len(list) <= MaxRank
         /\ Len(list) = Least(n, Cardinality(embedded)) /\ Len(list) \in Nat
         /\ DOMAIN list = 1..Len(list)
         /\ \A v \in embedded : (\A i \in DOMAIN list : list[i] # v) =>
              \A i \in DOMAIN list : Vectors[list[i]].score >= Vectors[v].score
<1> DEFINE m == Least(n, Cardinality(embedded))
<1>1. Cardinality(embedded) \in Nat /\ Cardinality(embedded) <= MaxRank
  BY FiniteRows
<1>2. m \in Nat /\ m <= Cardinality(embedded)
  BY <1>1, LeastIs
<1>3. /\ list \in [1..m -> embedded] /\ IsInjective(list)
      /\ \A v \in embedded : (\A i \in DOMAIN list : list[i] # v) =>
           \A i \in DOMAIN list : Vectors[list[i]].score >= Vectors[v].score
  BY DEF Nearest
<1> HIDE DEF m
<1>4. list \in Seq(embedded) /\ Len(list) = m /\ DOMAIN list = 1..m
  BY <1>2, <1>3
<1>5. m <= MaxRank
  BY <1>1, <1>2, RanksAre
<1> QED BY <1>2, <1>3, <1>4, <1>5 DEF m

\* The members of a list in a set: each once, if the list has each once, and all of them.
LEMMA MembersAre ==
  ASSUME NEW V, NEW list \in Seq(V), IsInjective(list), NEW set
  PROVE  LET kept == KeepMembers(list, set)
         IN /\ kept \in Seq(V) /\ IsInjective(kept) /\ Len(kept) <= Len(list)
            /\ Len(kept) \in Nat /\ DOMAIN kept = 1..Len(kept)
            /\ \A k \in DOMAIN kept : kept[k] \in set
            /\ \A k \in DOMAIN kept : \E i \in DOMAIN list : list[i] = kept[k]
            /\ \A i \in DOMAIN list : list[i] \in set => \E k \in DOMAIN kept : kept[k] = list[i]
<1> DEFINE positions == {n \in DOMAIN list : list[n] \in set}
           kept == Keep(list, positions)
<1>1. DOMAIN list = 1..Len(list) /\ Len(list) \in Nat
  OBVIOUS
<1>2. \A n : n \in positions <=> n \in 1..Len(list) /\ list[n] \in set
  BY <1>1
<1> HIDE DEF positions
<1>3. kept \in Seq(V) /\ \E at : Picks(kept, list, positions, at, Len(list))
  BY KeepPicks
<1>4. PICK at : Picks(kept, list, positions, at, Len(list))
  BY <1>3
<1>5. Len(kept) <= Len(list)
  BY KeepLength
<1> HIDE DEF kept
<1>6. Len(kept) \in Nat /\ DOMAIN kept = 1..Len(kept)
  BY <1>3
<1>7. \A k \in 1..Len(kept) : kept[k] = list[at[k]] /\ at[k] \in positions /\ at[k] \in 1..Len(list)
  BY <1>4 DEF Picks
<1>8. ASSUME NEW i \in 1..Len(kept), NEW j \in 1..Len(kept), kept[i] = kept[j]
      PROVE  i = j
  <2>1. at[i] = at[j] /\ at[i] \in Nat
    BY <1>1, <1>7, <1>8 DEF IsInjective
  <2>2. ~(i < j) /\ ~(j < i)
    <3>1. \A k, m \in 1..Len(kept) : k < m => at[k] < at[m]
      BY <1>4 DEF Picks
    <3> QED BY <2>1, <3>1
  <2> QED BY <1>6, <2>2
<1>9. IsInjective(kept)
  BY <1>6, <1>8 DEF IsInjective
<1>10. ASSUME NEW i \in DOMAIN list, list[i] \in set
       PROVE  \E k \in 1..Len(kept) : kept[k] = list[i]
  <2>1. i \in positions /\ i \in 1..Len(list)
    BY <1>1, <1>2, <1>10
  <2>2. PICK k \in 1..Len(kept) : at[k] = i
    BY <1>4, <2>1 DEF Picks
  <2> QED BY <1>7, <2>2
<1>11. \A k \in 1..Len(kept) : \E i \in DOMAIN list : list[i] = kept[k]
  BY <1>1, <1>7
<1> QED BY <1>2, <1>3, <1>5, <1>6, <1>7, <1>9, <1>10, <1>11 DEF KeepMembers, kept, positions

-----------------------------------------------------------------------------
(* The chunk a match is resolved to.                                       *)

LEMMA FourTuple ==
  ASSUME NEW a \in Int, NEW b \in Int, NEW c \in Int, NEW d \in Int
  PROVE  <<a, b, c, d>> \in [1..4 -> Int] /\ <<a, b, c, d>>[4] = d
<1>1. DOMAIN <<a, b, c, d>> = 1..4
  OBVIOUS
<1>2. \A i \in 1..4 : i = 1 \/ i = 2 \/ i = 3 \/ i = 4
  OBVIOUS
<1>3. \A i \in 1..4 : <<a, b, c, d>>[i] \in Int
  BY <1>2
<1>4. <<a, b, c, d>> = [i \in 1..4 |-> <<a, b, c, d>>[i]]
  BY <1>1
<1> QED BY <1>3, <1>4

LEMMA BestIs ==
  ASSUME NEW S \in SUBSET Chunks, S # {}, NEW tuple \in [S -> [1..4 -> Int]],
         \A c \in S : tuple[c][4] = c
  PROVE  Best(tuple) \in S
<1> DEFINE R == {e \in S \X S : Before(tuple[e[1]], tuple[e[2]])}
<1>1. \A c, d \in S : <<c, d>> \in R <=> Before(tuple[c], tuple[d])
  OBVIOUS
<1> HIDE DEF R
<1>2. StrictOrder(R, S)
  <2>1. \A c, d \in S : c # d => tuple[c] # tuple[d]
    OBVIOUS
  <2>2. 4 \in Nat
    OBVIOUS
  <2> QED BY <1>1, <2>1, <2>2, TupleOrder
<1>3. \E c \in S : \A d \in S \ {c} : <<c, d>> \in R
  BY <1>2, FiniteChunks, FirstOne
<1>4. \E c \in S : \A d \in S \ {c} : Before(tuple[c], tuple[d])
  BY <1>1, <1>3
<1>5. DOMAIN tuple = S
  OBVIOUS
<1> QED BY <1>4, <1>5 DEF Best

LEMMA BestOverlappingIs ==
  ASSUME NEW h \in Matches, NEW chunks \in SUBSET Chunks
  PROVE  BestOverlapping(h, chunks) \in {0} \cup chunks
<1> DEFINE those == {c \in chunks : Overlap(Layout[c], h)}
           shared(c) == Least(Layout[c].to, h.to) + 1
                          - (IF Layout[c].from < h.from THEN h.from ELSE Layout[c].from)
           a(c) == h.to + 1 - shared(c)
           tuple == [c \in those |-> <<a(c), Lines(c), Layout[c].from, c>>]
<1>1. BestOverlapping(h, chunks) = IF those = {} THEN 0 ELSE Best(tuple)
  BY DEF BestOverlapping
<1>2. ASSUME NEW c \in those
      PROVE  /\ <<a(c), Lines(c), Layout[c].from, c>> \in [1..4 -> Int]
             /\ <<a(c), Lines(c), Layout[c].from, c>>[4] = c
  <2>1. c \in Chunks
    OBVIOUS
  <2>2. c \in Nat /\ Layout[c].from \in Nat /\ Layout[c].to \in Nat
    BY <2>1, ChunkType
  <2>3. h.from \in Nat /\ h.to \in Nat
    BY DEF Matches
  <2>4. Least(Layout[c].to, h.to) \in Nat
    BY <2>2, <2>3, LeastIs
  <2>5. a(c) \in Int /\ Lines(c) \in Int /\ Layout[c].from \in Int /\ c \in Int
    BY <2>2, <2>3, <2>4 DEF Lines
  <2> HIDE DEF a
  <2> QED BY <2>5, FourTuple
<1>3. tuple \in [those -> [1..4 -> Int]] /\ \A c \in those : tuple[c][4] = c
  <2> HIDE DEF those, a
  <2> QED BY <1>2
<1>4. those \in SUBSET Chunks /\ those \subseteq chunks
  OBVIOUS
<1> HIDE DEF those, tuple
<1>5. those # {} => Best(tuple) \in those
  BY <1>3, <1>4, BestIs
<1> QED BY <1>1, <1>4, <1>5

LEMMA BestByNameIs ==
  ASSUME NEW chunks \in SUBSET Chunks
  PROVE  BestByName(chunks) \in {0} \cup chunks
<1> DEFINE tuple == [c \in chunks |-> <<5 - Layout[c].fits, Lines(c), Layout[c].from, c>>]
<1>1. BestByName(chunks) = IF chunks = {} THEN 0 ELSE Best(tuple)
  BY DEF BestByName
<1>2. ASSUME NEW c \in chunks
      PROVE  /\ <<5 - Layout[c].fits, Lines(c), Layout[c].from, c>> \in [1..4 -> Int]
             /\ <<5 - Layout[c].fits, Lines(c), Layout[c].from, c>>[4] = c
  <2>1. c \in Chunks
    OBVIOUS
  <2>2. c \in Nat /\ Layout[c].from \in Nat /\ Layout[c].to \in Nat /\ Layout[c].fits \in Nat
    BY <2>1, ChunkType
  <2>3. 5 - Layout[c].fits \in Int /\ Lines(c) \in Int /\ Layout[c].from \in Int /\ c \in Int
    BY <2>2 DEF Lines
  <2> QED BY <2>3, FourTuple
<1>3. tuple \in [chunks -> [1..4 -> Int]] /\ \A c \in chunks : tuple[c][4] = c
  BY <1>2
<1> HIDE DEF tuple
<1>5. chunks # {} => Best(tuple) \in chunks
  BY <1>3, BestIs
<1> QED BY <1>1, <1>5
-----------------------------------------------------------------------------
(* The inductive invariant.                                                *)

\* The rows of embedded that are embeddings of chunks, and stay so.
LEMMA VersionsKept ==
  ASSUME embedded \subseteq embedded', OneVersion'
  PROVE  OneVersion
BY DEF OneVersion

LEMMA SemanticFrom ==
  ASSUME embedded \subseteq Rows, embedded' = embedded, NEW list \in Seq(embedded),
         IsInjective(list), Len(list) <= MaxRank,
         semantic' = [i \in DOMAIN list |-> RowResult(list[i])]
  PROVE  SemanticOK'
<1> DEFINE s == [i \in DOMAIN list |-> RowResult(list[i])]
<1>1. Len(list) \in Nat /\ DOMAIN list = 1..Len(list) /\ embedded' = embedded
  OBVIOUS
<1>2. DOMAIN s = 1..Len(list) /\ s = [k \in 1..Len(list) |-> s[k]]
  BY <1>1
<1>3. \A i \in 1..Len(list) : list[i] \in embedded /\ s[i] = RowResult(list[i])
  BY <1>1
<1>4. \A i \in 1..Len(list) : s[i].chunk = Vectors[list[i]].chunk
  BY <1>3 DEF RowResult, ChunkResult
<1>5. OneVersion => \A i, j \in 1..Len(list) : s[i].chunk = s[j].chunk => i = j
  BY <1>1, <1>3, <1>4 DEF OneVersion, IsInjective
<1>6. semantic' = s
  OBVIOUS
<1> HIDE DEF s
<1>7. IsList(s) /\ Len(s) = Len(list)
  BY <1>1, <1>2, ListIs
<1>8. OneVersion' => OneVersion
  BY <1>1, VersionsKept
<1>9. /\ IsList(semantic') /\ Len(semantic') <= MaxRank
      /\ \A i \in DOMAIN semantic' : \E v \in embedded' : semantic'[i] = RowResult(v)
      /\ OneVersion' =>
           \A i, j \in DOMAIN semantic' : semantic'[i].chunk = semantic'[j].chunk => i = j
  BY <1>1, <1>2, <1>3, <1>5, <1>6, <1>7, <1>8
<1> QED BY <1>9 DEF SemanticOK

\* Nothing is a list of anything.
LEMMA Nothing ==
  /\ \A V : <<>> \in Seq(V)
  /\ IsList(<<>>) /\ Len(<<>>) = 0 /\ DOMAIN <<>> = {}
<1>1. \A V : <<>> \in Seq(V)
  OBVIOUS
<1>2. Len(<<>>) = 0 /\ DOMAIN <<>> = {}
  OBVIOUS
<1> QED BY <1>1, <1>2 DEF IsList

LEMMA ResultsStay ==
  /\ VectorsOK /\ embedded \subseteq embedded' /\ (vectors' = vectors \/ vectors' = <<>>)
       => VectorsOK'
  /\ SemanticOK /\ embedded \subseteq embedded' /\ (semantic' = semantic \/ semantic' = <<>>)
       => SemanticOK'
  /\ TextOK /\ UNCHANGED <<name, index, hits, text>> => TextOK'
  /\ TextOK /\ UNCHANGED <<name, index>> /\ hits' = <<>> /\ text' = <<>> => TextOK'
<1>1. Len(<<>>) <= MaxRank /\ IsInjective(<<>>)
  BY Nothing, RanksAre DEF IsInjective
<1>2. ASSUME VectorsOK, embedded \subseteq embedded', vectors' = vectors \/ vectors' = <<>>
      PROVE  VectorsOK'
  <2>1. CASE vectors' = <<>>
    BY <1>1, <2>1, Nothing DEF VectorsOK
  <2>2. CASE vectors' = vectors
    <3>1. vectors \in Seq(embedded')
      BY <1>2 DEF VectorsOK
    <3> QED BY <1>2, <2>2, <3>1 DEF VectorsOK
  <2> QED BY <1>2, <2>1, <2>2
<1>3. ASSUME SemanticOK, embedded \subseteq embedded', semantic' = semantic \/ semantic' = <<>>
      PROVE  SemanticOK'
  <2>1. OneVersion' => OneVersion
    BY <1>3, VersionsKept
  <2> QED BY <1>1, <1>3, <2>1, Nothing DEF SemanticOK
<1>4. ASSUME TextOK, UNCHANGED <<name, index, hits, text>>
      PROVE  TextOK'
  BY <1>4 DEF TextOK
<1>5. ASSUME UNCHANGED <<name, index>>, hits' = <<>>, text' = <<>>
      PROVE  TextOK'
  <2>1. Len(text') + Len(hits') <= MaxRank
    BY <1>5, Nothing, RanksAre
  <2> QED BY <1>5, <2>1, Nothing DEF TextOK, FilesDiffer, FilesOf
<1> QED BY <1>2, <1>3, <1>4, <1>5

LEMMA FilesOfIndex ==
  ASSUME index \in Indexes, NEW n \in Nat
  PROVE  /\ First(n, index) \in Seq(Range(index)) /\ Len(First(n, index)) <= MaxRank
         /\ Len(First(n, index)) \in Nat /\ FilesDiffer(First(n, index))
         /\ DOMAIN First(n, index) = 1..Len(First(n, index))
         /\ \A k \in 1..Len(First(n, index)) : First(n, index)[k] = index[k] /\ k \in DOMAIN index
<1>1. index \in Seq(Matches) /\ Len(index) <= MaxRank /\ FilesDiffer(index)
  BY IndexType
<1>2. index \in Seq(Range(index)) /\ DOMAIN index = 1..Len(index) /\ Len(index) \in Nat
  BY <1>1 DEF Range
<1> DEFINE f == First(n, index)
<1>3. /\ f \in Seq(Range(index)) /\ Len(f) <= Len(index)
      /\ \A k \in 1..Len(f) : f[k] = index[k]
  BY <1>2, FirstIs DEF Starts
<1> HIDE DEF f
<1>4. Len(f) \in Nat /\ DOMAIN f = 1..Len(f)
  BY <1>3
<1>5. Len(f) <= MaxRank
  BY <1>1, <1>2, <1>3, <1>4, RanksAre
<1>6. \A k \in 1..Len(f) : k \in DOMAIN index
  BY <1>2, <1>3, <1>4
<1>7. FilesDiffer(f)
  BY <1>1, <1>3, <1>4, <1>6 DEF FilesDiffer
<1> QED BY <1>3, <1>4, <1>5, <1>6, <1>7 DEF f

LEMMA TextFrom ==
  ASSUME index \in Indexes, NEW n \in Nat, UNCHANGED <<name, index>>, hits' = <<>>,
         text' = [i \in DOMAIN First(n, index) |->
                    FileResult(First(n, index)[i], RRFScore(i), name)]
  PROVE  TextOK'
<1> DEFINE f == First(n, index)
           t == [i \in DOMAIN f |-> FileResult(f[i], RRFScore(i), name)]
<1>1. /\ Len(f) \in Nat /\ DOMAIN f = 1..Len(f) /\ Len(f) <= MaxRank /\ FilesDiffer(f)
      /\ f \in Seq(Range(index))
  BY FilesOfIndex
<1>2. text' = t
  OBVIOUS
<1> HIDE DEF f
<1>3. DOMAIN t = 1..Len(f) /\ t = [k \in 1..Len(f) |-> t[k]]
  BY <1>1
<1>4. \A i \in DOMAIN t : t[i] = FileResult(f[i], RRFScore(i), name)
  OBVIOUS
<1> HIDE DEF t
<1>5. IsList(t) /\ Len(t) = Len(f)
  BY <1>1, <1>3, ListIs
<1>6. ASSUME NEW i \in DOMAIN t
      PROVE  t[i].file = f[i].file /\ TextResult(t[i], name, Range(index))
  <2>1. i \in 1..MaxRank /\ f[i] \in Range(index)
    BY <1>1, <1>3, RanksAre
  <2>2. RRFScore(i) \in Nat
    BY <2>1, RRFScores
  <2>3. t[i].file = f[i].file /\ t[i].score = RRFScore(i)
    BY <1>4 DEF FileResult
  <2> QED BY <1>4, <2>1, <2>2, <2>3 DEF TextResult
<1>7. FilesDiffer(t)
  BY <1>1, <1>3, <1>6 DEF FilesDiffer
<1>8. Len(t) + Len(hits') <= MaxRank
  BY <1>1, <1>5, Nothing, RanksAre
<1>9. FilesDiffer(hits') /\ FilesOf(hits') = {}
  BY Nothing DEF FilesDiffer, FilesOf
<1> QED BY <1>2, <1>5, <1>6, <1>7, <1>8, <1>9, Nothing DEF TextOK, FilesDiffer, FilesOf

\* A resolved match leaves a result of its file, or none.
LEMMA ResolveText ==
  ASSUME TextOK, index \in Indexes, UNCHANGED <<name, index>>, hits # <<>>,
         NEW c \in {0} \cup {d \in Chunks : Layout[d].file = Head(hits).file},
         Resolved(Head(hits), c)
  PROVE  TextOK'
<1> DEFINE h == Head(hits)
           V == Range(index)
<1>1. hits \in Seq(V) /\ IsList(text) /\ Len(text) + Len(hits) <= MaxRank
  BY DEF TextOK
<1>2. /\ h \in V /\ Tail(hits) \in Seq(V) /\ Len(Tail(hits)) = Len(hits) - 1
      /\ \A i \in 1..Len(Tail(hits)) : Tail(hits)[i] = hits[i + 1]
      /\ Len(hits) \in Nat /\ DOMAIN hits = 1..Len(hits)
  <2> HIDE DEF V, h
  <2>1. /\ Head(hits) \in V /\ Tail(hits) \in Seq(V) /\ Len(Tail(hits)) = Len(hits) - 1
        /\ \A i \in 1..Len(Tail(hits)) : Tail(hits)[i] = hits[i + 1]
    BY <1>1, HeadTailProperties
  <2>2. Len(hits) \in Nat /\ DOMAIN hits = 1..Len(hits)
    BY <1>1
  <2> QED BY <2>1, <2>2 DEF h
<1>3. h = hits[1] /\ 1 \in DOMAIN hits
  <2>1. Len(hits) >= 1
    BY <1>1, <1>2
  <2> QED BY <1>1, <1>2, <2>1
<1> DEFINE rest == Tail(hits)
           r == IF c # 0 THEN ChunkResult(c, 0) ELSE FileResult(h, 0, name)
<1>4. hits' = rest /\ (text' = text \/ text' = Append(text, r))
  BY DEF Resolved
<1>5. r.file = h.file /\ TextResult(r, name, V)
  <2>1. CASE c # 0
    BY <2>1 DEF ChunkResult, TextResult
  <2>2. CASE c = 0
    <3>1. r.score = 0 /\ r = FileResult(h, r.score, name) /\ r.file = h.file
      BY <2>2 DEF FileResult
    <3> QED BY <1>2, <3>1 DEF TextResult
  <2> QED BY <2>1, <2>2
<1> HIDE DEF rest, r, V, h
<1>6. \A i \in DOMAIN rest : i + 1 \in DOMAIN hits /\ rest[i] = hits[i + 1] /\ i + 1 # 1
  BY <1>2 DEF rest
<1>7. FilesDiffer(rest) /\ h.file \notin FilesOf(rest)
  <2>1. \A i, j \in DOMAIN hits : hits[i].file = hits[j].file => i = j
    BY DEF TextOK, FilesDiffer
  <2>2. ASSUME NEW i \in DOMAIN rest, NEW j \in DOMAIN rest, rest[i].file = rest[j].file
        PROVE  i = j
    <3>1. i + 1 = j + 1
      BY <1>6, <2>1, <2>2
    <3>2. i \in Nat /\ j \in Nat
      BY <1>2 DEF rest
    <3> QED BY <3>1, <3>2
  <2>3. \A i \in DOMAIN rest : rest[i].file # h.file
    BY <1>3, <1>6, <2>1
  <2> QED BY <2>2, <2>3 DEF FilesDiffer, FilesOf
<1>8. FilesOf(rest) \subseteq FilesOf(hits) /\ h.file \in FilesOf(hits)
  BY <1>3, <1>6 DEF FilesOf
<1>9. /\ Len(text) \in Nat /\ DOMAIN text = 1..Len(text) /\ FilesDiffer(text)
      /\ FilesOf(hits) \cap FilesOf(text) = {}
      /\ \A i \in DOMAIN text : TextResult(text[i], name, V)
  <2>1. Len(text) \in Nat /\ DOMAIN text = 1..Len(text)
    BY <1>1 DEF IsList
  <2> QED BY <2>1 DEF TextOK, V
<1>10. Len(rest) = Len(hits) - 1
  BY <1>2 DEF rest
<1>11. CASE text' = text
  <2>1. Len(text) + Len(rest) <= MaxRank
    BY <1>1, <1>2, <1>9, <1>10, RanksAre
  <2>2. FilesOf(rest) \cap FilesOf(text) = {} /\ rest \in Seq(V) /\ FilesDiffer(rest)
    BY <1>2, <1>7, <1>8, <1>9 DEF rest
  <2>3. hits' = rest /\ text' = text /\ name' = name /\ V = Range(index')
    BY <1>4, <1>11 DEF V
  <2> QED BY <1>1, <1>9, <2>1, <2>2, <2>3 DEF TextOK
<1>12. CASE text' = Append(text, r)
  <2> DEFINE t == Append(text, r)
  <2>1. /\ IsList(t) /\ Len(t) = Len(text) + 1 /\ DOMAIN t = 1..(Len(text) + 1)
        /\ t[Len(text) + 1] = r /\ \A k \in 1..Len(text) : t[k] = text[k]
    BY <1>1, ListAppend
  <2> HIDE DEF t
  <2>2. \A i \in DOMAIN t : i \in DOMAIN text \/ i = Len(text) + 1
    BY <1>9, <2>1
  <2>3. \A i \in DOMAIN text : t[i] = text[i] /\ i # Len(text) + 1 /\ text[i].file # r.file
    <3>1. \A i \in DOMAIN text : text[i].file # h.file
      BY <1>8, <1>9 DEF FilesOf
    <3> QED BY <1>5, <1>9, <2>1, <3>1
  <2>4. \A i \in DOMAIN t : TextResult(t[i], name, V)
    BY <1>5, <1>9, <2>1, <2>2, <2>3
  <2>5. FilesDiffer(t)
    BY <1>9, <2>1, <2>2, <2>3 DEF FilesDiffer
  <2>6. FilesOf(t) = FilesOf(text) \cup {h.file}
    <3>1. FilesOf(t) \subseteq FilesOf(text) \cup {h.file}
      BY <1>5, <2>1, <2>2, <2>3 DEF FilesOf
    <3>2. FilesOf(text) \subseteq FilesOf(t)
      BY <1>9, <2>1, <2>3 DEF FilesOf
    <3>3. h.file \in FilesOf(t)
      BY <1>5, <1>9, <2>1 DEF FilesOf
    <3> QED BY <3>1, <3>2, <3>3
  <2>7. FilesOf(rest) \cap FilesOf(t) = {}
    BY <1>7, <1>8, <1>9, <2>6
  <2>8. Len(t) + Len(rest) <= MaxRank
    BY <1>1, <1>2, <1>9, <1>10, <2>1, RanksAre
  <2>9. hits' = rest /\ text' = t /\ name' = name /\ V = Range(index') /\ rest \in Seq(V)
    BY <1>2, <1>4, <1>12 DEF t, rest, V
  <2>10. FilesDiffer(rest)
    BY <1>7
  <2> QED BY <2>1, <2>4, <2>5, <2>7, <2>8, <2>9, <2>10 DEF TextOK
<1> QED BY <1>4, <1>11, <1>12

LEMMA SearchInit == Init => SearchInv
<1> SUFFICES ASSUME Init
             PROVE  SearchInv
  OBVIOUS
<1>1. VectorsOK
  BY Nothing, RanksAre DEF Init, VectorsOK, IsInjective
<1>2. SemanticOK
  BY Nothing, RanksAre DEF Init, SemanticOK
<1>3. TextOK
  <2>1. Len(text) + Len(hits) <= MaxRank
    BY Nothing, RanksAre DEF Init
  <2> QED BY <2>1, Nothing DEF Init, TextOK, FilesDiffer, FilesOf
<1>4. CacheOK
  BY Nothing DEF Init, CacheOK
<1>5. SearchOK
  BY DEF Init, SearchOK
<1>6. embedded \subseteq {v \in Rows : Vectors[v].chunk \in stored}
  BY VectorType DEF Init
<1> QED BY <1>1, <1>2, <1>3, <1>4, <1>5, <1>6 DEF Init, SearchInv, Modes, Sorts, DefaultSort

\* What has no part in a step of the search.
LEMMA LimitIs == Limit \in Nat \ {0}
BY SearchAssumption DEF SearchAssumption

LEMMA SearchStep == SearchInv /\ [Next]_vars => SearchInv'
<1> SUFFICES ASSUME SearchInv, [Next]_vars
             PROVE  SearchInv'
  OBVIOUS
<1> DEFINE Where == {"idle", "ask", "fetch", "text", "resolve", "respond", "done"}
<1>0. /\ VectorsOK /\ SemanticOK /\ TextOK /\ CacheOK /\ SearchOK
      /\ stored \subseteq Chunks /\ index \in Indexes
      /\ embedded \subseteq {v \in Rows : Vectors[v].chunk \in stored} /\ embedded \subseteq Rows
      /\ archived \in BOOLEAN /\ wanted \subseteq Chunks /\ offset \in Nat
      /\ mode \in Modes /\ sort \in Sorts /\ pc \in Where
  BY DEF SearchInv
<1>a. Depth \in Nat
  BY <1>0, LimitIs DEF Depth
<1>1. CASE Ask
  <2>1. SearchOK'
    BY <1>0, <1>1 DEF Ask, SearchOK, search, Modes
  <2>2. VectorsOK' /\ SemanticOK' /\ TextOK'
    BY <1>0, <1>1, ResultsStay DEF Ask, search, corpus
  <2>3. CacheOK'
    BY <1>0, <1>1 DEF Ask, CacheOK
  <2>4. wanted' \subseteq Chunks
    BY <1>1, SearchAssumption DEF Ask, SearchAssumption
  <2> QED BY <1>0, <1>1, <2>1, <2>2, <2>3, <2>4 DEF Ask, SearchInv, corpus
<1>2. CASE VectorSearch
  <2>1. SearchOK'
    BY <1>0, <1>2 DEF VectorSearch, Failed, Cleared, SearchOK, request
  <2>2. VectorsOK'
    <3>1. CASE vectors' \in Nearest(Depth)
      <4>1. embedded' = embedded
        BY <1>2 DEF VectorSearch, corpus
      <4> QED BY <1>0, <1>a, <3>1, <4>1, NearestIs DEF VectorsOK
    <3>2. CASE Cleared
      BY <1>0, <1>2, <3>2, ResultsStay DEF VectorSearch, Cleared, corpus
    <3> QED BY <1>2, <3>1, <3>2 DEF VectorSearch, Failed
  <2>3. SemanticOK' /\ TextOK'
    BY <1>0, <1>2, ResultsStay DEF VectorSearch, Failed, Cleared, corpus
  <2>4. CacheOK'
    BY <1>0, <1>2 DEF VectorSearch, CacheOK
  <2> QED BY <1>0, <1>2, <2>1, <2>2, <2>3, <2>4
            DEF VectorSearch, Failed, SearchInv, corpus, request
<1>3. CASE FetchChunks
  <2>1. SearchOK'
    BY <1>0, <1>3 DEF FetchChunks, Failed, Cleared, SearchOK, request
  <2>2. SemanticOK'
    <3> DEFINE found == KeepMembers(vectors, Visible)
    <3>1. found \in Seq(embedded) /\ IsInjective(found) /\ Len(found) <= MaxRank
      <4>1. vectors \in Seq(embedded) /\ IsInjective(vectors) /\ Len(vectors) <= MaxRank
        BY <1>0 DEF VectorsOK
      <4>2. /\ found \in Seq(embedded) /\ IsInjective(found) /\ Len(found) <= Len(vectors)
            /\ Len(found) \in Nat
        BY <4>1, MembersAre
      <4>3. Len(vectors) \in Nat
        BY <4>1
      <4> HIDE DEF found
      <4> QED BY <4>1, <4>2, <4>3, RanksAre
    <3>2. CASE Cleared
      BY <1>0, <1>3, <3>2, ResultsStay DEF FetchChunks, Cleared, corpus
    <3>3. CASE semantic' = [i \in DOMAIN found |-> RowResult(found[i])]
      <4>1. embedded' = embedded
        BY <1>3 DEF FetchChunks, corpus
      <4> HIDE DEF found
      <4> QED BY <1>0, <3>1, <3>3, <4>1, SemanticFrom
    <3> QED BY <1>3, <3>2, <3>3 DEF FetchChunks, Failed
  <2>3. VectorsOK' /\ TextOK'
    BY <1>0, <1>3, ResultsStay DEF FetchChunks, Failed, Cleared, corpus
  <2>4. CacheOK'
    BY <1>0, <1>3 DEF FetchChunks, CacheOK
  <2>5. pc' \in Where
    BY <1>3 DEF FetchChunks, Failed
  <2> QED BY <1>0, <1>3, <2>1, <2>2, <2>3, <2>4, <2>5
            DEF FetchChunks, SearchInv, corpus, request
<1>4. CASE TextSearch
  <2>1. SearchOK'
    BY <1>0, <1>4 DEF TextSearch, Failed, Cleared, SearchOK, request, search, Modes
  <2>2. TextOK'
    <3> DEFINE found == First(Depth, index)
    <3>1. CASE /\ mode = "text"
               /\ text' = [i \in DOMAIN found |-> FileResult(found[i], RRFScore(i), name)]
               /\ UNCHANGED hits
      <4>1. hits' = <<>>
        BY <1>0, <1>4, <3>1 DEF TextSearch, SearchOK
      <4> QED BY <1>0, <1>4, <1>a, <3>1, <4>1, TextFrom DEF TextSearch, corpus
    <3>2. CASE mode = "hybrid" /\ hits' = found /\ UNCHANGED text
      <4>1. /\ found \in Seq(Range(index)) /\ Len(found) <= MaxRank /\ FilesDiffer(found)
            /\ Len(found) \in Nat
        BY <1>0, <1>a, FilesOfIndex
      <4>2. text = <<>>
        BY <1>0, <1>4 DEF TextSearch, SearchOK
      <4>3. hits' = found /\ text' = <<>> /\ name' = name /\ index' = index
        BY <1>4, <3>2, <4>2 DEF TextSearch, corpus
      <4> HIDE DEF found
      <4>4. Len(<<>>) + Len(found) <= MaxRank
        BY <4>1, Nothing, RanksAre
      <4>5. FilesDiffer(<<>>) /\ FilesOf(found) \cap FilesOf(<<>>) = {}
        BY Nothing DEF FilesDiffer, FilesOf
      <4> QED BY <4>1, <4>3, <4>4, <4>5, Nothing DEF TextOK
    <3>3. CASE Cleared
      BY <1>0, <1>4, <3>3, ResultsStay DEF TextSearch, Cleared, corpus
    <3>4. CASE UNCHANGED search
      BY <1>0, <1>4, <3>4, ResultsStay DEF TextSearch, search, corpus
    <3> QED BY <1>4, <3>1, <3>2, <3>3, <3>4 DEF TextSearch, Failed
  <2>3. VectorsOK' /\ SemanticOK'
    BY <1>0, <1>4, ResultsStay DEF TextSearch, Failed, Cleared, search, corpus
  <2>4. CacheOK'
    BY <1>0, <1>4 DEF TextSearch, CacheOK
  <2>5. pc' \in Where
    BY <1>4 DEF TextSearch, Failed
  <2> QED BY <1>0, <1>4, <2>1, <2>2, <2>3, <2>4, <2>5
            DEF TextSearch, SearchInv, corpus, request
<1>5. CASE ResolveHit
  <2> DEFINE h == Head(hits)
             Its(f) == {c \in Chunks : Layout[c].file = f}
  <2>0. UNCHANGED <<corpus, pc, request, offset, vectors, semantic>> /\ hits # <<>> /\ pc = "resolve"
    BY <1>5 DEF ResolveHit
  <2>1. h \in Matches
    <3>1. hits \in Seq(Range(index)) /\ index \in Seq(Matches)
      BY <1>0, IndexType DEF TextOK
    <3>2. Range(index) \subseteq Matches
      BY <3>1 DEF Range
    <3>3. h \in Range(index)
      BY <2>0, <3>1, HeadTailProperties
    <3> QED BY <3>2, <3>3
  <2>2. \A f : ChunksOf(f) \subseteq Its(f) /\ ChunksOf(f) \subseteq Chunks
    BY <1>0 DEF ChunksOf
  <2>3. \A f \in DOMAIN cache : cache[f] \subseteq Its(f) /\ cache[f] \subseteq Chunks
    BY <1>0 DEF CacheOK
  <2>4. CacheOK'
    <3>1. CASE UNCHANGED cache
      BY <1>0, <3>1 DEF CacheOK
    <3>2. CASE cache' = [f \in DOMAIN cache \cup {h.file} |->
                           IF f = h.file THEN ChunksOf(f) ELSE cache[f]]
      BY <2>2, <2>3, <3>2 DEF CacheOK
    <3> QED BY <1>5, <3>1, <3>2 DEF ResolveHit
  <2>5. \E c \in {0} \cup Its(h.file) : Resolved(h, c)
    <3>1. BestByName(ChunksOf(h.file)) \in {0} \cup Its(h.file)
      BY <2>2, BestByNameIs
    <3>2. BestOverlapping(h, ChunksOf(h.file)) \in {0} \cup Its(h.file)
      BY <2>1, <2>2, BestOverlappingIs
    <3>3. h.file \in DOMAIN cache => BestOverlapping(h, cache[h.file]) \in {0} \cup Its(h.file)
      BY <2>1, <2>3, BestOverlappingIs
    <3> QED BY <1>5, <3>1, <3>2, <3>3 DEF ResolveHit
  <2>6. TextOK'
    <3>1. PICK c \in {0} \cup Its(h.file) : Resolved(h, c)
      BY <2>5
    <3> QED BY <1>0, <2>0, <3>1, ResolveText DEF corpus
  <2>7. VectorsOK' /\ SemanticOK'
    BY <1>0, <2>0, ResultsStay DEF corpus
  <2>8. SearchOK'
    BY <1>0, <2>0 DEF SearchOK, request
  <2> QED BY <1>0, <2>0, <2>4, <2>6, <2>7, <2>8 DEF SearchInv, corpus, request
<1>6. CASE AllResolved
  <2>1. SearchOK'
    BY <1>0, <1>6 DEF AllResolved, SearchOK, search, request, Modes
  <2>2. VectorsOK' /\ SemanticOK' /\ TextOK'
    BY <1>0, <1>6, ResultsStay DEF AllResolved, search, corpus
  <2>3. CacheOK'
    BY <1>0, <1>6 DEF AllResolved, CacheOK
  <2> QED BY <1>0, <1>6, <2>1, <2>2, <2>3 DEF AllResolved, SearchInv, corpus, request
<1>7. CASE Respond
  <2>0. /\ pc' \in {"done", "ask"} /\ offset' = offset + Limit /\ Cleared
        /\ UNCHANGED <<corpus, cache, request>>
    BY <1>7 DEF Respond
  <2>1. SearchOK'
    BY <2>0 DEF SearchOK, Cleared
  <2>2. VectorsOK' /\ SemanticOK' /\ TextOK'
    BY <1>0, <2>0, ResultsStay DEF Cleared, corpus
  <2>3. CacheOK'
    BY <1>0, <2>0 DEF CacheOK
  <2>4. offset' \in Nat
    BY <1>0, <2>0, LimitIs
  <2> QED BY <1>0, <2>0, <2>1, <2>2, <2>3, <2>4 DEF SearchInv, corpus, request
<1>8. CASE \/ \E c \in Chunks : SaveChunks(Layout[c].file)
           \/ \E v \in Rows : SaveEmbeddings(Layout[Vectors[v].chunk].file, Vectors[v].model)
           \/ Archive
  <2>0. UNCHANGED <<name, index, cache, pc, request, offset, search>>
    BY <1>8 DEF SaveChunks, SaveEmbeddings, Archive, Changes
  <2>1. /\ stored' \subseteq Chunks /\ archived' \in BOOLEAN /\ embedded \subseteq embedded'
        /\ embedded' \subseteq {v \in Rows : Vectors[v].chunk \in stored'}
    BY <1>0, <1>8 DEF SaveChunks, SaveEmbeddings, Archive
  <2>2. SearchOK'
    BY <1>0, <2>0 DEF SearchOK, search, request
  <2>3. VectorsOK' /\ SemanticOK' /\ TextOK'
    BY <1>0, <2>0, <2>1, ResultsStay DEF search
  <2>4. CacheOK'
    BY <1>0, <2>0 DEF CacheOK
  <2> QED BY <1>0, <2>0, <2>1, <2>2, <2>3, <2>4 DEF SearchInv, request
<1>9. CASE UNCHANGED vars
  <2>1. SearchOK'
    BY <1>0, <1>9 DEF SearchOK, vars, search, request
  <2>2. VectorsOK' /\ SemanticOK' /\ TextOK'
    BY <1>0, <1>9, ResultsStay DEF vars, search, corpus
  <2>3. CacheOK'
    BY <1>0, <1>9 DEF CacheOK, vars
  <2> QED BY <1>0, <1>9, <2>1, <2>2, <2>3 DEF SearchInv, vars, corpus, request
<1> QED BY <1>1, <1>2, <1>3, <1>4, <1>5, <1>6, <1>7, <1>8, <1>9 DEF Next

\* At every moment, what a search has found so far is in order and of different files.
THEOREM SearchIsSound == Spec => []SearchInv
BY SearchInit, SearchStep, PTL DEF Spec

-----------------------------------------------------------------------------
(* Ranking.                                                                *)

Results == [chunk : Nat, repo : Nat, file : Nat, from : Nat, to : Nat, score : Nat]

LEMMA SixTuple ==
  ASSUME NEW a \in Int, NEW b \in Int, NEW c \in Int, NEW d \in Int, NEW e \in Int, NEW f \in Int
  PROVE  /\ <<a, b, c, d, e, f>> \in [1..6 -> Int]
         /\ <<a, b, c, d, e, f>>[1] = a /\ <<a, b, c, d, e, f>>[2] = b
         /\ <<a, b, c, d, e, f>>[3] = c /\ <<a, b, c, d, e, f>>[4] = d
         /\ <<a, b, c, d, e, f>>[5] = e /\ <<a, b, c, d, e, f>>[6] = f
<1> DEFINE t == <<a, b, c, d, e, f>>
<1>1. DOMAIN t = 1..6 /\ t[1] = a /\ t[2] = b /\ t[3] = c /\ t[4] = d /\ t[5] = e /\ t[6] = f
  OBVIOUS
<1>2. t = [i \in 1..6 |-> t[i]]
  BY <1>1
<1> HIDE DEF t
<1>3. \A i \in 1..6 : i = 1 \/ i = 2 \/ i = 3 \/ i = 4 \/ i = 5 \/ i = 6
  OBVIOUS
<1>4. \A i \in 1..6 : t[i] \in Int
  BY <1>1, <1>3
<1> QED BY <1>1, <1>2, <1>4 DEF t

LEMMA Places ==
  /\ \A r \in Results : Place(r) \in [1..6 -> Int]
  /\ \A r, s \in Results : r # s => Place(r) # Place(s)
  /\ \A r, s \in Results : RanksBefore(r, s) => s.score <= r.score
<1>1. ASSUME NEW r \in Results
      PROVE  /\ Place(r) \in [1..6 -> Int]
             /\ Place(r)[1] = 0 - r.score /\ Place(r)[2] = r.repo /\ Place(r)[3] = r.file
             /\ Place(r)[4] = r.from /\ Place(r)[5] = r.to /\ Place(r)[6] = r.chunk
  <2>1. /\ 0 - r.score \in Int /\ r.repo \in Int /\ r.file \in Int
        /\ r.from \in Int /\ r.to \in Int /\ r.chunk \in Int
    BY DEF Results
  <2> QED BY <2>1, SixTuple DEF Place
<1>2. ASSUME NEW r \in Results, NEW s \in Results, Place(r) = Place(s)
      PROVE  r = s
  <2>1. /\ 0 - r.score = 0 - s.score /\ r.repo = s.repo /\ r.file = s.file
        /\ r.from = s.from /\ r.to = s.to /\ r.chunk = s.chunk
    BY <1>1, <1>2
  <2>2. r.score = s.score
    BY <2>1 DEF Results
  <2> QED BY <2>1, <2>2 DEF Results
<1>3. ASSUME NEW r \in Results, NEW s \in Results, RanksBefore(r, s)
      PROVE  s.score <= r.score
  <2>1. Before(Place(r), Place(s)) /\ DOMAIN Place(r) = 1..6
    BY <1>1, <1>3 DEF RanksBefore
  <2>2. PICK i \in 1..6 : /\ Place(r)[i] < Place(s)[i]
                          /\ \A j \in 1..(i - 1) : Place(r)[j] = Place(s)[j]
    BY <2>1 DEF Before
  <2>3. i = 1 \/ 1 \in 1..(i - 1)
    OBVIOUS
  <2>4. r.score \in Nat /\ s.score \in Nat
    BY DEF Results
  <2>5. 0 - r.score < 0 - s.score \/ 0 - r.score = 0 - s.score
    BY <1>1, <2>2, <2>3
  <2> QED BY <2>4, <2>5
<1> QED BY <1>1, <1>2, <1>3

\* A ranked set is a list of its elements, each once, from the highest score down.
THEOREM RankedIs ==
  ASSUME NEW S \in SUBSET Results, IsFiniteSet(S)
  PROVE  /\ IsList(Ranked(S)) /\ DOMAIN Ranked(S) = 1..Cardinality(S) /\ Cardinality(S) \in Nat
         /\ \A i \in DOMAIN Ranked(S) : Ranked(S)[i] \in S
         /\ \A i, j \in DOMAIN Ranked(S) : i # j => Ranked(S)[i] # Ranked(S)[j]
         /\ \A i, j \in DOMAIN Ranked(S) : i < j => Ranked(S)[j].score <= Ranked(S)[i].score
<1> DEFINE n == Cardinality(S)
           f == Ranked(S)
           R == {e \in S \X S : RanksBefore(e[1], e[2])}
           tuple == [r \in S |-> Place(r)]
<1>1. \A r, s \in S : <<r, s>> \in R <=> RanksBefore(r, s)
  OBVIOUS
<1> HIDE DEF R
<1>2. StrictOrder(R, S)
  <2>1. tuple \in [S -> [1..6 -> Int]] /\ \A r, s \in S : r # s => tuple[r] # tuple[s]
    BY Places
  <2>2. \A r, s \in S : <<r, s>> \in R <=> Before(tuple[r], tuple[s])
    BY <1>1 DEF RanksBefore
  <2>3. 6 \in Nat
    OBVIOUS
  <2> HIDE DEF tuple
  <2> QED BY <2>1, <2>2, <2>3, TupleOrder
<1>3. \A r \in S : {b \in S : RanksBefore(b, r)} = Earlier(R, S, r)
  BY <1>1 DEF Earlier
<1> DEFINE count(r) == Cardinality(Earlier(R, S, r))
<1>4. /\ n \in Nat
      /\ \A r \in S : count(r) \in 0..(n - 1)
      /\ \A r, s \in S : <<r, s>> \in R => count(r) < count(s)
      /\ \A i \in 1..n : \E r \in S : count(r) = i - 1
  BY <1>2, Counted
<1>5. DOMAIN f = 1..n /\ f = [i \in 1..n |-> f[i]]
  <2> DEFINE place(i) == CHOOSE a \in S : Cardinality({b \in S : RanksBefore(b, a)}) = i - 1
  <2>1. f = [i \in 1..n |-> place(i)]
    BY DEF Ranked
  <2> HIDE DEF place, f
  <2> QED BY <2>1
<1>6. ASSUME NEW i \in 1..n
      PROVE  f[i] \in S /\ count(f[i]) = i - 1
  <2>1. \E r \in S : Cardinality({b \in S : RanksBefore(b, r)}) = i - 1
    BY <1>3, <1>4
  <2>2. f[i] \in S /\ Cardinality({b \in S : RanksBefore(b, f[i])}) = i - 1
    BY <2>1 DEF Ranked
  <2> QED BY <1>3, <2>2
<1> HIDE DEF f, n
<1>7. IsList(f)
  BY <1>4, <1>5, ListIs
<1>8. ASSUME NEW i \in 1..n, NEW j \in 1..n, i # j
      PROVE  f[i] # f[j]
  BY <1>4, <1>6, <1>8
<1>9. ASSUME NEW i \in 1..n, NEW j \in 1..n, i < j
      PROVE  f[j].score <= f[i].score
  <2>1. f[i] \in S /\ f[j] \in S /\ f[i] # f[j] /\ count(f[i]) = i - 1 /\ count(f[j]) = j - 1
    BY <1>6, <1>8, <1>9
  <2>2. ~(count(f[j]) < count(f[i]))
    BY <1>4, <1>9, <2>1
  <2>3. <<f[i], f[j]>> \in R
    BY <1>2, <1>4, <2>1, <2>2 DEF StrictOrder
  <2>4. RanksBefore(f[i], f[j])
    BY <1>1, <2>1, <2>3
  <2> QED BY <2>1, <2>4, Places
<1> QED BY <1>4, <1>5, <1>6, <1>7, <1>8, <1>9 DEF f, n

LEMMA TopIs ==
  ASSUME NEW ranks \in SUBSET Nat, ranks # {}
  PROVE  Top(ranks) \in ranks /\ \A j \in ranks : Top(ranks) <= j
BY LeastNumber DEF Top

-----------------------------------------------------------------------------
(* What the results of the engines are.                                    *)

\* A result of a chunk is in the chunk's file.
Sound(r) == r \in Results /\ (r.chunk # 0 => r.file = Layout[r.chunk].file)

LEMMA ChunkResultIs ==
  ASSUME NEW c \in Chunks, NEW score \in Nat
  PROVE  /\ Sound(ChunkResult(c, score)) /\ ChunkResult(c, score).chunk = c /\ c # 0
         /\ ChunkResult(c, score).repo = 1 /\ ChunkResult(c, score).file = Layout[c].file
         /\ ChunkResult(c, score).score = score
<1>1. c \in Nat \ {0} /\ Layout[c].file \in Nat /\ Layout[c].from \in Nat /\ Layout[c].to \in Nat
  BY ChunkType
<1> QED BY <1>1 DEF ChunkResult, Sound, Results

LEMMA FileResultIs ==
  ASSUME NEW h \in Matches, NEW score \in Nat
  PROVE  /\ Sound(FileResult(h, score, name)) /\ FileResult(h, score, name).chunk = 0
         /\ FileResult(h, score, name).file = h.file
         /\ name = "full" => FileResult(h, score, name).repo = 1
BY DEF FileResult, Sound, Results, Matches

LEMMA RowResultIs ==
  ASSUME NEW v \in Rows
  PROVE  /\ Sound(RowResult(v)) /\ RowResult(v).chunk # 0 /\ RowResult(v).repo = 1
         /\ RowResult(v).chunk = Vectors[v].chunk /\ RowResult(v).score = Vectors[v].score
BY VectorType, ChunkResultIs DEF RowResult

LEMMA SemanticIs ==
  ASSUME SemanticOK, embedded \subseteq Rows
  PROVE  /\ IsList(semantic) /\ DOMAIN semantic = 1..Len(semantic) /\ Len(semantic) \in Nat
         /\ Len(semantic) <= MaxRank
         /\ \A i \in DOMAIN semantic :
              Sound(semantic[i]) /\ semantic[i].chunk # 0 /\ semantic[i].repo = 1
         /\ OneVersion =>
              \A i, j \in DOMAIN semantic : semantic[i].chunk = semantic[j].chunk => i = j
<1>1. IsList(semantic) /\ DOMAIN semantic = 1..Len(semantic) /\ Len(semantic) \in Nat
  BY DEF SemanticOK, IsList
<1>2. ASSUME NEW i \in DOMAIN semantic
      PROVE  Sound(semantic[i]) /\ semantic[i].chunk # 0 /\ semantic[i].repo = 1
  <2>1. PICK v \in embedded : semantic[i] = RowResult(v)
    BY DEF SemanticOK
  <2> QED BY <2>1, RowResultIs
<1> QED BY <1>1, <1>2 DEF SemanticOK

LEMMA TextIs ==
  ASSUME TextOK, index \in Indexes
  PROVE  /\ IsList(text) /\ DOMAIN text = 1..Len(text) /\ Len(text) \in Nat
         /\ Len(text) <= MaxRank /\ FilesDiffer(text)
         /\ \A i \in DOMAIN text :
              Sound(text[i]) /\ (text[i].chunk = 0 /\ name = "full" => text[i].repo = 1)
<1>1. IsList(text) /\ DOMAIN text = 1..Len(text) /\ Len(text) \in Nat
  BY DEF TextOK, IsList
<1>2. Len(hits) \in Nat
  <2> DEFINE V == Range(index)
  <2>1. hits \in Seq(V)
    BY DEF TextOK
  <2> QED BY <2>1
<1>3. Len(text) <= MaxRank
  BY <1>1, <1>2, RanksAre DEF TextOK
<1>4. ASSUME NEW i \in DOMAIN text
      PROVE  Sound(text[i]) /\ (text[i].chunk = 0 /\ name = "full" => text[i].repo = 1)
  <2>1. TextResult(text[i], name, Range(index))
    BY DEF TextOK
  <2>2. CASE \E c \in Chunks : text[i] = ChunkResult(c, 0)
    BY <2>2, ChunkResultIs
  <2>3. CASE text[i].score \in Nat /\ \E h \in Range(index) : text[i] = FileResult(h, text[i].score, name)
    <3>1. PICK h \in Range(index) : text[i] = FileResult(h, text[i].score, name)
      BY <2>3
    <3>2. h \in Matches
      BY IndexType DEF Range
    <3> QED BY <2>3, <3>1, <3>2, FileResultIs
  <2> QED BY <2>1, <2>2, <2>3 DEF TextResult
<1> QED BY <1>1, <1>3, <1>4 DEF TextOK

\* s shows what t does, under the same name of the repository.
Shows(s, t) == s.repo = t.repo /\ name = "full" /\ s.file = t.file /\ Overlap(s, t)

LEMMA KeptTextIs ==
  ASSUME TextOK, index \in Indexes
  PROVE  /\ IsList(KeptText) /\ DOMAIN KeptText = 1..Len(KeptText) /\ Len(KeptText) \in Nat
         /\ Len(KeptText) <= MaxRank /\ FilesDiffer(KeptText)
         /\ \A i \in DOMAIN KeptText :
              /\ Sound(KeptText[i])
              /\ KeptText[i].chunk = 0 /\ name = "full" => KeptText[i].repo = 1
              /\ KeptText[i].chunk # 0 \/ ~\E j \in DOMAIN semantic : Shows(semantic[j], KeptText[i])
<1> DEFINE positions == {n \in DOMAIN text :
                           text[n].chunk # 0 \/ ~\E j \in DOMAIN semantic : Shows(semantic[j], text[n])}
           kept == Keep(text, positions)
           V == {text[i] : i \in DOMAIN text}
<1>1. KeptText = kept
  BY DEF KeptText, Shows
<1>2. /\ IsList(text) /\ DOMAIN text = 1..Len(text) /\ Len(text) \in Nat
      /\ Len(text) <= MaxRank /\ FilesDiffer(text)
      /\ \A i \in DOMAIN text :
           Sound(text[i]) /\ (text[i].chunk = 0 /\ name = "full" => text[i].repo = 1)
  BY TextIs
<1>3. text \in Seq(V)
  BY <1>2 DEF IsList
<1>4. \A n \in positions : text[n].chunk # 0 \/ ~\E j \in DOMAIN semantic : Shows(semantic[j], text[n])
  OBVIOUS
<1> HIDE DEF positions, V
<1>5. kept \in Seq(V) /\ \E at : Picks(kept, text, positions, at, Len(text))
  BY <1>3, KeepPicks
<1>6. PICK at : Picks(kept, text, positions, at, Len(text))
  BY <1>5
<1>7. Len(kept) <= Len(text)
  BY <1>3, KeepLength
<1> HIDE DEF kept
<1>8. IsList(kept) /\ Len(kept) \in Nat /\ DOMAIN kept = 1..Len(kept)
  BY <1>5, ListOf
<1>9. \A k \in DOMAIN kept : at[k] \in positions /\ at[k] \in DOMAIN text /\ kept[k] = text[at[k]]
  BY <1>2, <1>6, <1>8 DEF Picks
<1>10. ASSUME NEW i \in DOMAIN kept, NEW j \in DOMAIN kept, kept[i].file = kept[j].file
       PROVE  i = j
  <2>1. at[i] = at[j] /\ at[i] \in Nat
    BY <1>2, <1>9, <1>10 DEF FilesDiffer
  <2>2. ~(i < j) /\ ~(j < i)
    <3>1. \A k, m \in 1..Len(kept) : k < m => at[k] < at[m]
      BY <1>6 DEF Picks
    <3> QED BY <1>8, <2>1, <3>1
  <2> QED BY <1>8, <2>2
<1>11. Len(kept) <= MaxRank
  BY <1>2, <1>7, <1>8, RanksAre
<1>12. \A i \in DOMAIN kept :
         /\ Sound(kept[i]) /\ (kept[i].chunk = 0 /\ name = "full" => kept[i].repo = 1)
         /\ kept[i].chunk # 0 \/ ~\E j \in DOMAIN semantic : Shows(semantic[j], kept[i])
  BY <1>2, <1>4, <1>9
<1> QED BY <1>1, <1>8, <1>10, <1>11, <1>12 DEF FilesDiffer

-----------------------------------------------------------------------------
(* No answer shows anything twice.                                         *)

LEMMA KeyIs ==
  ASSUME NEW r \in Results, NEW s \in Results, Key(r) = Key(s)
  PROVE  \/ r.chunk # 0 /\ s.chunk = r.chunk
         \/ r.chunk = 0 /\ s.chunk = 0 /\ s.file = r.file
<1>1. /\ <<"chunk", r.chunk>> # <<"file", s.file>> /\ <<"file", r.file>> # <<"chunk", s.chunk>>
      /\ <<"chunk", r.chunk>> = <<"chunk", s.chunk>> => r.chunk = s.chunk
      /\ <<"file", r.file>> = <<"file", s.file>> => r.file = s.file
  OBVIOUS
<1> QED BY <1>1 DEF Key

\* What sorting leaves of a clean list is clean.
LEMMA SortedClean ==
  ASSUME NEW list, IsList(list), Clean(list), NEW by, NEW answer \in SortedResults(list, by)
  PROVE  Clean(answer)
<1> DEFINE n == Len(list)
<1>1. PICK p \in [1..n -> 1..n] : IsInjective(p) /\ answer = [i \in 1..n |-> list[p[i]]]
  BY DEF SortedResults
<1>2. DOMAIN list = 1..n
  BY DEF IsList
<1> HIDE DEF n
<1>3. DOMAIN answer = 1..n /\ \A i \in 1..n : answer[i] = list[p[i]] /\ p[i] \in DOMAIN list
  BY <1>1, <1>2
<1>4. \A i, j \in 1..n : i # j => p[i] # p[j]
  BY <1>1 DEF IsInjective
<1> QED BY <1>3, <1>4 DEF Clean

LEMMA SemanticClean ==
  ASSUME SemanticOK, embedded \subseteq Rows, OneVersion
  PROVE  Clean(semantic)
<1> SUFFICES ASSUME NEW i \in DOMAIN semantic, NEW j \in DOMAIN semantic, i # j
             PROVE  Apart(semantic[i], semantic[j])
  BY DEF Clean
<1>1. /\ Sound(semantic[i]) /\ Sound(semantic[j]) /\ semantic[i].chunk # 0
      /\ semantic[i].chunk # semantic[j].chunk
  BY SemanticIs
<1>2. Key(semantic[i]) # Key(semantic[j])
  BY <1>1, KeyIs DEF Sound
<1> QED BY <1>1, <1>2 DEF Apart

LEMMA FilesClean ==
  ASSUME NEW list, FilesDiffer(list), \A i \in DOMAIN list : Sound(list[i])
  PROVE  Clean(list)
<1> SUFFICES ASSUME NEW i \in DOMAIN list, NEW j \in DOMAIN list, i # j
             PROVE  Apart(list[i], list[j])
  BY DEF Clean
<1>1. list[i].file # list[j].file
  BY DEF FilesDiffer
<1>2. Sound(list[i]) /\ Sound(list[j])
  OBVIOUS
<1>3. Key(list[i]) # Key(list[j])
  <2> SUFFICES ASSUME Key(list[i]) = Key(list[j])
               PROVE  FALSE
    OBVIOUS
  <2>1. \/ list[i].chunk # 0 /\ list[j].chunk = list[i].chunk
        \/ list[j].file = list[i].file
    BY <1>2, KeyIs DEF Sound
  <2> QED BY <1>1, <1>2, <2>1 DEF Sound
<1> QED BY <1>1, <1>3 DEF Apart

\* The keys of two lists, and what one rank adds to a score.
AllKeys(results, matches) ==
  {Key(results[i]) : i \in DOMAIN results} \cup {Key(matches[i]) : i \in DOMAIN matches}
Share(ranks) == IF ranks = {} THEN 0 ELSE RRFScore(Top(ranks))

LEMMA ShareIs ==
  ASSUME NEW list, DOMAIN list = 1..Len(list), Len(list) \in Nat, Len(list) <= MaxRank, NEW key
  PROVE  /\ Share(Ranks(list, key)) \in Nat
         /\ Ranks(list, key) # {} =>
              /\ Top(Ranks(list, key)) \in 1..MaxRank
              /\ Top(Ranks(list, key)) \in DOMAIN list
              /\ Key(list[Top(Ranks(list, key))]) = key
<1>1. Ranks(list, key) \in SUBSET Nat /\ Ranks(list, key) \subseteq 1..MaxRank
  BY RanksAre DEF Ranks
<1>2. CASE Ranks(list, key) # {}
  <2>1. Top(Ranks(list, key)) \in Ranks(list, key)
    BY <1>1, <1>2, TopIs
  <2>2. RRFScore(Top(Ranks(list, key))) \in Nat
    BY <1>1, <2>1, RRFScores
  <2>3. Top(Ranks(list, key)) \in DOMAIN list /\ Key(list[Top(Ranks(list, key))]) = key
    BY <2>1 DEF Ranks
  <2> QED BY <1>1, <1>2, <2>1, <2>2, <2>3 DEF Share
<1>3. CASE Ranks(list, key) = {}
  BY <1>3 DEF Share
<1> QED BY <1>2, <1>3

\* The result of a key is a result that has it, with another score.
LEMMA FusedIs ==
  ASSUME SearchInv, NEW key \in AllKeys(semantic, KeptText)
  PROVE  LET f == Fused(semantic, KeptText, key)
         IN /\ Sound(f) /\ Key(f) = key
            /\ f.score = Share(Ranks(semantic, key)) + Share(Ranks(KeptText, key))
            /\ \E r : /\ \/ \E i \in DOMAIN semantic : r = semantic[i]
                         \/ \E i \in DOMAIN KeptText : r = KeptText[i]
                      /\ f.chunk = r.chunk /\ f.repo = r.repo /\ f.file = r.file
                      /\ f.from = r.from /\ f.to = r.to
<1> DEFINE K == KeptText
           s == Ranks(semantic, key)
           t == Ranks(K, key)
           r == IF s # {} THEN semantic[Top(s)] ELSE K[Top(t)]
           x == Share(s) + Share(t)
           f == Fused(semantic, K, key)
<1>1. SemanticOK /\ TextOK /\ index \in Indexes /\ embedded \subseteq Rows
  BY DEF SearchInv
<1>2. /\ DOMAIN semantic = 1..Len(semantic) /\ Len(semantic) \in Nat /\ Len(semantic) <= MaxRank
      /\ \A i \in DOMAIN semantic : Sound(semantic[i])
  BY <1>1, SemanticIs
<1>3. /\ DOMAIN K = 1..Len(K) /\ Len(K) \in Nat /\ Len(K) <= MaxRank
      /\ \A i \in DOMAIN K : Sound(K[i])
  BY <1>1, KeptTextIs
<1>4. f = [r EXCEPT !.score = x]
  BY DEF Fused, Share
<1>5. s # {} \/ t # {}
  BY DEF AllKeys, Ranks
<1> HIDE DEF K, f
<1>6. x \in Nat
  BY <1>2, <1>3, ShareIs
<1>7. s # {} => Top(s) \in DOMAIN semantic /\ Key(semantic[Top(s)]) = key
  BY <1>2, ShareIs
<1>8. t # {} => Top(t) \in DOMAIN K /\ Key(K[Top(t)]) = key
  BY <1>3, ShareIs
<1>9. /\ \/ \E i \in DOMAIN semantic : r = semantic[i]
         \/ \E i \in DOMAIN K : r = K[i]
      /\ Sound(r) /\ Key(r) = key
  BY <1>2, <1>3, <1>5, <1>7, <1>8
<1> HIDE DEF r, x, s, t
<1>10. /\ f.chunk = r.chunk /\ f.repo = r.repo /\ f.file = r.file
       /\ f.from = r.from /\ f.to = r.to /\ f.score = x /\ f \in Results
  BY <1>4, <1>6, <1>9 DEF Sound, Results
<1>11. Sound(f) /\ Key(f) = key
  BY <1>9, <1>10 DEF Sound, Key
<1>12. f.score = Share(Ranks(semantic, key)) + Share(Ranks(K, key))
  BY <1>10 DEF x, s, t
<1> QED BY <1>9, <1>10, <1>11, <1>12 DEF f, K

LEMMA FiniteKeys ==
  ASSUME SearchInv
  PROVE  IsFiniteSet({Fused(semantic, KeptText, k) : k \in AllKeys(semantic, KeptText)})
<1> DEFINE K == KeptText
           Keys == AllKeys(semantic, K)
           S == {Fused(semantic, K, k) : k \in Keys}
           A == {Key(semantic[i]) : i \in DOMAIN semantic}
           B == {Key(K[i]) : i \in DOMAIN K}
           a == [i \in DOMAIN semantic |-> Key(semantic[i])]
           b == [i \in DOMAIN K |-> Key(K[i])]
           f == [k \in Keys |-> Fused(semantic, K, k)]
<1>1. SemanticOK /\ TextOK /\ index \in Indexes /\ embedded \subseteq Rows
  BY DEF SearchInv
<1>2. IsFiniteSet(DOMAIN semantic)
  <2>1. DOMAIN semantic = 1..Len(semantic) /\ Len(semantic) \in Int /\ 1 \in Int
    BY <1>1, SemanticIs
  <2> QED BY <2>1, FS_Interval
<1>3. IsFiniteSet(DOMAIN K)
  <2>1. DOMAIN K = 1..Len(K) /\ Len(K) \in Int /\ 1 \in Int
    BY <1>1, KeptTextIs
  <2> HIDE DEF K
  <2> QED BY <2>1, FS_Interval
<1>4. a \in Surjection(DOMAIN semantic, A)
  BY DEF Surjection
<1>5. b \in Surjection(DOMAIN K, B)
  BY DEF Surjection
<1>6. f \in Surjection(Keys, S)
  <2> HIDE DEF Keys, K
  <2> QED BY DEF Surjection
<1>7. Keys = A \cup B
  BY DEF AllKeys
<1> HIDE DEF a, b, f, A, B, Keys, S, K
<1>8. IsFiniteSet(A) /\ IsFiniteSet(B)
  BY <1>2, <1>3, <1>4, <1>5, FS_Surjection
<1>9. IsFiniteSet(Keys)
  BY <1>7, <1>8, FS_Union
<1>10. IsFiniteSet(S)
  BY <1>6, <1>9, FS_Surjection
<1> QED BY <1>10 DEF S, Keys, K

\* The fused list: results of different keys, from the highest score down.
LEMMA RankIs ==
  ASSUME SearchInv
  PROVE  LET fused == Rank(semantic, KeptText)
         IN /\ IsList(fused) /\ DOMAIN fused = 1..Len(fused) /\ Len(fused) \in Nat
            /\ \A i \in DOMAIN fused :
                 /\ Key(fused[i]) \in AllKeys(semantic, KeptText)
                 /\ fused[i] = Fused(semantic, KeptText, Key(fused[i]))
            /\ \A i, j \in DOMAIN fused : i # j => Key(fused[i]) # Key(fused[j])
            /\ \A i, j \in DOMAIN fused : i < j => fused[j].score <= fused[i].score
<1> DEFINE K == KeptText
           Keys == AllKeys(semantic, K)
           S == {Fused(semantic, K, k) : k \in Keys}
           fused == Rank(semantic, K)
<1>1. \A k \in Keys : Sound(Fused(semantic, K, k)) /\ Key(Fused(semantic, K, k)) = k
  BY FusedIs
<1>2. IsFiniteSet(S)
  BY FiniteKeys
<1>3. fused = Ranked(S)
  BY DEF Rank, AllKeys
<1> HIDE DEF K, Keys, fused
<1>4. S \in SUBSET Results
  BY <1>1 DEF Sound
<1>5. \A r \in S : Key(r) \in Keys /\ r = Fused(semantic, K, Key(r))
  BY <1>1
<1> HIDE DEF S
<1>6. /\ IsList(fused)
      /\ \A i \in DOMAIN fused : fused[i] \in S
      /\ \A i, j \in DOMAIN fused : i # j => fused[i] # fused[j]
      /\ \A i, j \in DOMAIN fused : i < j => fused[j].score <= fused[i].score
  BY <1>2, <1>3, <1>4, RankedIs
<1>7. DOMAIN fused = 1..Len(fused) /\ Len(fused) \in Nat
  BY <1>6 DEF IsList
<1>8. \A i, j \in DOMAIN fused : i # j => Key(fused[i]) # Key(fused[j])
  BY <1>5, <1>6
<1> QED BY <1>5, <1>6, <1>7, <1>8 DEF K, Keys, fused

LEMMA RankClean ==
  ASSUME SearchInv
  PROVE  Clean(Rank(semantic, KeptText))
<1> DEFINE K == KeptText
           fused == Rank(semantic, K)
<1>1. SemanticOK /\ TextOK /\ index \in Indexes /\ embedded \subseteq Rows
  BY DEF SearchInv
<1>2. \A i \in DOMAIN semantic :
        Sound(semantic[i]) /\ semantic[i].chunk # 0 /\ semantic[i].repo = 1
  BY <1>1, SemanticIs
<1>3. /\ FilesDiffer(K)
      /\ \A i \in DOMAIN K :
           /\ Sound(K[i]) /\ (K[i].chunk = 0 /\ name = "full" => K[i].repo = 1)
           /\ K[i].chunk # 0 \/ ~\E j \in DOMAIN semantic : Shows(semantic[j], K[i])
  BY <1>1, KeptTextIs
<1>4. ASSUME NEW i \in DOMAIN fused
      PROVE  \E r : /\ \/ \E m \in DOMAIN semantic : r = semantic[m]
                       \/ \E m \in DOMAIN K : r = K[m]
                    /\ fused[i].chunk = r.chunk /\ fused[i].repo = r.repo
                    /\ fused[i].file = r.file /\ fused[i].from = r.from /\ fused[i].to = r.to
  <2>1. Key(fused[i]) \in AllKeys(semantic, K) /\ fused[i] = Fused(semantic, K, Key(fused[i]))
    BY RankIs
  <2> QED BY <2>1, FusedIs
<1>5. \A i, j \in DOMAIN fused : i # j => Key(fused[i]) # Key(fused[j])
  BY RankIs
<1> HIDE DEF K, fused
<1>6. ASSUME NEW i \in DOMAIN fused, NEW j \in DOMAIN fused,
             fused[i].chunk = 0, fused[j].chunk # 0, name = "full",
             fused[i].file = fused[j].file, Overlap(fused[i], fused[j])
      PROVE  FALSE
  <2>1. PICK r : /\ \/ \E m \in DOMAIN semantic : r = semantic[m]
                    \/ \E m \in DOMAIN K : r = K[m]
                 /\ fused[i].chunk = r.chunk /\ fused[i].repo = r.repo
                 /\ fused[i].file = r.file /\ fused[i].from = r.from /\ fused[i].to = r.to
    BY <1>4
  <2>2. PICK t : /\ \/ \E m \in DOMAIN semantic : t = semantic[m]
                    \/ \E m \in DOMAIN K : t = K[m]
                 /\ fused[j].chunk = t.chunk /\ fused[j].repo = t.repo
                 /\ fused[j].file = t.file /\ fused[j].from = t.from /\ fused[j].to = t.to
    BY <1>4
  <2>3. PICK m \in DOMAIN K : r = K[m]
    BY <1>2, <1>6, <2>1
  <2>4. r.repo = 1 /\ ~\E n \in DOMAIN semantic : Shows(semantic[n], r)
    BY <1>3, <1>6, <2>1, <2>3
  <2>5. r.file = t.file /\ Overlap(t, r)
    BY <1>6, <2>1, <2>2 DEF Overlap
  <2>6. CASE \E n \in DOMAIN semantic : t = semantic[n]
    <3>1. PICK n \in DOMAIN semantic : t = semantic[n]
      BY <2>6
    <3>2. t.repo = 1
      BY <1>2, <3>1
    <3>3. Shows(semantic[n], r)
      BY <1>6, <2>4, <2>5, <3>1, <3>2 DEF Shows
    <3> QED BY <2>4, <3>3
  <2>7. CASE \E n \in DOMAIN K : t = K[n]
    <3>1. PICK n \in DOMAIN K : t = K[n]
      BY <2>7
    <3>2. n = m
      BY <1>3, <2>3, <2>5, <3>1 DEF FilesDiffer
    <3> QED BY <1>6, <2>1, <2>2, <2>3, <3>1, <3>2
  <2> QED BY <2>2, <2>6, <2>7
<1>7. Clean(fused)
  BY <1>5, <1>6 DEF Clean, Apart
<1> QED BY <1>7 DEF fused, K

LEMMA AnswersClean == SearchInv => NothingTwice
<1> SUFFICES ASSUME SearchInv, mode = "semantic" => OneVersion, NEW answer \in Answers
             PROVE  Clean(answer)
  BY DEF NothingTwice
<1>1. /\ SemanticOK /\ TextOK /\ index \in Indexes /\ embedded \subseteq Rows
      /\ mode \in Modes
  BY DEF SearchInv
<1>2. IsList(semantic) /\ (mode = "semantic" => Clean(semantic))
  BY <1>1, SemanticIs, SemanticClean
<1>3. IsList(text) /\ Clean(text)
  BY <1>1, TextIs, FilesClean
<1>4. IsList(Rank(semantic, KeptText)) /\ Clean(Rank(semantic, KeptText))
  BY RankIs, RankClean
<1>5. \/ mode = "semantic" /\ answer \in SortedResults(semantic, sort)
      \/ answer \in SortedResults(text, sort)
      \/ answer = Rank(semantic, KeptText)
      \/ answer \in SortedResults(Rank(semantic, KeptText), sort)
  BY <1>1 DEF Answers, Modes
<1> QED BY <1>2, <1>3, <1>4, <1>5, SortedClean

\* No answer shows anything twice, whichever engines found it, in whatever order it is
\* sorted, and whatever the cache had; for semantic mode, as long as no chunk has embeddings
\* of two model versions.
THEOREM ShownOnce == Spec => []NothingTwice
BY SearchIsSound, AnswersClean, PTL

-----------------------------------------------------------------------------
(* Fusion respects agreement.                                              *)

LEMMA LeadsMore ==
  ASSUME NEW list, DOMAIN list = 1..Len(list), Len(list) \in Nat, Len(list) <= MaxRank,
         NEW k, NEW l, Leads(list, k, l)
  PROVE  /\ Share(Ranks(list, l)) <= Share(Ranks(list, k))
         /\ Ranks(list, l) # {} => Share(Ranks(list, l)) < Share(Ranks(list, k))
<1> DEFINE s == Ranks(list, l)
           t == Ranks(list, k)
<1>1. /\ Share(s) \in Nat /\ Share(t) \in Nat
      /\ s # {} => Top(s) \in 1..MaxRank
      /\ t # {} => Top(t) \in 1..MaxRank
  BY ShareIs
<1>2. s = {} \/ (t # {} /\ Top(t) < Top(s))
  BY DEF Leads
<1> HIDE DEF s, t
<1>3. CASE s = {}
  <2>1. Share(s) = 0
    BY <1>3 DEF Share
  <2> QED BY <1>1, <1>3, <2>1 DEF s, t
<1>4. CASE s # {}
  <2>1. RRFScore(Top(t)) > RRFScore(Top(s))
    BY <1>1, <1>2, <1>4, RRFScores
  <2>2. Share(s) = RRFScore(Top(s)) /\ Share(t) = RRFScore(Top(t))
    BY <1>2, <1>4 DEF Share
  <2>3. Share(s) < Share(t)
    BY <1>1, <2>1, <2>2
  <2> QED BY <1>1, <2>3 DEF s, t
<1> QED BY <1>3, <1>4

LEMMA FusionAgrees == SearchInv => AgreedOrder
<1> DEFINE K == KeptText
           fused == Rank(semantic, K)
<1> SUFFICES ASSUME SearchInv, NEW i \in DOMAIN fused, NEW j \in DOMAIN fused, i < j,
                    Leads(semantic, Key(fused[j]), Key(fused[i])),
                    Leads(K, Key(fused[j]), Key(fused[i]))
             PROVE  FALSE
  BY DEF AgreedOrder
<1> DEFINE k == Key(fused[j])
           l == Key(fused[i])
<1>1. SemanticOK /\ TextOK /\ index \in Indexes /\ embedded \subseteq Rows
  BY DEF SearchInv
<1>2. DOMAIN semantic = 1..Len(semantic) /\ Len(semantic) \in Nat /\ Len(semantic) <= MaxRank
  BY <1>1, SemanticIs
<1>3. DOMAIN K = 1..Len(K) /\ Len(K) \in Nat /\ Len(K) <= MaxRank
  BY <1>1, KeptTextIs
<1>4. /\ k \in AllKeys(semantic, K) /\ fused[j] = Fused(semantic, K, k)
      /\ l \in AllKeys(semantic, K) /\ fused[i] = Fused(semantic, K, l)
      /\ fused[j].score <= fused[i].score
  BY RankIs
<1>5. Leads(semantic, k, l) /\ Leads(K, k, l)
  OBVIOUS
<1> HIDE DEF k, l, fused
<1>6. /\ fused[j].score = Share(Ranks(semantic, k)) + Share(Ranks(K, k))
      /\ fused[i].score = Share(Ranks(semantic, l)) + Share(Ranks(K, l))
  BY <1>4, FusedIs
<1> HIDE DEF K
<1>7. /\ Share(Ranks(semantic, l)) <= Share(Ranks(semantic, k))
      /\ Ranks(semantic, l) # {} => Share(Ranks(semantic, l)) < Share(Ranks(semantic, k))
      /\ Share(Ranks(semantic, k)) \in Nat /\ Share(Ranks(semantic, l)) \in Nat
  BY <1>2, <1>5, LeadsMore, ShareIs
<1>8. /\ Share(Ranks(K, l)) <= Share(Ranks(K, k))
      /\ Ranks(K, l) # {} => Share(Ranks(K, l)) < Share(Ranks(K, k))
      /\ Share(Ranks(K, k)) \in Nat /\ Share(Ranks(K, l)) \in Nat
  BY <1>3, <1>5, LeadsMore, ShareIs
<1>9. Ranks(semantic, l) # {} \/ Ranks(K, l) # {}
  BY <1>4 DEF AllKeys, Ranks
<1> QED BY <1>4, <1>6, <1>7, <1>8, <1>9

\* What both engines' lists have before something else comes before it in every fused list.
THEOREM AgreementIsKept == Spec => []AgreedOrder
BY SearchIsSound, FusionAgrees, PTL

-----------------------------------------------------------------------------
(* The pages.                                                              *)

\* A list that falls in score is sorted in one way only.
LEMMA SortedAlready ==
  ASSUME NEW list, IsList(list), \A i \in DOMAIN list : list[i].score \in Nat,
         \A i, j \in DOMAIN list : i < j => list[i].score > list[j].score,
         NEW answer \in SortedResults(list, DefaultSort)
  PROVE  answer = list
<1> DEFINE n == Len(list)
<1>1. PICK p \in [1..n -> 1..n] :
        /\ IsInjective(p) /\ answer = [i \in 1..n |-> list[p[i]]]
        /\ \A i, j \in 1..n : i < j => ~(list[p[j]].score > list[p[i]].score)
  BY DEF SortedResults, DefaultSort
<1>2. n \in Nat /\ DOMAIN list = 1..n /\ list = [i \in 1..n |-> list[i]]
  BY DEF IsList
<1> HIDE DEF n
<1>3. ASSUME NEW i \in 1..n, NEW j \in 1..n, i < j
      PROVE  p[i] < p[j]
  <2>1. p[i] \in 1..n /\ p[j] \in 1..n /\ p[i] # p[j]
    BY <1>1, <1>3 DEF IsInjective
  <2>2. ~(p[j] < p[i])
    BY <1>1, <1>2, <1>3, <2>1
  <2> QED BY <2>1, <2>2
<1>4. \A i \in 1..n : p[i] = i
  BY <1>2, <1>3, IncreasingIsIdentity
<1> QED BY <1>1, <1>2, <1>4

\* The first n of a list, of whatever it holds.
LEMMA FirstOf ==
  ASSUME NEW list, IsList(list), NEW n \in Nat
  PROVE  /\ IsList(First(n, list)) /\ Len(list) \in Nat /\ DOMAIN list = 1..Len(list)
         /\ DOMAIN First(n, list) = 1..Len(First(n, list))
         /\ Len(First(n, list)) = Least(n, Len(list))
         /\ \A k \in 1..Len(First(n, list)) : First(n, list)[k] = list[k]
         /\ Len(list) <= n => First(n, list) = list
         /\ IsPrefix(First(n, list), list)
<1> DEFINE V == {list[i] : i \in DOMAIN list}
           f == First(n, list)
<1>1. list \in Seq(V)
  BY DEF IsList
<1> HIDE DEF V
<1>2. /\ f \in Seq(V) /\ Len(f) = Least(n, Len(list)) /\ Starts(f, list)
      /\ \A k \in 1..Len(f) : f[k] = list[k]
  BY <1>1, FirstIs
<1>3. Len(list) \in Nat /\ DOMAIN list = 1..Len(list)
  BY <1>1
<1>4. Len(list) <= n => First(n, list) = list
  <2>1. SubSeq(list, 1, Len(list)) = list
    BY <1>1, SubSeqFull
  <2>2. Len(list) <= n => Least(n, Len(list)) = Len(list)
    BY <1>3, LeastIs
  <2> QED BY <2>1, <2>2 DEF First
<1>5. IsPrefix(f, list)
  <2>1. f = SubSeq(list, 1, Least(n, Len(list)))
    BY DEF First
  <2>2. SubSeq(f, 1, Len(f)) = f
    BY <1>2, SubSeqFull
  <2> QED BY <1>2, <2>1, <2>2 DEF IsPrefix, Starts
<1>6. IsList(f) /\ DOMAIN f = 1..Len(f)
  BY <1>2, ListOf
<1> QED BY <1>2, <1>3, <1>4, <1>5, <1>6

-----------------------------------------------------------------------------
(* What there is to see.                                                   *)

LEMMA FoundIs ==
  ASSUME SearchInv
  PROVE  /\ IsList(Found) /\ Len(Found) = Len(index) /\ Len(Found) \in Nat
         /\ DOMAIN Found = 1..Len(Found)
<1>1. index \in Seq(Matches)
  BY IndexType DEF SearchInv
<1>2. Len(index) \in Nat /\ DOMAIN index = 1..Len(index)
  BY <1>1
<1>3. DOMAIN Found = 1..Len(index) /\ Found = [k \in 1..Len(index) |-> Found[k]]
  BY <1>2 DEF Found
<1> HIDE DEF Found
<1> QED BY <1>2, <1>3, ListIs

LEMMA AllShown ==
  ASSUME wanted = Chunks, ~archived, stored \subseteq Chunks,
         embedded \subseteq {v \in Rows : Vectors[v].chunk \in stored}
  PROVE  Shown = embedded
BY DEF Shown, Visible

LEMMA ShownIs ==
  ASSUME embedded \subseteq Rows
  PROVE  /\ Shown \in SUBSET Rows
         /\ \A v \in Shown : v \in Rows /\ Vectors[v].score \in Nat
BY VectorType DEF Shown

LEMMA PositionType ==
  ASSUME embedded \subseteq Rows, NEW v \in Shown
  PROVE  Position(v) \in Nat \ {0} /\ Position(v) <= Cardinality(Shown)
<1>1. Better(v) \in SUBSET Rows /\ Better(v) \cup {v} \in SUBSET Shown /\ v \notin Better(v)
  BY ShownIs DEF Better
<1>2. IsFiniteSet(Better(v)) /\ Cardinality(Better(v)) \in Nat
  BY <1>1, FiniteRows
<1>3. Cardinality(Better(v) \cup {v}) = Cardinality(Better(v)) + 1
  BY <1>1, <1>2, FS_AddElement
<1>4. IsFiniteSet(Shown)
  BY ShownIs, FiniteRows
<1>5. Cardinality(Better(v) \cup {v}) <= Cardinality(Shown)
  BY <1>1, <1>4, FS_Subset
<1> QED BY <1>2, <1>3, <1>5 DEF Position

\* The first n of the embeddings shown, in some order that their similarities allow.
BestRows(rows, n) ==
  /\ rows \in [1..n -> Shown] /\ IsInjective(rows) /\ Falls(rows)
  /\ \A v \in Shown : (\A i \in 1..n : rows[i] # v) =>
       \A i \in 1..n : Vectors[rows[i]].score >= Vectors[v].score

\* Whatever the order, an embedding that ties with no other is in its place.
LEMMA PositionIs ==
  ASSUME embedded \subseteq Rows, NEW n \in Nat, NEW rows, BestRows(rows, n),
         NEW i \in 1..n, Alone(rows[i])
  PROVE  Position(rows[i]) = i
<1> DEFINE v == rows[i]
           before == [j \in 1..(i - 1) |-> rows[j]]
<1>1. /\ i \in Nat /\ i - 1 \in Nat /\ \A j \in 1..(i - 1) : j \in 1..n /\ j < i
      /\ \A j \in 1..n : j # i /\ ~(i < j) => j \in 1..(i - 1)
  OBVIOUS
<1>2. /\ \A j \in 1..n : rows[j] \in Shown /\ Vectors[rows[j]].score \in Nat
      /\ \A j, k \in 1..n : rows[j] = rows[k] => j = k
      /\ \A j, k \in 1..n : j < k => Vectors[rows[j]].score >= Vectors[rows[k]].score
      /\ v \in Shown
  BY ShownIs DEF BestRows, IsInjective, Falls
<1>3. \A j \in 1..(i - 1) : before[j] = rows[j]
  OBVIOUS
<1>4. ASSUME NEW j \in 1..(i - 1)
      PROVE  rows[j] \in Better(v)
  <2>1. rows[j] # v /\ Vectors[rows[j]].score >= Vectors[v].score
    BY <1>1, <1>2
  <2>2. Vectors[rows[j]].score # Vectors[v].score
    BY <1>1, <1>2, <2>1 DEF Alone
  <2> QED BY <1>1, <1>2, <2>1, <2>2 DEF Better
<1>5. ASSUME NEW w \in Better(v)
      PROVE  \E j \in 1..(i - 1) : rows[j] = w
  <2>1. w \in Shown /\ Vectors[w].score > Vectors[v].score /\ Vectors[w].score \in Nat
    BY ShownIs DEF Better
  <2>2. ~(Vectors[v].score >= Vectors[w].score)
    BY <1>2, <2>1
  <2>3. PICK j \in 1..n : rows[j] = w
    BY <2>1, <2>2 DEF BestRows
  <2>4. j # i /\ ~(i < j)
    BY <1>2, <2>1, <2>2, <2>3
  <2> QED BY <1>1, <2>3, <2>4
<1>6. before \in Bijection(1..(i - 1), Better(v))
  <2>1. before \in [1..(i - 1) -> Better(v)]
    BY <1>4
  <2>2. \A j, k \in 1..(i - 1) : before[j] = before[k] => j = k
    BY <1>1, <1>2, <1>3
  <2>3. \A w \in Better(v) : \E j \in 1..(i - 1) : before[j] = w
    BY <1>3, <1>5
  <2> HIDE DEF before, v
  <2> QED BY <2>1, <2>2, <2>3 DEF Bijection, Injection, Surjection, IsInjective
<1>7. ExistsBijection(1..(i - 1), Better(v))
  BY <1>6 DEF ExistsBijection
<1> HIDE DEF before, v
<1>8. Cardinality(Better(v)) = i - 1
  BY <1>1, <1>7, FS_CountingElements
<1> QED BY <1>1, <1>8 DEF Position, v

LEMMA PositionHas ==
  ASSUME embedded \subseteq Rows, NEW n \in Nat, NEW rows, BestRows(rows, n),
         NEW v \in Shown, Alone(v), Position(v) <= n
  PROVE  Position(v) \in 1..n /\ rows[Position(v)] = v
<1>1. \E i \in 1..n : rows[i] = v
  <2> SUFFICES ASSUME \A i \in 1..n : rows[i] # v
               PROVE  FALSE
    OBVIOUS
  <2>1. \A i \in 1..n : rows[i] \in Shown /\ Vectors[rows[i]].score >= Vectors[v].score
    BY DEF BestRows
  <2>2. \A i \in 1..n : rows[i] \in Better(v)
    BY <2>1, ShownIs DEF Alone, Better
  <2>3. rows \in Injection(1..n, Better(v))
    BY <2>2 DEF BestRows, Injection, IsInjective
  <2>4. Better(v) \in SUBSET Rows
    BY ShownIs DEF Better
  <2>5. IsFiniteSet(Better(v)) /\ Cardinality(Better(v)) \in Nat
    BY <2>4, FiniteRows
  <2>6. Cardinality(1..n) <= Cardinality(Better(v))
    BY <2>3, <2>5, FS_Injection
  <2>7. Cardinality(1..n) = n
    BY Upto
  <2> QED BY <2>5, <2>6, <2>7 DEF Position
<1>2. PICK i \in 1..n : rows[i] = v
  BY <1>1
<1> QED BY <1>2, PositionIs

-----------------------------------------------------------------------------
(* What a page is cut from.                                                *)

LEMMA TextAnswer ==
  ASSUME SearchInv, Undisturbed, Watched, pc = "respond", mode = "text", NEW answer \in Answers
  PROVE  /\ IsList(answer) /\ Len(answer) \in Nat /\ DOMAIN answer = 1..Len(answer)
         /\ Len(answer) = Least(Depth, Len(Found)) /\ Depth \in Nat
         /\ \A i \in 1..Len(answer) : Entry(answer[i]) = Found[i]
<1>1. TextOK /\ index \in Indexes /\ offset \in Nat
  BY DEF SearchInv
<1>2. sort = DefaultSort /\ Depth \in Nat
  BY <1>1, LimitIs DEF Watched, Depth
<1> DEFINE f == First(Depth, index)
<1>3. text = [i \in DOMAIN f |-> FileResult(f[i], RRFScore(i), name)]
  BY DEF Undisturbed
<1>4. /\ f \in Seq(Range(index)) /\ Len(f) \in Nat /\ DOMAIN f = 1..Len(f) /\ Len(f) <= MaxRank
      /\ \A k \in 1..Len(f) : f[k] = index[k] /\ k \in DOMAIN index
  BY <1>1, <1>2, FilesOfIndex
<1>5. Len(f) = Least(Depth, Len(Found))
  <2>1. index \in Seq(Matches)
    BY <1>1, IndexType
  <2> QED BY <1>2, <2>1, FirstIs, FoundIs
<1> HIDE DEF f
<1>6. IsList(text) /\ Len(text) = Len(f) /\ DOMAIN text = 1..Len(f)
  <2>1. DOMAIN text = 1..Len(f)
    BY <1>3, <1>4
  <2>2. IsList(text) /\ DOMAIN text = 1..Len(text) /\ Len(text) \in Nat
    BY <1>1, TextIs
  <2> QED BY <1>4, <2>1, <2>2
<1>7. ASSUME NEW i \in 1..Len(f)
      PROVE  text[i].score = RRFScore(i) /\ i \in 1..MaxRank /\ Entry(text[i]) = Found[i]
  <2>1. text[i] = FileResult(f[i], RRFScore(i), name) /\ f[i] = index[i] /\ i \in DOMAIN index
    BY <1>3, <1>4
  <2>2. i \in 1..MaxRank
    BY <1>4, RanksAre
  <2>3. text[i].score = RRFScore(i) /\ Key(text[i]) = <<"file", index[i].file>>
    BY <2>1 DEF FileResult, Key
  <2> QED BY <2>1, <2>2, <2>3 DEF Entry, Found
<1>8. answer = text
  <2>1. answer \in SortedResults(text, DefaultSort)
    BY <1>2 DEF Answers
  <2>2. \A i \in DOMAIN text : text[i].score \in Nat
    BY <1>6, <1>7, RRFScores
  <2>3. \A i, j \in DOMAIN text : i < j => text[i].score > text[j].score
    BY <1>6, <1>7, RRFScores
  <2> QED BY <1>6, <2>1, <2>2, <2>3, SortedAlready
<1> QED BY <1>2, <1>4, <1>5, <1>6, <1>7, <1>8

LEMMA SemanticAnswer ==
  ASSUME SearchInv, Undisturbed, Watched, pc = "respond", mode = "semantic", NEW answer \in Answers
  PROVE  /\ IsList(answer) /\ Len(answer) \in Nat /\ DOMAIN answer = 1..Len(answer)
         /\ Len(answer) <= Depth /\ Depth \in Nat
         /\ \E rows : /\ BestRows(rows, Len(answer))
                      /\ \A i \in 1..Len(answer) : answer[i] = RowResult(rows[i])
         /\ wanted = Chunks /\ ~archived => Len(answer) = Least(Depth, Cardinality(embedded))
<1>1. /\ embedded \subseteq Rows /\ stored \subseteq Chunks /\ offset \in Nat
      /\ embedded \subseteq {v \in Rows : Vectors[v].chunk \in stored}
  BY DEF SearchInv
<1>2. sort = DefaultSort /\ Depth \in Nat /\ Cardinality(embedded) \in Nat
  BY <1>1, LimitIs, FiniteRows DEF Watched, Depth
<1> DEFINE found == KeepMembers(vectors, Visible)
           n == Len(found)
<1>3. /\ vectors \in Nearest(Depth)
      /\ semantic = [i \in DOMAIN found |-> RowResult(found[i])]
  BY DEF Undisturbed
<1>4. /\ vectors \in Seq(embedded) /\ IsInjective(vectors) /\ Len(vectors) \in Nat
      /\ Len(vectors) = Least(Depth, Cardinality(embedded)) /\ DOMAIN vectors = 1..Len(vectors)
      /\ \A v \in embedded : (\A i \in DOMAIN vectors : vectors[i] # v) =>
           \A i \in DOMAIN vectors : Vectors[vectors[i]].score >= Vectors[v].score
  BY <1>1, <1>2, <1>3, NearestIs
<1>5. /\ found \in Seq(embedded) /\ IsInjective(found) /\ Len(found) <= Len(vectors)
      /\ Len(found) \in Nat /\ DOMAIN found = 1..n
      /\ \A k \in DOMAIN found : found[k] \in Visible
      /\ \A k \in DOMAIN found : \E i \in DOMAIN vectors : vectors[i] = found[k]
      /\ \A i \in DOMAIN vectors : vectors[i] \in Visible => \E k \in DOMAIN found : found[k] = vectors[i]
  <2>1. vectors \in Seq(embedded) /\ IsInjective(vectors)
    BY <1>4
  <2> QED BY <2>1, MembersAre
<1>6. wanted = Chunks /\ ~archived => n = Len(vectors)
  <2> SUFFICES ASSUME wanted = Chunks, ~archived
               PROVE  found = vectors
    OBVIOUS
  <2>1. Shown = embedded
    BY <1>1, AllShown
  <2>2. \A i \in DOMAIN vectors : vectors[i] \in Visible
    BY <1>4, <2>1 DEF Shown
  <2> QED BY <1>4, <2>2, KeepAll
<1>7. Len(vectors) <= Depth
  BY <1>2, <1>4, LeastIs
<1> HIDE DEF found
<1>8. n <= Depth
  BY <1>2, <1>4, <1>5, <1>7
<1>9. \A v \in Shown : (\A k \in 1..n : found[k] # v) =>
        \A k \in 1..n : Vectors[found[k]].score >= Vectors[v].score
  <2> SUFFICES ASSUME NEW v \in Shown, \A k \in 1..n : found[k] # v, NEW k \in 1..n
               PROVE  Vectors[found[k]].score >= Vectors[v].score
    OBVIOUS
  <2>1. v \in embedded /\ v \in Visible
    BY DEF Shown
  <2>2. \A i \in DOMAIN vectors : vectors[i] # v
    BY <1>5, <2>1
  <2>3. found[k] \in embedded /\ found[k] \in Shown
    BY <1>5 DEF Shown
  <2>4. CASE \E i \in DOMAIN vectors : vectors[i] = found[k]
    BY <1>4, <2>1, <2>2, <2>4
  <2>5. \E i \in DOMAIN vectors : vectors[i] = found[k]
    BY <1>5
  <2> QED BY <2>4, <2>5
<1>10. DOMAIN semantic = 1..n /\ \A i \in 1..n : semantic[i] = RowResult(found[i])
  BY <1>3, <1>5
<1>11. Len(semantic) = n
  <2>1. semantic = [i \in 1..n |-> semantic[i]]
    BY <1>3, <1>10
  <2> QED BY <1>5, <1>10, <2>1, ListIs
<1>12. PICK p \in [1..n -> 1..n] :
         /\ IsInjective(p) /\ answer = [i \in 1..n |-> semantic[p[i]]]
         /\ \A i, j \in 1..n : i < j => ~(semantic[p[j]].score > semantic[p[i]].score)
  <2>1. answer \in SortedResults(semantic, DefaultSort)
    BY <1>2 DEF Answers
  <2> QED BY <1>11, <2>1 DEF SortedResults, DefaultSort
<1>13. \A k \in 1..n : \E i \in 1..n : p[i] = k
  <2>1. p \in Injection(1..n, 1..n)
    BY <1>12 DEF Injection, IsInjective
  <2>2. IsFiniteSet(1..n)
    BY <1>5, Upto
  <2>3. p \in Surjection(1..n, 1..n)
    BY <2>1, <2>2, FS_Injection
  <2> QED BY <2>3 DEF Surjection
<1> DEFINE rows == [i \in 1..n |-> found[p[i]]]
<1>14. /\ \A i \in 1..n : rows[i] = found[p[i]] /\ p[i] \in 1..n /\ rows[i] \in Shown
       /\ DOMAIN rows = 1..n
  BY <1>5, <1>12 DEF Shown
<1>15. ASSUME NEW i \in 1..n
       PROVE  answer[i] = RowResult(rows[i]) /\ answer[i].score = Vectors[rows[i]].score
              /\ Vectors[rows[i]].score \in Nat
  <2>1. answer[i] = RowResult(rows[i]) /\ rows[i] \in Rows /\ Vectors[rows[i]].score \in Nat
    BY <1>1, <1>10, <1>12, <1>14, ShownIs
  <2> QED BY <2>1, RowResultIs
<1>16. BestRows(rows, n)
  <2>1. rows \in [1..n -> Shown]
    BY <1>14
  <2>2. IsInjective(rows)
    BY <1>5, <1>12, <1>14 DEF IsInjective
  <2>3. Falls(rows)
    <3> SUFFICES ASSUME NEW i \in 1..n, NEW j \in 1..n, i < j
                 PROVE  Vectors[rows[i]].score >= Vectors[rows[j]].score
      BY <1>14 DEF Falls
    <3>1. ~(answer[j].score > answer[i].score)
      BY <1>12
    <3> HIDE DEF rows
    <3> QED BY <1>15, <3>1
  <2>4. \A v \in Shown : (\A i \in 1..n : rows[i] # v) =>
          \A i \in 1..n : Vectors[rows[i]].score >= Vectors[v].score
    <3> SUFFICES ASSUME NEW v \in Shown, \A i \in 1..n : rows[i] # v, NEW i \in 1..n
                 PROVE  Vectors[rows[i]].score >= Vectors[v].score
      OBVIOUS
    <3>1. \A k \in 1..n : found[k] # v
      BY <1>13, <1>14
    <3> HIDE DEF rows
    <3> QED BY <1>9, <1>14, <3>1
  <2> HIDE DEF rows
  <2> QED BY <2>1, <2>2, <2>3, <2>4 DEF BestRows
<1>17. IsList(answer) /\ Len(answer) = n /\ DOMAIN answer = 1..n
  BY <1>5, <1>12, ListIs
<1> HIDE DEF rows, n
<1> QED BY <1>2, <1>4, <1>5, <1>6, <1>8, <1>15, <1>16, <1>17 DEF n

-----------------------------------------------------------------------------
(* What the client has seen.                                               *)

\* The part of an answer that is the page asked for, and what the client has seen with it.
PageOf(answer) == SubSeq(answer, offset + 1, Least(offset + Limit, Len(answer)))
SeenWith(answer) == seen \o [i \in DOMAIN PageOf(answer) |-> Entry(PageOf(answer)[i])]

\* A list without its first n members.
LEMMA RestOf ==
  ASSUME NEW list, IsList(list), NEW n \in Nat
  PROVE  LET rest == SubSeq(list, n + 1, Len(list))
         IN /\ IsList(rest) /\ Len(rest) \in Nat /\ DOMAIN rest = 1..Len(rest)
            /\ Len(rest) = IF n < Len(list) THEN Len(list) - n ELSE 0
            /\ \A k \in 1..Len(rest) : n + k \in 1..Len(list) /\ rest[k] = list[n + k]
<1> DEFINE V == {list[i] : i \in DOMAIN list}
           rest == SubSeq(list, n + 1, Len(list))
           M == Len(list)
<1>1. list \in Seq(V) /\ M \in Nat /\ DOMAIN list = 1..M /\ \A i \in 1..M : list[i] \in V
  BY DEF IsList
<1> HIDE DEF V, M
<1>2. n + 1 \in Int /\ M \in Int /\ \A i \in (n + 1)..M : list[i] \in V
  BY <1>1
<1>3. /\ rest \in Seq(V) /\ Len(rest) = IF n + 1 <= M THEN M - (n + 1) + 1 ELSE 0
      /\ \A i \in 1..(M - (n + 1) + 1) : rest[i] = list[n + 1 + i - 1]
  BY <1>2, SubSeqProperties DEF M
<1>4. IsList(rest) /\ Len(rest) \in Nat /\ DOMAIN rest = 1..Len(rest)
  BY <1>3, ListOf
<1> HIDE DEF rest
<1> DEFINE L == Len(rest)
<1>5. /\ L = IF n < M THEN M - n ELSE 0
      /\ \A k \in 1..L : k \in 1..(M - (n + 1) + 1) /\ n + 1 + k - 1 = n + k /\ n + k \in 1..M
  BY <1>1, <1>3
<1>6. \A k \in 1..L : rest[k] = list[n + k]
  BY <1>3, <1>5
<1> QED BY <1>4, <1>5, <1>6 DEF rest, M

\* Two lists, one after the other.
LEMMA JoinOf ==
  ASSUME NEW s, IsList(s), NEW t, IsList(t)
  PROVE  /\ Len(s) \in Nat /\ Len(t) \in Nat /\ DOMAIN s = 1..Len(s) /\ DOMAIN t = 1..Len(t)
         /\ IsList(s \o t) /\ Len(s \o t) = Len(s) + Len(t)
         /\ DOMAIN (s \o t) = 1..(Len(s) + Len(t))
         /\ \A k \in 1..(Len(s) + Len(t)) :
              (s \o t)[k] = IF k <= Len(s) THEN s[k] ELSE t[k - Len(s)]
<1> DEFINE S == {s[i] : i \in DOMAIN s}
           T == {t[i] : i \in DOMAIN t}
           W == S \cup T
<1>1. s \in Seq(S) /\ t \in Seq(T)
  BY DEF IsList
<1> HIDE DEF S, T
<1>2. s \in Seq(W) /\ t \in Seq(W)
  BY <1>1
<1> HIDE DEF W
<1>3. /\ s \o t \in Seq(W) /\ Len(s \o t) = Len(s) + Len(t)
      /\ \A i \in 1..(Len(s) + Len(t)) : (s \o t)[i] = IF i <= Len(s) THEN s[i] ELSE t[i - Len(s)]
  BY <1>2, ConcatProperties
<1>4. IsList(s \o t) /\ DOMAIN (s \o t) = 1..Len(s \o t)
  BY <1>3, ListOf
<1>5. Len(s) \in Nat /\ Len(t) \in Nat /\ DOMAIN s = 1..Len(s) /\ DOMAIN t = 1..Len(t)
  BY <1>2
<1> QED BY <1>3, <1>4, <1>5

\* What the first d of b have after the first a of them.
LEMMA Onward ==
  ASSUME NEW a \in Nat, NEW b \in Nat, NEW d \in Nat, a < d, NEW n, n = Least(a, b),
         NEW l, l = IF a < Least(d, b) THEN Least(d, b) - a ELSE 0
  PROVE  n + l = Least(d, b) /\ (l > 0 => a = n) /\ (l = 0 => b <= d)
BY DEF Least

\* A page goes on where the client was.
LEMMA PageAppends ==
  ASSUME IsList(seen), offset \in Nat, NEW answer, IsList(answer), Len(answer) <= offset + Limit
  PROVE  LET all == SeenWith(answer)
             N == Len(seen)
             L == Len(PageOf(answer))
         IN /\ L \in Nat /\ N \in Nat /\ DOMAIN seen = 1..N
            /\ L = IF offset < Len(answer) THEN Len(answer) - offset ELSE 0
            /\ IsList(all) /\ Len(all) = N + L /\ DOMAIN all = 1..(N + L)
            /\ \A k \in 1..N : all[k] = seen[k]
            /\ \A k \in 1..(N + L) : k \notin 1..N =>
                 /\ offset + (k - N) \in 1..Len(answer) /\ k > N
                 /\ all[k] = Entry(answer[offset + (k - N)])
<1> DEFINE page == PageOf(answer)
           keys == [i \in DOMAIN page |-> Entry(page[i])]
           all == SeenWith(answer)
           L == Len(page)
           N == Len(seen)
<1>1. Limit \in Nat /\ Len(answer) \in Nat /\ offset + Limit \in Nat
  <2>1. Len(answer) \in Nat
    BY DEF IsList
  <2> QED BY <2>1, LimitIs
<1>2. Least(offset + Limit, Len(answer)) = Len(answer)
  BY <1>1, LeastIs
<1>3. page = SubSeq(answer, offset + 1, Len(answer))
  BY <1>2 DEF PageOf
<1>4. /\ L \in Nat /\ DOMAIN page = 1..L
      /\ L = IF offset < Len(answer) THEN Len(answer) - offset ELSE 0
      /\ \A k \in 1..L : offset + k \in 1..Len(answer) /\ page[k] = answer[offset + k]
  <2> DEFINE rest == SubSeq(answer, offset + 1, Len(answer))
  <2>1. /\ Len(rest) \in Nat /\ DOMAIN rest = 1..Len(rest)
        /\ Len(rest) = IF offset < Len(answer) THEN Len(answer) - offset ELSE 0
        /\ \A k \in 1..Len(rest) : offset + k \in 1..Len(answer) /\ rest[k] = answer[offset + k]
    BY RestOf
  <2>2. page = rest
    BY <1>3
  <2> HIDE DEF rest, page
  <2> QED BY <2>1, <2>2
<1>5. all = seen \o keys
  BY DEF SeenWith
<1> HIDE DEF page, L, all
<1>6. keys = [k \in 1..L |-> keys[k]] /\ \A k \in 1..L : keys[k] = Entry(answer[offset + k])
  BY <1>4
<1> HIDE DEF keys
<1>7. IsList(keys) /\ Len(keys) = L
  BY <1>4, <1>6, ListIs
<1>8. /\ N \in Nat /\ DOMAIN seen = 1..N
      /\ IsList(all) /\ Len(all) = N + L /\ DOMAIN all = 1..(N + L)
      /\ \A k \in 1..(N + L) : all[k] = IF k <= N THEN seen[k] ELSE keys[k - N]
  BY <1>5, <1>7, JoinOf
<1> HIDE DEF N
<1>9. \A k \in 1..N : k \in 1..(N + L) /\ k <= N
  BY <1>4, <1>8
<1>10. \A k \in 1..(N + L) : k \notin 1..N => k - N \in 1..L /\ ~(k <= N) /\ k > N
  BY <1>4, <1>8
<1>11. \A k \in 1..N : all[k] = seen[k]
  BY <1>8, <1>9
<1>12. \A k \in 1..(N + L) : k \notin 1..N =>
         /\ offset + (k - N) \in 1..Len(answer) /\ k > N
         /\ all[k] = Entry(answer[offset + (k - N)])
  BY <1>4, <1>6, <1>8, <1>10
<1> QED BY <1>4, <1>8, <1>11, <1>12 DEF page, L, all, N

\* What there is to see stays as it is where the corpus and the request do.
LEMMA SameShown ==
  ASSUME UNCHANGED <<corpus, request, changed>>
  PROVE  /\ Found' = Found /\ Shown' = Shown /\ Watched' = Watched /\ mode' = mode
         /\ wanted' = wanted /\ archived' = archived /\ embedded' = embedded
         /\ \A v : Position(v)' = Position(v) /\ Alone(v)' = Alone(v)
<1>1. /\ Found' = Found /\ Shown' = Shown /\ Watched' = Watched /\ mode' = mode
      /\ wanted' = wanted /\ archived' = archived /\ embedded' = embedded
  BY DEF Found, Shown, Visible, Watched, corpus, request
<1>2. \A v : Better(v)' = Better(v) /\ Alone(v)' = Alone(v)
  BY <1>1 DEF Better, Alone
<1> QED BY <1>1, <1>2 DEF Position

LEMMA FreshSeen == SearchInv /\ seen = <<>> /\ offset = 0 /\ pc # "done" => SeenOK
<1> SUFFICES ASSUME SearchInv, seen = <<>>, offset = 0, pc # "done"
             PROVE  SeenOK
  OBVIOUS
<1>1. IsList(Found) /\ Len(Found) \in Nat /\ embedded \subseteq Rows
  BY FoundIs DEF SearchInv
<1>2. First(0, Found) = <<>>
  <2>1. Least(0, Len(Found)) = 0
    BY <1>1 DEF Least
  <2> QED BY <2>1, SubSeqEmpty DEF First
<1>3. SeenText
  BY <1>2 DEF SeenText
<1>4. SeenSemantic
  <2>1. \A v \in Shown : Position(v) \in Nat \ {0}
    BY <1>1, PositionType
  <2>2. Least(0, Cardinality(embedded)) = 0
    BY <1>1, FiniteRows DEF Least
  <2>3. \A v \in Shown : ~(Position(v) <= Len(seen))
    BY <2>1, Nothing
  <2> QED BY <2>2, <2>3, Nothing DEF SeenSemantic
<1> QED BY <1>3, <1>4, Nothing DEF SeenOK

LEMMA TextPageSeen ==
  ASSUME SearchInv, SeenText, mode = "text", IsList(seen), Undisturbed, Watched, pc = "respond",
         NEW answer \in Answers
  PROVE  /\ IsList(SeenWith(answer)) /\ SeenWith(answer) = First(Depth, Found)
         /\ PageOf(answer) = <<>> => Len(Found) <= Depth
<1> DEFINE E == Found
           D == offset + Limit
           all == SeenWith(answer)
           N == Len(seen)
           L == Len(PageOf(answer))
<1>1. offset \in Nat /\ Limit \in Nat /\ Limit > 0 /\ D \in Nat /\ Depth = D
  BY LimitIs DEF SearchInv, Depth
<1>2. IsList(E) /\ Len(E) \in Nat
  BY FoundIs
<1>3. /\ IsList(answer) /\ Len(answer) \in Nat /\ Len(answer) = Least(D, Len(E))
      /\ \A i \in 1..Len(answer) : Entry(answer[i]) = E[i]
  BY <1>1, TextAnswer
<1>4. Len(answer) <= D
  BY <1>1, <1>2, <1>3, LeastIs
<1>5. /\ L \in Nat /\ N \in Nat /\ IsList(all) /\ DOMAIN all = 1..(N + L)
      /\ Len(all) = N + L
      /\ \A k \in 1..N : all[k] = seen[k]
      /\ \A k \in 1..(N + L) : k \notin 1..N =>
           /\ offset + (k - N) \in 1..Len(answer) /\ k > N
           /\ all[k] = Entry(answer[offset + (k - N)])
      /\ L = IF offset < Len(answer) THEN Len(answer) - offset ELSE 0
  BY <1>1, <1>3, <1>4, PageAppends
<1>6. /\ DOMAIN First(D, E) = 1..Len(First(D, E))
      /\ Len(First(D, E)) = Least(D, Len(E)) /\ IsList(First(D, E))
      /\ \A k \in 1..Len(First(D, E)) : First(D, E)[k] = E[k]
  BY <1>1, <1>2, FirstOf
<1>7. N = Least(offset, Len(E)) /\ \A k \in 1..N : seen[k] = E[k]
  BY <1>1, <1>2, FirstOf DEF SeenText
<1> HIDE DEF E, N, L, all
<1>8. N + L = Least(D, Len(E))
  BY <1>1, <1>2, <1>3, <1>5, <1>7, Onward
<1>9. ASSUME NEW k \in 1..(N + L)
      PROVE  all[k] = E[k]
  <2>1. CASE k \in 1..N
    BY <1>5, <1>7, <2>1
  <2>2. CASE k \notin 1..N
    <3>1. L > 0
      BY <1>5, <2>2
    <3>2. offset = N
      BY <1>1, <1>2, <1>3, <1>5, <1>7, <3>1, Onward
    <3>3. offset + (k - N) = k
      BY <1>1, <1>5, <3>2
    <3> QED BY <1>3, <1>5, <2>2, <3>3
  <2> QED BY <2>1, <2>2
<1>10. ASSUME PageOf(answer) = <<>>
       PROVE  Len(E) <= D
  <2>1. L = 0
    BY <1>10, Nothing DEF L
  <2> QED BY <1>1, <1>2, <1>3, <1>5, <1>7, <2>1, Onward
<1> HIDE DEF D
<1>11. all = First(D, E)
  <2> DEFINE f == First(D, E)
  <2>1. /\ DOMAIN f = 1..(N + L) /\ DOMAIN all = 1..(N + L)
        /\ \A k \in 1..(N + L) : all[k] = f[k]
    BY <1>5, <1>6, <1>8, <1>9
  <2>2. IsList(f) /\ IsList(all)
    BY <1>5, <1>6
  <2> HIDE DEF f
  <2>3. f = [k \in DOMAIN f |-> f[k]] /\ all = [k \in DOMAIN all |-> all[k]]
    BY <2>2 DEF IsList
  <2> QED BY <2>1, <2>3 DEF f
<1> QED BY <1>1, <1>5, <1>10, <1>11 DEF E, all

LEMMA SemanticPageSeen ==
  ASSUME SearchInv, SeenSemantic, mode = "semantic", IsList(seen), Undisturbed, Watched,
         pc = "respond", NEW answer \in Answers
  PROVE  LET all == SeenWith(answer)
         IN /\ IsList(all)
            /\ \A v \in Shown : Alone(v) =>
                 /\ \A k, l \in DOMAIN all :
                      all[k] = Entry(RowResult(v)) /\ all[l] = Entry(RowResult(v)) => k = l
                 /\ \A k \in DOMAIN all : all[k] = Entry(RowResult(v)) => Position(v) <= Depth
            /\ wanted = Chunks /\ ~archived =>
                 /\ Len(all) = Least(Depth, Cardinality(embedded))
                 /\ \A v \in Shown : Alone(v) /\ Position(v) <= Len(all) =>
                      all[Position(v)] = Entry(RowResult(v))
                 /\ PageOf(answer) = <<>> => Cardinality(embedded) <= Depth
<1> DEFINE D == offset + Limit
           C == Cardinality(embedded)
           all == SeenWith(answer)
           N == Len(seen)
           L == Len(PageOf(answer))
<1>1. offset \in Nat /\ Limit \in Nat /\ Limit > 0 /\ D \in Nat /\ Depth = D
  BY LimitIs DEF SearchInv, Depth
<1>2. embedded \subseteq Rows /\ C \in Nat
  BY FiniteRows DEF SearchInv
<1>3. /\ IsList(answer) /\ Len(answer) \in Nat /\ Len(answer) <= D
      /\ \E rows : /\ BestRows(rows, Len(answer))
                   /\ \A i \in 1..Len(answer) : answer[i] = RowResult(rows[i])
      /\ wanted = Chunks /\ ~archived => Len(answer) = Least(D, C)
  BY <1>1, SemanticAnswer
<1>4. PICK rows : /\ BestRows(rows, Len(answer))
                  /\ \A i \in 1..Len(answer) : answer[i] = RowResult(rows[i])
  BY <1>3
<1>5. /\ L \in Nat /\ N \in Nat /\ IsList(all) /\ DOMAIN all = 1..(N + L) /\ Len(all) = N + L
      /\ DOMAIN seen = 1..N
      /\ \A k \in 1..N : all[k] = seen[k]
      /\ \A k \in 1..(N + L) : k \notin 1..N =>
           /\ offset + (k - N) \in 1..Len(answer) /\ k > N
           /\ all[k] = Entry(answer[offset + (k - N)])
      /\ L = IF offset < Len(answer) THEN Len(answer) - offset ELSE 0
  BY <1>1, <1>3, PageAppends
<1> HIDE DEF N, L, all
<1>6. ASSUME NEW v \in Shown, Alone(v), NEW i \in 1..Len(answer),
             Entry(answer[i]) = Entry(RowResult(v))
      PROVE  Position(v) = i
  <2>1. rows[i] \in Shown /\ answer[i] = RowResult(rows[i])
    BY <1>4 DEF BestRows
  <2>2. answer[i].score = RowResult(v).score
    BY <1>6 DEF Entry
  <2>3. Vectors[rows[i]].score = Vectors[v].score
    BY <1>2, <2>1, <2>2, ShownIs, RowResultIs
  <2>4. rows[i] = v
    BY <1>6, <2>1, <2>3 DEF Alone
  <2> QED BY <1>2, <1>3, <1>4, <1>6, <2>4, PositionIs
<1>7. ASSUME NEW v \in Shown, Alone(v), NEW k \in 1..(N + L), all[k] = Entry(RowResult(v))
      PROVE  /\ Position(v) \in Nat /\ Position(v) <= D
             /\ k \in 1..N => Position(v) <= offset
             /\ k \notin 1..N => Position(v) = offset + (k - N) /\ k > N
  <2>0. Position(v) \in Nat
    BY <1>2, PositionType
  <2>1. CASE k \in 1..N
    <3>1. Position(v) <= offset
      BY <1>5, <1>7, <2>1 DEF SeenSemantic
    <3> QED BY <1>1, <2>0, <2>1, <3>1
  <2>2. CASE k \notin 1..N
    <3>1. /\ offset + (k - N) \in 1..Len(answer) /\ k > N
          /\ Entry(answer[offset + (k - N)]) = Entry(RowResult(v))
      BY <1>5, <1>7, <2>2
    <3>2. Position(v) = offset + (k - N)
      BY <1>6, <1>7, <3>1
    <3> QED BY <1>1, <1>3, <2>0, <2>2, <3>1, <3>2
  <2> QED BY <2>1, <2>2
<1>8. ASSUME NEW v \in Shown, Alone(v), NEW k \in 1..(N + L), NEW l \in 1..(N + L),
             all[k] = Entry(RowResult(v)), all[l] = Entry(RowResult(v))
      PROVE  k = l
  <2>1. CASE k \in 1..N /\ l \in 1..N
    BY <1>5, <1>8, <2>1 DEF SeenSemantic
  <2>2. CASE k \notin 1..N \/ l \notin 1..N
    <3>1. k \in Nat /\ l \in Nat
      BY <1>5
    <3> DEFINE q == Position(v)
    <3>2. /\ q \in Nat
          /\ k \in 1..N => q <= offset
          /\ k \notin 1..N => q = offset + (k - N) /\ k > N
          /\ l \in 1..N => q <= offset
          /\ l \notin 1..N => q = offset + (l - N) /\ l > N
      BY <1>7, <1>8
    <3> HIDE DEF q
    <3> QED BY <1>1, <1>5, <2>2, <3>1, <3>2
  <2> QED BY <2>1, <2>2
<1>9. ASSUME wanted = Chunks, ~archived
      PROVE  /\ N + L = Least(D, C)
             /\ \A v \in Shown : Alone(v) /\ Position(v) <= N + L =>
                  all[Position(v)] = Entry(RowResult(v))
             /\ PageOf(answer) = <<>> => C <= D
  <2>1. N = Least(offset, C) /\ Len(answer) = Least(D, C)
    BY <1>3, <1>9 DEF SeenSemantic, N
  <2> HIDE DEF C
  <2>2. N + L = Least(D, C)
    BY <1>1, <1>2, <1>5, <2>1 DEF Least
  <2>3. ASSUME NEW v \in Shown, Alone(v), Position(v) <= N + L
        PROVE  all[Position(v)] = Entry(RowResult(v))
    <3> DEFINE k == Position(v)
    <3>1. k \in Nat \ {0}
      BY <1>2, PositionType
    <3>2. CASE k <= N
      <4>1. seen[k] = Entry(RowResult(v))
        BY <1>9, <2>3, <3>2 DEF SeenSemantic, N
      <4> HIDE DEF k
      <4> QED BY <1>5, <3>1, <3>2, <4>1 DEF k
    <3>3. CASE ~(k <= N)
      <4> HIDE DEF k
      <4>1. k \in 1..(N + L) /\ k \notin 1..N
        BY <1>5, <2>3, <3>1, <3>3 DEF k
      <4>2. L > 0
        BY <1>5, <4>1
      <4>3. offset = N
        BY <1>1, <1>2, <1>5, <2>1, <4>2 DEF Least
      <4>4. offset + (k - N) = k
        BY <1>1, <1>5, <4>1, <4>3
      <4>5. k \in 1..Len(answer) /\ all[k] = Entry(answer[k])
        BY <1>5, <4>1, <4>4
      <4>6. k <= Len(answer)
        BY <1>3, <4>5
      <4>7. rows[k] = v
        BY <1>2, <1>3, <1>4, <2>3, <4>6, PositionHas DEF k
      <4> QED BY <1>4, <4>5, <4>7 DEF k
    <3> QED BY <3>2, <3>3
  <2>4. ASSUME PageOf(answer) = <<>>
        PROVE  C <= D
    <3>1. L = 0
      BY <2>4, Nothing DEF L
    <3> QED BY <1>1, <1>2, <1>3, <1>5, <2>1, <3>1 DEF Least
  <2> QED BY <2>2, <2>3, <2>4
<1>10. \A v \in Shown : Alone(v) =>
         \A k \in DOMAIN all : all[k] = Entry(RowResult(v)) => Position(v) <= Depth
  BY <1>1, <1>5, <1>7
<1>11. \A v \in Shown : Alone(v) => \A k, l \in DOMAIN all :
         all[k] = Entry(RowResult(v)) /\ all[l] = Entry(RowResult(v)) => k = l
  BY <1>5, <1>8
<1>12. wanted = Chunks /\ ~archived =>
         /\ Len(all) = Least(Depth, C)
         /\ \A v \in Shown : Alone(v) /\ Position(v) <= Len(all) =>
              all[Position(v)] = Entry(RowResult(v))
         /\ PageOf(answer) = <<>> => C <= Depth
  BY <1>1, <1>5, <1>9
<1> QED BY <1>5, <1>10, <1>11, <1>12 DEF all

LEMMA PageSeen == SearchInv /\ PagesInv /\ Respond => SeenOK'
<1> SUFFICES ASSUME SearchInv, PagesInv, Respond, Watched'
             PROVE  SeenOK'
  BY DEF SeenOK
<1>1. /\ UNCHANGED <<corpus, request, changed>> /\ offset' = offset + Limit /\ pc = "respond"
  BY DEF Respond
<1>2. /\ Found' = Found /\ Shown' = Shown /\ Watched' = Watched /\ mode' = mode
      /\ wanted' = wanted /\ archived' = archived /\ embedded' = embedded
      /\ \A v : Position(v)' = Position(v) /\ Alone(v)' = Alone(v)
  BY <1>1, SameShown
<1>3. PICK answer \in Answers :
        LET page == SubSeq(answer, offset + 1, Least(offset + Limit, Len(answer)))
        IN /\ seen' = seen \o [i \in DOMAIN page |-> Entry(page[i])]
           /\ pc' = IF page = <<>> THEN "done" ELSE "ask"
  BY <1>2 DEF Respond
<1> DEFINE page == PageOf(answer)
           all == SeenWith(answer)
<1>4. seen' = all /\ (pc' = "done" => page = <<>>) /\ offset' = Depth
  BY <1>1, <1>3 DEF Depth, PageOf, SeenWith
<1>5. /\ IsList(seen) /\ Undisturbed /\ Watched
      /\ (mode = "text" => SeenText) /\ (mode = "semantic" => SeenSemantic)
  BY <1>2 DEF PagesInv, SeenOK
<1>6. mode = "text" =>
        IsList(all) /\ all = First(Depth, Found) /\ (page = <<>> => Len(Found) <= Depth)
  BY <1>1, <1>5, TextPageSeen
<1>7. mode = "semantic" =>
        /\ IsList(all)
        /\ \A v \in Shown : Alone(v) =>
             /\ \A k, l \in DOMAIN all :
                  all[k] = Entry(RowResult(v)) /\ all[l] = Entry(RowResult(v)) => k = l
             /\ \A k \in DOMAIN all : all[k] = Entry(RowResult(v)) => Position(v) <= Depth
        /\ wanted = Chunks /\ ~archived =>
             /\ Len(all) = Least(Depth, Cardinality(embedded))
             /\ \A v \in Shown : Alone(v) /\ Position(v) <= Len(all) =>
                  all[Position(v)] = Entry(RowResult(v))
             /\ page = <<>> => Cardinality(embedded) <= Depth
  BY <1>1, <1>5, SemanticPageSeen
<1> HIDE DEF page, all
<1>8. mode = "text" => SeenText' /\ IsList(seen')
  BY <1>2, <1>4, <1>6 DEF SeenText
<1>9. mode = "semantic" => SeenSemantic' /\ IsList(seen')
  BY <1>2, <1>4, <1>7 DEF SeenSemantic
<1>10. mode \in Modes /\ mode # "hybrid"
  BY <1>2 DEF SearchInv, Watched
<1> QED BY <1>2, <1>8, <1>9, <1>10 DEF SeenOK, Modes

\* What a search and a client have stays as good, where nothing they depend on changes.
LEMMA StillUndisturbed ==
  Undisturbed /\ UNCHANGED <<name, corpus, request, offset, changed, pc, search>> => Undisturbed'
<1> SUFFICES ASSUME Undisturbed, UNCHANGED <<name, corpus, request, offset, changed, pc, search>>
             PROVE  Undisturbed'
  OBVIOUS
<1>1. /\ Nearest(Depth)' = Nearest(Depth) /\ Visible' = Visible /\ Watched' = Watched
      /\ Depth' = Depth
      /\ mode' = mode /\ pc' = pc /\ vectors' = vectors /\ semantic' = semantic /\ text' = text
      /\ index' = index /\ name' = name
  BY DEF Nearest, Falls, Depth, Visible, Watched, corpus, request, search
<1> QED BY <1>1 DEF Undisturbed

LEMMA StillSeen ==
  SeenOK /\ UNCHANGED <<corpus, request, offset, changed, seen>> /\ (pc' = pc \/ pc' # "done")
    => SeenOK'
<1> SUFFICES ASSUME SeenOK, UNCHANGED <<corpus, request, offset, changed, seen>>,
                    pc' = pc \/ pc' # "done"
             PROVE  SeenOK'
  OBVIOUS
<1>1. UNCHANGED <<corpus, request, changed>>
  OBVIOUS
<1>2. /\ Found' = Found /\ Shown' = Shown /\ Watched' = Watched /\ mode' = mode
      /\ wanted' = wanted /\ archived' = archived /\ embedded' = embedded
      /\ \A v : Position(v)' = Position(v) /\ Alone(v)' = Alone(v)
  BY <1>1, SameShown
<1>3. seen' = seen /\ offset' = offset
  OBVIOUS
<1>4. mode = "text" /\ Watched => SeenText'
  BY <1>2, <1>3 DEF SeenOK, SeenText
<1>5. mode = "semantic" /\ Watched => SeenSemantic'
  BY <1>2, <1>3 DEF SeenOK, SeenSemantic
<1> QED BY <1>2, <1>3, <1>4, <1>5 DEF SeenOK

LEMMA PagesInit == Init => PagesInv
<1> SUFFICES ASSUME Init
             PROVE  PagesInv
  OBVIOUS
<1>1. Undisturbed
  BY DEF Init, Undisturbed
<1>2. SeenOK
  BY SearchInit, FreshSeen DEF Init
<1> QED BY <1>1, <1>2 DEF PagesInv

LEMMA PagesStep == SearchInv /\ SearchInv' /\ PagesInv /\ [Next]_vars => PagesInv'
<1> SUFFICES ASSUME SearchInv, SearchInv', PagesInv, [Next]_vars
             PROVE  Undisturbed' /\ SeenOK'
  BY DEF PagesInv
<1>0. Undisturbed /\ SeenOK /\ SearchOK
  BY DEF PagesInv, SearchInv
<1>1. CASE Ask
  <2>1. pc' = "ask" /\ seen' = <<>> /\ offset' = 0
    BY <1>1 DEF Ask
  <2>2. Undisturbed'
    BY <2>1 DEF Undisturbed
  <2>3. (SearchInv /\ seen = <<>> /\ offset = 0 /\ pc # "done" => SeenOK)'
    BY FreshSeen, PTL
  <2> QED BY <2>1, <2>2, <2>3
<1>2. CASE VectorSearch
  <2>1. /\ UNCHANGED <<corpus, request, offset, changed, seen>> /\ pc' \in {"fetch", "ask"}
        /\ pc' = "fetch" => vectors' \in Nearest(Depth)
    BY <1>2 DEF VectorSearch, Failed, client
  <2>2. Undisturbed'
    <3>1. Nearest(Depth)' = Nearest(Depth)
      BY <2>1 DEF Nearest, Falls, Depth, corpus
    <3> QED BY <2>1, <3>1 DEF Undisturbed
  <2>3. SeenOK'
    BY <1>0, <2>1, StillSeen
  <2> QED BY <2>2, <2>3
<1>3. CASE FetchChunks
  <2>1. /\ UNCHANGED <<corpus, request, offset, changed, seen>>
        /\ pc = "fetch" /\ pc' \in {"respond", "text", "ask"}
    BY <1>3 DEF FetchChunks, Failed, client
  <2>2. Undisturbed'
    <3>1. /\ Nearest(Depth)' = Nearest(Depth) /\ Visible' = Visible /\ mode' = mode
          /\ Watched' = Watched
      BY <2>1 DEF Nearest, Falls, Depth, Visible, Watched, corpus, request
    <3>2. CASE mode = "semantic" /\ Watched /\ pc' = "respond"
      <4> DEFINE found == KeepMembers(vectors, Visible)
      <4>1. vectors \in Nearest(Depth)
        BY <1>0, <2>1, <3>2 DEF Undisturbed
      <4>2. semantic' = [i \in DOMAIN found |-> RowResult(found[i])] /\ vectors' = vectors
        BY <1>3, <3>2 DEF FetchChunks, Failed
      <4> QED BY <2>1, <3>1, <3>2, <4>1, <4>2 DEF Undisturbed
    <3>3. CASE ~(mode = "semantic" /\ Watched /\ pc' = "respond")
      <4>1. mode' # "text"
        BY <1>0, <2>1, <3>1 DEF SearchOK
      <4> QED BY <2>1, <3>1, <3>3, <4>1 DEF Undisturbed
    <3> QED BY <3>2, <3>3
  <2>3. SeenOK'
    BY <1>0, <2>1, StillSeen
  <2> QED BY <2>2, <2>3
<1>4. CASE TextSearch
  <2>1. /\ UNCHANGED <<corpus, request, offset, changed, seen>>
        /\ pc' \in {"respond", "resolve", "ask"}
    BY <1>4 DEF TextSearch, Failed, client
  <2>2. Undisturbed'
    <3> DEFINE found == First(Depth, index)
    <3>1. mode' = mode /\ Depth' = Depth /\ index' = index /\ name' = name
      BY <2>1 DEF Depth, corpus, request
    <3>2. pc' = "respond" =>
            mode = "text" /\ text' = [i \in DOMAIN found |-> FileResult(found[i], RRFScore(i), name)]
      BY <1>4 DEF TextSearch, Failed
    <3> QED BY <2>1, <3>1, <3>2 DEF Undisturbed
  <2>3. SeenOK'
    BY <1>0, <2>1, StillSeen
  <2> QED BY <2>2, <2>3
<1>5. CASE ResolveHit \/ AllResolved
  <2>1. /\ UNCHANGED <<corpus, request, offset, changed, seen>>
        /\ pc = "resolve" /\ pc' \in {"resolve", "respond"}
    BY <1>5 DEF ResolveHit, AllResolved, client
  <2>2. Undisturbed'
    <3>1. mode' # "semantic" /\ mode' # "text"
      BY <1>0, <2>1 DEF SearchOK, request
    <3> QED BY <3>1 DEF Undisturbed
  <2>3. SeenOK'
    BY <1>0, <2>1, StillSeen
  <2> QED BY <2>2, <2>3
<1>6. CASE Respond
  <2>1. pc' \in {"done", "ask"}
    BY <1>6 DEF Respond
  <2>2. Undisturbed'
    BY <2>1 DEF Undisturbed
  <2> QED BY <1>6, <2>2, PageSeen
<1>7. CASE \/ \E c \in Chunks : SaveChunks(Layout[c].file)
           \/ \E v \in Rows : SaveEmbeddings(Layout[Vectors[v].chunk].file, Vectors[v].model)
           \/ Archive
  <2>1. changed' = TRUE
    BY <1>7 DEF SaveChunks, SaveEmbeddings, Archive, Changes
  <2>2. ~Watched'
    BY <2>1 DEF Watched
  <2> QED BY <2>2 DEF Undisturbed, SeenOK
<1>8. CASE UNCHANGED vars
  <2>1. UNCHANGED <<name, corpus, request, offset, changed, pc, search, seen>>
    BY <1>8 DEF vars, corpus, client
  <2> QED BY <1>0, <2>1, StillUndisturbed, StillSeen
<1> QED BY <1>1, <1>2, <1>3, <1>4, <1>5, <1>6, <1>7, <1>8 DEF Next

LEMMA PagesDo == SearchInv /\ PagesInv => PagesTile
<1> SUFFICES ASSUME SearchInv, PagesInv, Watched
             PROVE  PagesTile
  BY DEF PagesTile
<1>1. offset \in Nat /\ IsList(Found) /\ (mode = "text" => SeenText) /\ (mode = "semantic" => SeenSemantic)
  BY FoundIs DEF PagesInv, SeenOK, SearchInv
<1>2. mode = "text" => IsPrefix(seen, Found) /\ (pc = "done" => seen = Found)
  BY <1>1, FirstOf DEF SeenText
<1>3. ASSUME mode = "semantic", wanted = Chunks, ~archived, pc = "done", NEW v \in Shown
      PROVE  Position(v) <= Len(seen)
  <2>1. Shown = embedded /\ embedded \subseteq Rows
    BY <1>3, AllShown DEF SearchInv
  <2>2. Cardinality(embedded) \in Nat
    BY <2>1, FiniteRows
  <2>3. Len(seen) = Cardinality(embedded)
    BY <1>1, <1>3, <2>2, LeastIs DEF SeenSemantic
  <2> QED BY <2>1, <2>3, PositionType
<1> QED BY <1>1, <1>2, <1>3 DEF PagesTile, SeenSemantic

\* While one engine answers in its own order and nothing changes, a client that goes through
\* the pages of text mode gets what Zoekt finds, in order.  In semantic mode it is given an
\* embedding whose similarity no other has once at most and, if nothing is filtered, once and
\* in its place, whichever of the embeddings that tie each page was cut from.
THEOREM PagesFit == Spec => []PagesTile
<1>1. Init => SearchInv /\ PagesInv
  BY SearchInit, PagesInit
<1>2. (SearchInv /\ PagesInv) /\ [Next]_vars => (SearchInv /\ PagesInv)'
  BY SearchStep, PagesStep
<1> QED BY <1>1, <1>2, PagesDo, PTL DEF Spec
=============================================================================
