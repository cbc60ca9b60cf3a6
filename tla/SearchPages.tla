------------------------------ MODULE SearchPages ------------------------------
(***************************************************************************)
(* SearchService and HybridRankingService, asked for page after page by a  *)
(* client while a repository is indexed or removed.  A search is several   *)
(* statements: the vector search, the query for the chunks it found, the   *)
(* call of Zoekt, and one query for each of its file matches, whose result *)
(* stays in a cache of the service.                                        *)
(* There is one repository.  Zoekt knows it as host/owner/repo; its name   *)
(* in the database can be that ("full"), owner/repo ("short") or any other.*)
(***************************************************************************)
EXTENDS Lists, FiniteSets, SequencesExt

CONSTANTS
  Layout,     \* of each chunk, in the order of ids: file, first and last line, and how
              \* well its names fit the query (pathOnlyChunkQueryScore)
  Vectors,    \* the embeddings above the threshold: chunk, model version and similarity
  Indexes,    \* what Zoekt may find for the query: file matches, best first
  Filters,    \* chunks that pass the filters of a request
  Limit,
  MaxRank,    \* no engine finds more
  One,        \* the score 1, as a whole number that 60 plus any rank divides
  MaxWalks,   \* bound: queries the client goes through page by page
  MaxTroubles \* bound: calls that fail

Chunks == DOMAIN Layout
Rows == DOMAIN Vectors
Models == {Vectors[v].model : v \in Rows}
Modes == {"semantic", "text", "hybrid"}
Sorts == {"similarity:desc", "similarity:asc", "file_path:asc"}
DefaultSort == "similarity:desc"

\* A chunk has one embedding of each model version, and Zoekt one match for each file.  A
\* match has the lines it is looked up by (from..to, of all its parts) and those it is
\* shown with (first..last, of the best one), 0 if none; it is bare without content or parts.
ASSUME SearchAssumption ==
  /\ {Limit, One} \subseteq Nat \ {0} /\ {MaxRank, MaxWalks, MaxTroubles} \subseteq Nat
  /\ \A rank \in 1..MaxRank : One % (60 + rank) = 0
  /\ Layout \in Seq([file : Nat, from : Nat \ {0}, to : Nat \ {0}, fits : Nat])
  /\ \A set \in Filters : set \subseteq Chunks
  /\ Vectors \in Seq([chunk : Chunks, model : Nat, score : Nat]) /\ Len(Vectors) <= MaxRank
  /\ \A v, w \in DOMAIN Vectors : v # w =>
       Vectors[v].chunk # Vectors[w].chunk \/ Vectors[v].model # Vectors[w].model
  /\ \A matches \in Indexes :
       /\ matches \in Seq([file : Nat, from : Nat, to : Nat, first : Nat, last : Nat,
                           bare : BOOLEAN])
       /\ Len(matches) <= MaxRank
       /\ \A i \in DOMAIN matches :
            /\ matches[i].from = 0 <=> matches[i].to = 0
            /\ matches[i].first = 0 <=> matches[i].last = 0
       /\ \A i, j \in DOMAIN matches : matches[i].file = matches[j].file => i = j

VARIABLES
  name,      \* what the database calls the repository
  stored,    \* chunks with a row
  embedded,  \* embeddings with a row
  archived,  \* the repository is removed
  index,     \* what Zoekt finds
  cache,     \* zoektChunkCache: of some files, the chunks they had
  pc, mode, sort, wanted, offset, \* the request
  vectors, semantic, hits, text,  \* what the search has so far
  seen,      \* what the client was given since it began, as long as that is Watched
  changed,   \* whether rows or embeddings have changed since then
  walks, troubles

corpus == <<name, stored, embedded, archived, index>>
request == <<mode, sort, wanted>>
search == <<vectors, semantic, hits, text>>
client == <<seen, walks>>
vars == <<corpus, cache, pc, request, offset, search, client, changed, troubles>>

Init ==
  /\ name \in {"full", "short", "other"} /\ index \in Indexes /\ archived = FALSE
  /\ \/ stored = {} /\ embedded = {}
     \/ /\ stored = Chunks
        /\ \E models \in SUBSET Models : embedded = {v \in Rows : Vectors[v].model \in models}
  /\ cache = <<>> /\ pc = "idle" /\ mode = "semantic" /\ sort = DefaultSort
  /\ wanted = Chunks /\ offset = 0
  /\ vectors = <<>> /\ semantic = <<>> /\ hits = <<>> /\ text = <<>>
  /\ seen = <<>> /\ changed = FALSE /\ walks = 0 /\ troubles = 0

Least(a, b) == IF a < b THEN a ELSE b
First(n, list) == SubSeq(list, 1, Least(n, Len(list)))

\* One engine, its own order, and nothing has changed.
Watched == mode # "hybrid" /\ sort = DefaultSort /\ ~changed

Trouble == troubles < MaxTroubles /\ troubles' = troubles + 1

-----------------------------------------------------------------------------
(* Results, ranks and sort orders.                                         *)

\* A result of a chunk; or of a file match no chunk was found for (0, uuid.Nil), under
\* the repository's name in Zoekt, which sorts first where it differs.
ChunkResult(c, score) ==
  [chunk |-> c, repo |-> 1, file |-> Layout[c].file, from |-> Layout[c].from,
   to |-> Layout[c].to, score |-> score]
FileResult(h, score, called) ==
  [chunk |-> 0, repo |-> IF called = "full" THEN 1 ELSE 0, file |-> h.file, from |-> h.first,
   to |-> h.last, score |-> score]
RowResult(v) == ChunkResult(Vectors[v].chunk, Vectors[v].score)

\* CalculateRRFScore, 1 / (60 + rank).
RRFScore(rank) == One \div (60 + rank)

\* dedupKeyForResult.
Key(r) == IF r.chunk # 0 THEN <<"chunk", r.chunk>> ELSE <<"file", r.file>>

\* What the client knows a result by.
Entry(r) == <<Key(r), r.score>>

\* The ranks at which the results of a list have a key.
Ranks(list, key) == {i \in DOMAIN list : Key(list[i]) = key}
Top(ranks) == CHOOSE i \in ranks : \A j \in ranks : i <= j

\* Mutant: the text rank counts only for what the vectors did not find.
Fused_OneEngine(results, matches, key) ==
  LET s == Ranks(results, key)  t == Ranks(matches, key)
  IN IF s # {} THEN [results[Top(s)] EXCEPT !.score = RRFScore(Top(s))]
               ELSE [matches[Top(t)] EXCEPT !.score = RRFScore(Top(t))]

\* What buildMergedResult and calculateMergedRRFScore make of a key's hits.
Fused(results, matches, key) ==
  LET s == Ranks(results, key)  t == Ranks(matches, key)
      score(ranks) == IF ranks = {} THEN 0 ELSE RRFScore(Top(ranks))
  IN [(IF s # {} THEN results[Top(s)] ELSE matches[Top(t)])
        EXCEPT !.score = score(s) + score(t)]

\* The order of Rank's sort: score, the highest first, then repository, file, lines, chunk.
Place(r) == <<0 - r.score, r.repo, r.file, r.from, r.to, r.chunk>>
RanksBefore(a, b) == Before(Place(a), Place(b))

\* A set of results in that order: each after those that rank before it.
Ranked(results) ==
  [i \in 1..Cardinality(results) |->
     CHOOSE a \in results : Cardinality({b \in results : RanksBefore(b, a)}) = i - 1]

Rank(results, matches) ==
  LET keys == {Key(results[i]) : i \in DOMAIN results} \cup {Key(matches[i]) : i \in DOMAIN matches}
  IN Ranked({Fused(results, matches, k) : k \in keys})

\* Every order sortResults, which is not stable, can leave a list in.
SortedResults(list, by) ==
  LET n == Len(list)
      before(a, b) == CASE by = "similarity:desc" -> a.score > b.score
                        [] by = "similarity:asc" -> a.score < b.score
                        [] by = "file_path:asc" -> a.file < b.file
  IN {[i \in 1..n |-> list[p[i]]] : p \in
       {p \in [1..n -> 1..n] :
          IsInjective(p) /\ \A i, j \in 1..n : i < j => ~before(list[p[j]], list[p[i]])}}

Overlap(a, b) == a.from <= b.to /\ b.from <= a.to

\* Mutant: nothing is filtered.
KeptText_All == text

\* filterDuplicateZoektFallbacks, which compares repository names.
KeptText ==
  Keep(text, {n \in DOMAIN text :
    LET t == text[n] IN t.chunk # 0 \/ ~\E i \in DOMAIN semantic :
      LET s == semantic[i] IN s.repo = t.repo /\ name = "full" /\ s.file = t.file /\ Overlap(s, t)})

\* What a page is cut from.
Answers ==
  CASE mode = "semantic" -> SortedResults(semantic, sort)
    [] mode = "text" -> SortedResults(text, sort)
    [] mode = "hybrid" /\ sort = DefaultSort -> {Rank(semantic, KeptText)}
    [] OTHER -> SortedResults(Rank(semantic, KeptText), sort)

-----------------------------------------------------------------------------
(* The search.                                                             *)

\* Mutant: as many results as a page has.
Depth_OnePage == Limit

\* Both engines are asked for everything up to the end of the page.
Depth == offset + Limit

Cleared == vectors' = <<>> /\ semantic' = <<>> /\ hits' = <<>> /\ text' = <<>>

\* An error is the answer; the client asks for the page again.
Failed == pc' = "ask" /\ Cleared /\ Trouble

\* The most similar rows, of whatever model version.  Rows that tie, such as those of equal
\* contents in two files, come in any order, and any of them may be cut off.
Falls(list) ==
  \A i, j \in DOMAIN list : i < j => Vectors[list[i]].score >= Vectors[list[j]].score
Nearest(n) ==
  {list \in [1..Least(n, Cardinality(embedded)) -> embedded] :
     /\ IsInjective(list) /\ Falls(list)
     /\ \A v \in embedded : (\A i \in DOMAIN list : list[i] # v) =>
          \A i \in DOMAIN list : Vectors[list[i]].score >= Vectors[v].score}

VectorSearch ==
  /\ pc = "ask" /\ mode # "text"
  /\ \/ /\ vectors' \in Nearest(Depth)
        /\ pc' = "fetch" /\ UNCHANGED <<semantic, hits, text, troubles>>
     \/ Failed
  /\ UNCHANGED <<corpus, cache, request, offset, client, changed>>

\* FindChunksByIDs leaves out removed repositories, and matchesFilters looks at entity
\* name and visibility, after the limit of the vector search.  A chunk that was found by
\* two embeddings is there twice.
Visible == {v \in Rows : Vectors[v].chunk \in stored \cap wanted /\ ~archived}

FetchChunks ==
  /\ pc = "fetch"
  /\ \/ LET found == KeepMembers(vectors, Visible)
        IN /\ semantic' = [i \in DOMAIN found |-> RowResult(found[i])]
           /\ pc' = IF mode = "semantic" THEN "respond" ELSE "text"
           /\ UNCHANGED <<vectors, hits, text, troubles>>
     \/ Failed
  /\ UNCHANGED <<corpus, cache, request, offset, client, changed>>

\* Text mode answers with the file matches; hybrid mode goes on without Zoekt if it fails.
TextSearch ==
  /\ pc = "text" \/ (pc = "ask" /\ mode = "text")
  /\ LET found == First(Depth, index) IN
     \/ /\ mode = "text" /\ pc' = "respond"
        /\ text' = [i \in DOMAIN found |-> FileResult(found[i], RRFScore(i), name)]
        /\ UNCHANGED <<vectors, semantic, hits, troubles>>
     \/ /\ mode = "hybrid" /\ pc' = "resolve" /\ hits' = found
        /\ UNCHANGED <<vectors, semantic, text, troubles>>
     \/ mode = "text" /\ Failed
     \/ mode = "hybrid" /\ Trouble /\ pc' = "resolve" /\ UNCHANGED search
  /\ UNCHANGED <<corpus, cache, request, offset, client, changed>>

Lines(c) == Layout[c].to - Layout[c].from + 1
ChunksOf(file) == {c \in stored : Layout[c].file = file /\ ~archived /\ name # "other"}

\* The chunk that comes first, of chunks that each have a tuple of numbers.
Best(tuple) ==
  CHOOSE c \in DOMAIN tuple : \A d \in DOMAIN tuple \ {c} : Before(tuple[c], tuple[d])

\* selectBestOverlappingChunk and selectBestPathOnlyChunk, among some chunks; 0 if none.
BestOverlapping(h, chunks) ==
  LET those == {c \in chunks : Overlap(Layout[c], h)}
      shared(c) == Least(Layout[c].to, h.to) + 1
                     - (IF Layout[c].from < h.from THEN h.from ELSE Layout[c].from)
  IN IF those = {} THEN 0
     ELSE Best([c \in those |-> <<h.to + 1 - shared(c), Lines(c), Layout[c].from, c>>])
BestByName(chunks) ==
  IF chunks = {} THEN 0
  ELSE Best([c \in chunks |-> <<5 - Layout[c].fits, Lines(c), Layout[c].from, c>>])

\* convertZoektResults, one match: a bare match with no lines and no chunk is dropped.
Resolved(h, c) ==
  /\ hits' = Tail(hits)
  /\ text' = CASE c # 0 -> Append(text, ChunkResult(c, 0))
               [] c = 0 /\ ~(h.bare /\ h.first = 0) -> Append(text, FileResult(h, 0, name))
               [] OTHER -> text

\* resolveZoektChunk.  Whatever a file had when it was first looked up stays in the
\* cache as long as the process lives.  (The query and the write to the cache are one
\* step: an older answer that is written over a newer one is no staler than one that
\* was cached earlier.)
ResolveHit ==
  /\ pc = "resolve" /\ hits # <<>>
  /\ LET h == Head(hits) IN
     \/ /\ h.from = 0 /\ Resolved(h, BestByName(ChunksOf(h.file)))
        /\ UNCHANGED <<cache, troubles>>
     \/ /\ h.from # 0 /\ h.file \in DOMAIN cache
        /\ Resolved(h, BestOverlapping(h, cache[h.file]))
        /\ UNCHANGED <<cache, troubles>>
     \/ /\ h.from # 0 /\ h.file \notin DOMAIN cache
        /\ Resolved(h, BestOverlapping(h, ChunksOf(h.file)))
        /\ cache' = [f \in DOMAIN cache \cup {h.file} |->
                       IF f = h.file THEN ChunksOf(f) ELSE cache[f]]
        /\ UNCHANGED troubles
     \/ /\ h.from = 0 \/ h.file \notin DOMAIN cache
        /\ Trouble /\ Resolved(h, 0) /\ UNCHANGED cache
  /\ UNCHANGED <<corpus, pc, request, offset, vectors, semantic, client, changed>>

AllResolved ==
  /\ pc = "resolve" /\ hits = <<>>
  /\ pc' = "respond"
  /\ UNCHANGED <<corpus, cache, request, offset, search, client, changed, troubles>>

\* paginateResults.  The client asks on until a page is empty.
Respond ==
  /\ pc = "respond"
  /\ \E answer \in Answers :
       LET page == SubSeq(answer, offset + 1, Least(offset + Limit, Len(answer)))
       IN /\ seen' = IF Watched THEN seen \o [i \in DOMAIN page |-> Entry(page[i])] ELSE seen
          /\ pc' = IF page = <<>> THEN "done" ELSE "ask"
  /\ offset' = offset + Limit /\ Cleared
  /\ UNCHANGED <<corpus, cache, request, walks, changed, troubles>>

-----------------------------------------------------------------------------
(* The client, and what else happens to the repository.                    *)

Ask ==
  /\ pc \in {"idle", "done"} /\ walks < MaxWalks
  /\ pc' = "ask" /\ mode' \in Modes /\ sort' \in Sorts
  /\ wanted' \in IF mode' = "text" THEN {Chunks} ELSE Filters
  /\ offset' = 0 /\ seen' = <<>> /\ changed' = FALSE /\ walks' = walks + 1
  /\ UNCHANGED <<corpus, cache, search, troubles>>

Changes ==
  /\ changed' = TRUE /\ seen' = <<>>
  /\ UNCHANGED <<name, index, cache, pc, request, offset, search, walks, troubles>>

\* An indexing job saves its chunks, and embeds them, in several transactions: here one
\* for each file.  A job that runs after the model version has been changed adds its
\* embeddings to those of the old one.
SaveChunks(file) ==
  /\ \E c \in Chunks \ stored : Layout[c].file = file
  /\ stored' = stored \cup {c \in Chunks : Layout[c].file = file}
  /\ UNCHANGED <<embedded, archived>> /\ Changes

SaveEmbeddings(file, model) ==
  LET new == {v \in Rows : /\ Vectors[v].chunk \in stored /\ Vectors[v].model = model
                           /\ Layout[Vectors[v].chunk].file = file}
  IN /\ ~(new \subseteq embedded)
     /\ embedded' = embedded \cup new
     /\ UNCHANGED <<stored, archived>> /\ Changes

\* DELETE /repositories/{id}: its rows and embeddings stay.
Archive ==
  /\ ~archived /\ archived' = TRUE
  /\ UNCHANGED <<stored, embedded>> /\ Changes

Next ==
  \/ Ask \/ VectorSearch \/ FetchChunks \/ TextSearch \/ ResolveHit \/ AllResolved \/ Respond
  \/ \E c \in Chunks : SaveChunks(Layout[c].file)
  \/ \E v \in Rows : SaveEmbeddings(Layout[Vectors[v].chunk].file, Vectors[v].model)
  \/ Archive

Spec == Init /\ [][Next]_vars

-----------------------------------------------------------------------------
\* Two results of one answer: not the same chunk or file match; and where Zoekt and the
\* database agree on the repository's name, not a file match and a chunk of its lines.
Apart(a, b) ==
  /\ Key(a) # Key(b)
  /\ a.chunk # 0 \/ b.chunk = 0 \/ name # "full" \/ a.file # b.file \/ ~Overlap(a, b)
Clean(list) == \A i, j \in DOMAIN list : i # j => Apart(list[i], list[j])

\* No chunk has embeddings of two model versions.
OneVersion == \A v, w \in embedded : Vectors[v].chunk = Vectors[w].chunk => v = w

\* One answer shows no chunk twice, whichever engines and embeddings found it, and no file
\* match beside a chunk of the same lines, though the cache may know nothing of that chunk.
\* Only semantic mode needs that no chunk has embeddings of two model versions: it answers
\* with the rows that were found, and does not look for a chunk that is there already.
NothingTwice ==
  pc = "respond" /\ (mode = "semantic" => OneVersion) => \A answer \in Answers : Clean(answer)

\* The list has k before l, or has no l.
Leads(list, k, l) ==
  Ranks(list, l) = {} \/ (Ranks(list, k) # {} /\ Top(Ranks(list, k)) < Top(Ranks(list, l)))

\* Fusion respects agreement: what comes before something else in both engines' lists
\* comes before it in the fused one.
AgreedOrder ==
  pc = "respond" /\ mode = "hybrid" =>
    LET fused == Rank(semantic, KeptText)
    IN \A i, j \in DOMAIN fused :
         i < j => ~(/\ Leads(semantic, Key(fused[j]), Key(fused[i]))
                    /\ Leads(KeptText, Key(fused[j]), Key(fused[i])))

\* What Zoekt finds, as the client is given it.
Found == [i \in DOMAIN index |-> <<<<"file", index[i].file>>, RRFScore(i)>>]

\* The embeddings of chunks that pass the filters; how many are more similar than one; and
\* whether none is as similar.
Shown == embedded \cap Visible
Better(v) == {w \in Shown : Vectors[w].score > Vectors[v].score}
Alone(v) == \A w \in Shown : Vectors[w].score = Vectors[v].score => w = v
Position(v) == Cardinality(Better(v)) + 1

\* With one engine and its own order, while nothing changes, the pages a client goes
\* through are the parts of one list.  In text mode they are what Zoekt finds, in order.
\* In semantic mode this is so of each embedding that ties with no other: it is shown on
\* one page at most; and, if nothing is filtered, on one, in its place.  Embeddings of equal
\* similarity, such as those of equal contents in two files, can be shown on two pages or on
\* none where a page ends between them, but only among each other.
PagesTile ==
  Watched =>
    /\ mode = "text" => IsPrefix(seen, Found) /\ (pc = "done" => seen = Found)
    /\ mode = "semantic" => \A v \in Shown : Alone(v) =>
         /\ \A k, l \in DOMAIN seen :
              seen[k] = Entry(RowResult(v)) /\ seen[l] = Entry(RowResult(v)) => k = l
         /\ wanted = Chunks /\ ~archived =>
              /\ Position(v) <= Len(seen) => seen[Position(v)] = Entry(RowResult(v))
              /\ pc = "done" => Position(v) <= Len(seen)

-----------------------------------------------------------------------------
(* The inductive invariant.                                                *)

FilesOf(list) == {list[i].file : i \in DOMAIN list}

\* Results of different files.
FilesDiffer(list) == \A i, j \in DOMAIN list : list[i].file = list[j].file => i = j

TextResult(r, called, matches) ==
  \/ \E c \in Chunks : r = ChunkResult(c, 0)
  \/ r.score \in Nat /\ \E h \in matches : r = FileResult(h, r.score, called)

\* What the search has by where it is.
SearchOK ==
  /\ pc \in {"idle", "ask", "done"} => vectors = <<>>
  /\ pc \in {"idle", "ask", "done", "fetch"} => semantic = <<>>
  /\ pc # "resolve" => hits = <<>>
  /\ pc \notin {"resolve", "respond"} => text = <<>>
  /\ mode = "semantic" => pc \notin {"text", "resolve"} /\ text = <<>>
  /\ mode = "text" => pc \notin {"fetch", "text", "resolve"} /\ vectors = <<>> /\ semantic = <<>>

\* Different rows, and their results.
VectorsOK == vectors \in Seq(embedded) /\ IsInjective(vectors) /\ Len(vectors) <= MaxRank
SemanticOK ==
  /\ IsList(semantic) /\ Len(semantic) <= MaxRank
  /\ \A i \in DOMAIN semantic : \E v \in embedded : semantic[i] = RowResult(v)
  /\ OneVersion =>
       \A i, j \in DOMAIN semantic : semantic[i].chunk = semantic[j].chunk => i = j

\* A result of each file, and matches of other files.
TextOK ==
  /\ hits \in Seq(Range(index)) /\ IsList(text) /\ Len(text) + Len(hits) <= MaxRank
  /\ \A i \in DOMAIN text : TextResult(text[i], name, Range(index))
  /\ FilesDiffer(hits) /\ FilesDiffer(text) /\ FilesOf(hits) \cap FilesOf(text) = {}

\* The cache knows chunks under their own files.
CacheOK == \A f \in DOMAIN cache : cache[f] \subseteq {c \in Chunks : Layout[c].file = f}

SearchInv ==
  /\ stored \subseteq Chunks /\ index \in Indexes
  /\ embedded \subseteq {v \in Rows : Vectors[v].chunk \in stored}
  /\ archived \in BOOLEAN /\ wanted \subseteq Chunks /\ offset \in Nat
  /\ mode \in Modes /\ sort \in Sorts
  /\ pc \in {"idle", "ask", "fetch", "text", "resolve", "respond", "done"}
  /\ SearchOK /\ VectorsOK /\ SemanticOK /\ TextOK /\ CacheOK

\* What a search that nothing disturbs is about to answer.
Undisturbed ==
  Watched =>
    /\ mode = "semantic" /\ pc \in {"fetch", "respond"} => vectors \in Nearest(Depth)
    /\ mode = "semantic" /\ pc = "respond" =>
         LET found == KeepMembers(vectors, Visible)
         IN semantic = [i \in DOMAIN found |-> RowResult(found[i])]
    /\ mode = "text" /\ pc = "respond" =>
         LET found == First(Depth, index)
         IN text = [i \in DOMAIN found |-> FileResult(found[i], RRFScore(i), name)]

\* The client has seen what comes up to offset, whatever was cut off.
SeenText == seen = First(offset, Found) /\ (pc = "done" => Len(Found) <= offset)
SeenSemantic ==
  /\ \A v \in Shown : Alone(v) =>
       /\ \A k, l \in DOMAIN seen :
            seen[k] = Entry(RowResult(v)) /\ seen[l] = Entry(RowResult(v)) => k = l
       /\ \A k \in DOMAIN seen : seen[k] = Entry(RowResult(v)) => Position(v) <= offset
  /\ wanted = Chunks /\ ~archived =>
       /\ Len(seen) = Least(offset, Cardinality(embedded))
       /\ \A v \in Shown : Alone(v) /\ Position(v) <= Len(seen) =>
            seen[Position(v)] = Entry(RowResult(v))
       /\ pc = "done" => Cardinality(embedded) <= offset
SeenOK ==
  Watched =>
    /\ IsList(seen)
    /\ mode = "text" => SeenText
    /\ mode = "semantic" => SeenSemantic

PagesInv == Undisturbed /\ SeenOK
=============================================================================
