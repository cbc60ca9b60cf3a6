---------------------------- MODULE ParseDirectory ----------------------------
(***************************************************************************)
(* code_parser.go, TreeSitterCodeParser: what a job does with a checkout.  *)
(*   main     walks it, launches a goroutine for each file, collects       *)
(*   parser   one goroutine per file, at most ParseConcurrency at a time   *)
(*            (errgroup), which sends its chunks, or that it failed        *)
(*   closer   closes both channels when all of them are done               *)
(* The chunks of different files come in any order, which is why two       *)
(* parses of one commit batch them differently (ChunkStore, BatchPipeline).*)
(***************************************************************************)
EXTENDS Lists, Integers, FiniteSets, SequencesExt

CONSTANTS
  Trees,            \* checkouts: sequences of files in the order of the walk
  ParseConcurrency,
  ChunkSizeBytes,
  MaxFaults         \* bound: calls that fail

Line == [length : Nat, text : BOOLEAN]

ASSUME ParseAssumption ==
  /\ \A t \in Trees : IsFiniteSet(DOMAIN t) /\ \A i \in DOMAIN t : t[i].lines \in Seq(Line)
  /\ {ParseConcurrency, ChunkSizeBytes} \subseteq Nat \ {0}
  /\ MaxFaults \in Nat

VARIABLES
  tree,     \* the checkout
  pc,       \* of main
  entries,  \* the files to parse, as positions in tree
  parser,   \* of each: "none", "running" or "done"
  made,     \* history: the chunks each has sent
  results,  \* channel of chunks, by file
  skipped,  \* channel of failures: how many it holds
  closed,   \* how many of the two channels are closed
  answer,   \* allChunks, file by file
  faults

vars == <<tree, pc, entries, parser, made, results, skipped, closed, answer, faults>>

Fault == faults < MaxFaults /\ faults' = faults + 1

-----------------------------------------------------------------------------
(* Files and chunks.  A line is its length and whether it is more than     *)
(* blanks; a chunk is a file and a range of its lines.                     *)

\* shouldSkipDirectory and shouldProcessFile, with the configuration a job gives:
\* no filters, no size limit, no tests.
Wanted(file) == file.directory # "skipped" /\ file.kind = "code"

\* The bytes of the lines up to each, with their newlines.
Sums(lines) ==
  LET sum[n \in 0..Len(lines)] == IF n = 0 THEN 0 ELSE sum[n - 1] + lines[n].length + 1
  IN sum

Bytes(lines, from, to) == Sums(lines)[to] - Sums(lines)[from - 1]

HasText(lines, chunk) == \E n \in chunk.from..chunk.to : lines[n].text

\* What the filter of ParseDirectory leaves: chunks of blanks are dropped.
WithText(chunks, lines) == Keep(chunks, {k \in DOMAIN chunks : HasText(lines, chunks[k])})

\* The loop of createSimpleChunks after each line: the chunks it has finished, and where
\* the next begins.
Cuts(lines) ==
  LET cut[n \in 0..Len(lines)] ==
        IF n = 0 THEN [from |-> 1, list |-> <<>>]
        ELSE IF cut[n - 1].from < n /\ Bytes(lines, cut[n - 1].from, n) > ChunkSizeBytes
        THEN [from |-> n, list |-> Append(cut[n - 1].list, [from |-> cut[n - 1].from, to |-> n - 1])]
        ELSE cut[n - 1]
  IN cut

Cut(lines) == Cuts(lines)[Len(lines)]

\* Mutant: the last line is not looked at again once a chunk has ended before it.
SimpleChunks_DropsLast(lines) ==
  IF Bytes(lines, 1, Len(lines)) - 1 <= ChunkSizeBytes
  THEN <<[from |-> 1, to |-> Len(lines)]>>
  ELSE LET cut == Cut(lines)
       IN IF cut.from = Len(lines) THEN cut.list
          ELSE Append(cut.list, [from |-> cut.from, to |-> Len(lines)])

\* createSimpleChunks: the whole file, or as many lines as fit, one after the other.
SimpleChunks(lines) ==
  IF Bytes(lines, 1, Len(lines)) - 1 <= ChunkSizeBytes
  THEN <<[from |-> 1, to |-> Len(lines)]>>
  ELSE Append(Cut(lines).list, [from |-> Cut(lines).from, to |-> Len(lines)])

\* Extract: functions, classes, interfaces, variables, modules, each a list; an
\* extractor that fails adds nothing.
Extracted(file) ==
  {FlattenSeq([i \in 1..Len(file.found) |-> IF i \in S THEN file.found[i] ELSE <<>>]) :
     S \in SUBSET (1..Len(file.found))}

\* parseFile, if the file can be read.  Where tree-sitter does not know the language,
\* fails or finds nothing, the file is cut by size.
Parsed(file) == (Extracted(file) \ {<<>>}) \cup {SimpleChunks(file.lines)}

-----------------------------------------------------------------------------
Init ==
  /\ tree \in Trees
  /\ pc = "walk" /\ entries = {}
  /\ parser = <<>> /\ made = <<>> /\ results = <<>> /\ skipped = 0 /\ closed = 0
  /\ answer = <<>> /\ faults = 0

\* An error of the walk is the error of the whole.
Walk ==
  /\ pc = "walk"
  /\ \/ /\ entries' = {i \in DOMAIN tree : Wanted(tree[i])}
        /\ parser' = [i \in entries' |-> "none"]
        /\ made' = [i \in entries' |-> <<>>]
        /\ pc' = "launch"
        /\ UNCHANGED faults
     \/ Fault /\ pc' = "failed" /\ UNCHANGED <<entries, parser, made>>
  /\ UNCHANGED <<tree, results, skipped, closed, answer>>

Parsers(state) == {i \in entries : parser[i] = state}
Running == Parsers("running")

\* In the order of the walk; g.Go waits for a place.
Launch ==
  /\ pc = "launch"
  /\ \/ \E i \in Parsers("none") :
          /\ \A k \in Parsers("none") : i <= k
          /\ Cardinality(Running) < ParseConcurrency
          /\ parser' = [parser EXCEPT ![i] = "running"]
          /\ UNCHANGED pc
     \/ Parsers("none") = {} /\ pc' = "collect" /\ UNCHANGED parser
  /\ UNCHANGED <<tree, entries, made, results, skipped, closed, answer, faults>>

\* Mutant: as large as the pool.
Capacity_Pool == ParseConcurrency

\* Of both channels: main does not receive before it has launched everything.
Capacity == Cardinality(entries)

\* A goroutine sends and ends; on a closed channel it brings the process down.
Ends(i, channel) ==
  /\ i \in Running
  /\ parser' = [parser EXCEPT ![i] = "done"]
  /\ pc' = IF closed < channel THEN pc ELSE "crashed"
  /\ UNCHANGED <<tree, entries, closed, answer>>

\* parseFile.
Parse(i) ==
  /\ Ends(i, 1) /\ Len(results) < Capacity
  /\ \E chunks \in Parsed(tree[i]) : made' = [made EXCEPT ![i] = chunks]
  /\ results' = Append(results, i)
  /\ UNCHANGED <<skipped, faults>>

\* A file that cannot be read is skipped.
ParseFails(i) ==
  /\ Fault /\ Ends(i, 2) /\ skipped < Capacity
  /\ skipped' = skipped + 1
  /\ UNCHANGED <<made, results>>

\* Mutant: the closer is started before the loop, when g.Wait has nothing to wait for.
CloseChannel_Early ==
  /\ pc \in {"launch", "collect", "count", "wait"} /\ Running = {} /\ closed < 2
  /\ closed' = closed + 1
  /\ UNCHANGED <<tree, pc, entries, parser, made, results, skipped, answer, faults>>

\* The closer: g.Wait, then results, then skippedCh.
CloseChannel ==
  /\ pc \in {"collect", "count", "wait"} /\ Running = {} /\ closed < 2
  /\ closed' = closed + 1
  /\ UNCHANGED <<tree, pc, entries, parser, made, results, skipped, answer, faults>>

Collect ==
  /\ pc = "collect"
  /\ \/ /\ results # <<>>
        /\ answer' = Append(answer, [file |-> Head(results), chunks |-> made[Head(results)]])
        /\ results' = Tail(results)
        /\ UNCHANGED pc
     \/ results = <<>> /\ closed > 0 /\ pc' = "count" /\ UNCHANGED <<answer, results>>
  /\ UNCHANGED <<tree, entries, parser, made, skipped, closed, faults>>

CountSkipped ==
  /\ pc = "count"
  /\ \/ skipped > 0 /\ skipped' = skipped - 1 /\ UNCHANGED pc
     \/ skipped = 0 /\ closed = 2 /\ pc' = "wait" /\ UNCHANGED skipped
  /\ UNCHANGED <<tree, entries, parser, made, results, closed, answer, faults>>

\* g.Wait again, and the filter.
Return ==
  /\ pc = "wait" /\ Running = {}
  /\ pc' = "returned"
  /\ answer' = [k \in DOMAIN answer |->
                  [answer[k] EXCEPT !.chunks = WithText(@, tree[answer[k].file].lines)]]
  /\ UNCHANGED <<tree, entries, parser, made, results, skipped, closed, faults>>

Main == Walk \/ Launch \/ Collect \/ CountSkipped \/ Return

Next == Main \/ CloseChannel \/ \E i \in entries : Parse(i) \/ ParseFails(i)

Spec == Init /\ [][Next]_vars

\* Goroutines run.
Fairness ==
  /\ WF_vars(Main) /\ WF_vars(CloseChannel)
  /\ WF_vars(\E i \in entries : Parse(i))

FairSpec == Spec /\ Fairness

-----------------------------------------------------------------------------
\* A goroutine that has something to send finds both channels open and room in them,
\* although nobody receives before everything is launched; and when ParseDirectory
\* returns, nothing is left in a channel, and nobody still runs.
SendsGoThrough ==
  /\ pc # "crashed"
  /\ \A i \in Running : closed = 0 /\ Len(results) < Capacity /\ skipped < Capacity
  /\ pc = "returned" => results = <<>> /\ skipped = 0 /\ closed = 2 /\ Running = {}

\* What a job is given is all that its parsers found, file by file as they found it and
\* nothing else, and every send on the way goes through.
EverythingCollected ==
  /\ SendsGoThrough
  /\ pc = "returned" =>
       /\ entries = Parsers("done")
       /\ \A i \in entries : made[i] # <<>> => \E k \in DOMAIN answer : answer[k].file = i
       /\ \A k \in DOMAIN answer :
            LET i == answer[k].file
            IN /\ i \in entries /\ made[i] # <<>>
               /\ answer[k].chunks = WithText(made[i], tree[i].lines)
               /\ \A j \in DOMAIN answer : answer[j].file = i => j = k

\* The chunks of file i in the answer, by where they are in it.
ChunksOf(i) ==
  UNION {{k} \X DOMAIN answer[k].chunks : k \in {k \in DOMAIN answer : answer[k].file = i}}
ChunkAt(place) == answer[place[1]].chunks[place[2]]

\* No line is lost where files are cut by size, and no line is embedded twice: each that
\* is more than blanks is in one chunk, of at most ChunkSizeBytes (and the newline of a
\* last line that had none) unless it is the only line there.
NoLineLost ==
  pc = "returned" =>
    \A i \in entries :
      LET lines == tree[i].lines
      IN made[i] = SimpleChunks(lines) =>
           /\ \A n \in DOMAIN lines : lines[n].text =>
                Cardinality({p \in ChunksOf(i) : n \in ChunkAt(p).from..ChunkAt(p).to}) = 1
           /\ \A p \in ChunksOf(i) :
                \/ Bytes(lines, ChunkAt(p).from, ChunkAt(p).to) <= ChunkSizeBytes + 1
                \/ ChunkAt(p).from = ChunkAt(p).to

\* However many files there are, nobody waits for ever for a place or for room in a
\* channel: ParseDirectory returns.
ParseReturns == pc = "walk" ~> pc \in {"returned", "failed"}

-----------------------------------------------------------------------------
(* The inductive invariant.                                                *)

\* What main has launched by where it is.
LaunchedOK ==
  /\ pc = "walk" => entries = {} /\ results = <<>> /\ skipped = 0
  /\ pc \in {"walk", "launch"} => closed = 0
  /\ pc \in {"collect", "count", "wait", "returned"} => Parsers("none") = {}

\* What is in the channels was sent by goroutines that have ended, once each; they are
\* closed when all have.
ChannelsOK ==
  /\ Len(results) + skipped <= Cardinality(Parsers("done"))
  /\ closed > 0 => Parsers("done") = entries
  /\ pc \in {"count", "wait", "returned"} => closed > 0 /\ results = <<>>
  /\ pc \in {"wait", "returned"} => closed = 2 /\ skipped = 0

ParseInv ==
  /\ tree \in Trees /\ entries \subseteq DOMAIN tree
  /\ pc \in {"walk", "launch", "collect", "count", "wait", "returned", "failed"}
  /\ IsFiniteSet(entries)
  /\ parser \in [entries -> {"none", "running", "done"}]
  /\ results \in Seq(entries) /\ skipped \in Nat /\ closed \in 0..2
  /\ LaunchedOK /\ ChannelsOK

\* What a goroutine sent waits in the channel, or main has it, once.
SentOK ==
  /\ DOMAIN made = entries /\ made = [i \in entries |-> made[i]]
  /\ \A i \in entries : made[i] # <<>> =>
       /\ parser[i] = "done"
       /\ \/ \E k \in DOMAIN results : results[k] = i
          \/ \E k \in DOMAIN answer : answer[k].file = i
  /\ \A j, k \in DOMAIN results : results[j] = results[k] => j = k
  /\ \A k \in DOMAIN results : made[results[k]] # <<>>
  /\ \A j \in DOMAIN results, k \in DOMAIN answer : results[j] # answer[k].file

\* As it was sent, until the chunks of blanks are dropped.
AnswerOK ==
  /\ IsList(answer)
  /\ \A k \in DOMAIN answer :
       LET i == answer[k].file
       IN /\ i \in entries /\ made[i] # <<>>
          /\ answer[k] = [file |-> i, chunks |-> IF pc = "returned"
                                                 THEN WithText(made[i], tree[i].lines)
                                                 ELSE made[i]]
  /\ \A j, k \in DOMAIN answer : answer[j].file = answer[k].file => j = k

HandedOver == SentOK /\ AnswerOK
=============================================================================
