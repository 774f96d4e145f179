----------------------------- MODULE TextChunker -----------------------------
(***************************************************************************)
(* app/utils/chunker.py, as process_document_async calls it: the text of a *)
(* document becomes a sequence of chunks, by the semantic chunker if it is *)
(* enabled, and by the recursive one otherwise or when the former fails.   *)
(*                                                                         *)
(* A word is its position in the text, so a chunk is a sequence of         *)
(* numbers.  All that matters of what stands between two words is the      *)
(* first of SEPARATORS found there; Leaf stands for other white space.     *)
(* The recursion of _split_recursive is a stack of frames.                 *)
(***************************************************************************)
EXTENDS Integers, Sequences

CONSTANTS
  Texts,                        \* see TextsAssumption
  TextSize, TextOverlap,        \* CHUNK_SIZE, CHUNK_OVERLAP
  SemanticSize, SemanticOverlap \* max_tokens, chunk_overlap

\* SEPARATORS: paragraph 1, line 2, period and space 3, space 4; then none.
Period == 3
Space  == 4
Leaf   == 5

(* A text has a number of words; gap[i] follows the i-th.  ends holds the   *)
(* words that end a sentence, stops those of them that do so with a period, *)
(* and lone the periods that stand alone between white space.               *)
ASSUME TextsAssumption ==
  \A t \in Texts :
    /\ t.words \in Nat
    /\ t.gap \in [1..(t.words - 1) -> 1..Leaf]
    /\ t.stops \subseteq t.ends /\ t.ends \subseteq DOMAIN t.gap
    /\ t.lone \subseteq {i \in DOMAIN t.gap : t.gap[i] # Space}
    /\ t.lone \cap t.ends \subseteq t.stops
    /\ \A i \in t.ends : (t.gap[i] = Period => i \in t.stops) /\ (t.gap[i] = Space => i \notin t.stops)

\* An overlap of zero would carry whole chunks: current_words[-0:] is all of it.
ASSUME SizesAssumption ==
  {TextSize, TextOverlap, SemanticSize, SemanticOverlap} \subseteq Nat \ {0}

VARIABLES
  text,      \* what is chunked
  semantic,  \* whether the semantic chunker is at work
  phase,
  frames,    \* the calls of _split_recursive, the innermost first
  pieces,    \* pieces: first collected, then merged
  current,   \* current_words
  chunks,
  groups,    \* the last words of groups, and the first that no group has taken
  raw,       \* raw_chunks
  nested     \* whether the text being split is that of one group

vars == <<text, semantic, phase, frames, pieces, current, chunks, groups, raw, nested>>

Size    == IF semantic THEN SemanticSize ELSE TextSize
Overlap == IF semantic THEN SemanticOverlap ELSE TextOverlap

Count(r) == r.to - r.from + 1
Words(r) == [i \in 1..Count(r) |-> r.from + i - 1]

Whole == [from |-> 1, to |-> text.words]

\* The sentences of a group are joined by a space.
Gap(i) == IF ~nested \/ i \notin text.ends THEN text.gap[i]
          ELSE IF i \in text.stops THEN Period ELSE Space

Frame(r, level) == [from |-> r.from, to |-> r.to, level |-> level, looping |-> level = Leaf]

Init == /\ text \in Texts /\ semantic \in BOOLEAN /\ phase = "start"
        /\ frames = <<>> /\ pieces = <<>> /\ current = <<>> /\ chunks = <<>>
        /\ groups = [from |-> 1, breaks |-> {}] /\ raw = <<>> /\ nested = FALSE

Split(r) == /\ phase' = "splitting"
            /\ frames' = <<Frame(r, 1)>> /\ pieces' = <<>>
            /\ current' = <<>> /\ chunks' = <<>>
-----------------------------------------------------------------------------
(* TextChunker.chunk and _split_recursive *)

Blank == /\ phase = "start" /\ text.words = 0 /\ phase' = "done"
         /\ UNCHANGED <<text, semantic, frames, pieces, current, chunks, groups, raw, nested>>

\* There are at most two.
TwoSentences == \A i, j \in text.ends : i = j

\* The recursive chunker is asked for, or one or two sentences are not worth
\* an embedding.
ChunkText == /\ phase = "start" /\ text.words > 0 /\ (semantic => TwoSentences)
             /\ Split(Whole)
             /\ UNCHANGED <<text, semantic, groups, raw, nested>>

Top == Head(frames)

\* The text of the call is small enough as it is.
Fits == /\ phase = "splitting" /\ frames # <<>> /\ ~Top.looping /\ Count(Top) <= Size
        /\ pieces' = Append(pieces, Words(Top))
        /\ frames' = Tail(frames)
        /\ UNCHANGED <<text, semantic, phase, current, chunks, groups, raw, nested>>

Found(f) == \E i \in f.from..(f.to - 1) : Gap(i) = f.level

\* A mutant of TryNext: the same separators are tried again.
TryAgain == /\ phase = "splitting" /\ frames # <<>>
            /\ ~Top.looping /\ Count(Top) > Size /\ ~Found(Top)
            /\ frames' = <<Frame(Top, Top.level)>> \o Tail(frames)
            /\ UNCHANGED <<text, semantic, phase, pieces, current, chunks, groups, raw, nested>>

\* The separator does not occur: the call is repeated with the next one.
TryNext == /\ phase = "splitting" /\ frames # <<>>
           /\ ~Top.looping /\ Count(Top) > Size /\ ~Found(Top)
           /\ frames' = <<Frame(Top, Top.level + 1)>> \o Tail(frames)
           /\ UNCHANGED <<text, semantic, phase, pieces, current, chunks, groups, raw, nested>>

\* The separator occurs: the text is split and the parts are looped over.
Loop == /\ phase = "splitting" /\ frames # <<>>
        /\ ~Top.looping /\ Count(Top) > Size /\ Found(Top)
        /\ frames' = <<[Top EXCEPT !.looping = TRUE]>> \o Tail(frames)
        /\ UNCHANGED <<text, semantic, phase, pieces, current, chunks, groups, raw, nested>>

\* The first part of what the loop has left ends with word c: at a separator,
\* or after Size words when there is no separator left to try.
EndsPart(f, c) ==
  IF f.level = Leaf
  THEN c = IF Count(f) < Size THEN f.to ELSE f.from + Size - 1
  ELSE /\ c < f.to => Gap(c) = f.level
       /\ \A i \in f.from..(c - 1) : Gap(i) # f.level

\* The part without its separator, which takes a period with it: of a period
\* that stands alone nothing is left.
Part(f, c) ==
  [from |-> f.from,
   to   |-> IF f.level = Period /\ c < f.to /\ c \in text.lone THEN c - 1 ELSE c]

NextPart ==
  /\ phase = "splitting" /\ frames # <<>> /\ Top.looping /\ Top.from <= Top.to
  /\ \E c \in Top.from..Top.to :
       /\ EndsPart(Top, c)
       /\ LET part == Part(Top, c)
              rest == <<[Top EXCEPT !.from = c + 1]>> \o Tail(frames)
          IN  IF Count(part) > Size
              THEN /\ frames' = <<Frame(part, Top.level + 1)>> \o rest
                   /\ UNCHANGED pieces
              ELSE /\ frames' = rest
                   /\ pieces' = IF Count(part) = 0 THEN pieces ELSE Append(pieces, Words(part))
  /\ UNCHANGED <<text, semantic, phase, current, chunks, groups, raw, nested>>

Return == /\ phase = "splitting" /\ frames # <<>> /\ Top.looping /\ Top.from > Top.to
          /\ frames' = Tail(frames)
          /\ UNCHANGED <<text, semantic, phase, pieces, current, chunks, groups, raw, nested>>

SplitDone == /\ phase = "splitting" /\ frames = <<>> /\ phase' = "merging"
             /\ UNCHANGED <<text, semantic, frames, pieces, current, chunks, groups, raw, nested>>
-----------------------------------------------------------------------------
(* _merge_with_overlap *)

\* A mutant of Carried: the overlap is taken from the wrong end.
CarriedFromHead(ws) == IF Len(ws) <= Overlap THEN ws ELSE SubSeq(ws, 1, Overlap)

\* current_words[-CHUNK_OVERLAP:]
Carried(ws) == IF Len(ws) <= Overlap THEN ws ELSE SubSeq(ws, Len(ws) - Overlap + 1, Len(ws))

\* A mutant of Overflows: only the piece is measured.
PieceOverflows(piece) == Len(piece) > Size

Overflows(piece) == current # <<>> /\ Len(current) + Len(piece) > Size

\* A mutant of MergePiece: a flush forgets the piece that caused it.
MergeForgetful ==
  /\ phase = "merging" /\ pieces # <<>>
  /\ IF Overflows(Head(pieces))
     THEN /\ chunks' = Append(chunks, current)
          /\ current' = Carried(current)
     ELSE /\ current' = current \o Head(pieces)
          /\ UNCHANGED chunks
  /\ pieces' = Tail(pieces)
  /\ UNCHANGED <<text, semantic, phase, frames, groups, raw, nested>>

MergePiece ==
  /\ phase = "merging" /\ pieces # <<>>
  /\ IF Overflows(Head(pieces))
     THEN /\ chunks' = Append(chunks, current)
          /\ current' = Carried(current) \o Head(pieces)
     ELSE /\ current' = current \o Head(pieces)
          /\ UNCHANGED chunks
  /\ pieces' = Tail(pieces)
  /\ UNCHANGED <<text, semantic, phase, frames, groups, raw, nested>>

\* The last chunk; the chunks of a group go to raw_chunks.
MergeDone ==
  /\ phase = "merging" /\ pieces = <<>>
  /\ LET all == IF current = <<>> THEN chunks ELSE Append(chunks, current)
     IN  IF nested THEN raw' = raw \o all /\ chunks' = <<>> /\ phase' = "grouping"
                   ELSE raw' = raw /\ chunks' = all /\ phase' = "done"
  /\ current' = <<>>
  /\ UNCHANGED <<text, semantic, frames, pieces, groups, nested>>
-----------------------------------------------------------------------------
(* SemanticChunker.chunk *)

\* One embedding after the other is awaited.
Embed == /\ phase = "start" /\ semantic /\ text.words > 0 /\ ~TwoSentences
         /\ phase' = "embedding"
         /\ UNCHANGED <<text, semantic, frames, pieces, current, chunks, groups, raw, nested>>

\* An exception: the service falls back to the recursive chunker.
FallBack == /\ phase = "embedding"
            /\ semantic' = FALSE
            /\ Split(Whole)
            /\ UNCHANGED <<text, groups, raw, nested>>

\* The sentences are cut into groups wherever two neighbours are not similar.
Group == /\ phase = "embedding" /\ phase' = "grouping"
         /\ \E cuts \in SUBSET text.ends : groups' = [from |-> 1, breaks |-> cuts]
         /\ nested' = TRUE
         /\ UNCHANGED <<text, semantic, frames, pieces, current, chunks, raw>>

EndsGroup(c) == /\ c < text.words => c \in groups.breaks
                /\ \A i \in groups.from..(c - 1) : i \notin groups.breaks

\* A group is a raw chunk, unless it is too large.
TakeGroup ==
  /\ phase = "grouping" /\ groups.from <= text.words
  /\ \E c \in groups.from..text.words :
       LET group == [from |-> groups.from, to |-> c] IN
       /\ EndsGroup(c)
       /\ groups' = [groups EXCEPT !.from = c + 1]
       /\ IF Count(group) > Size
          THEN Split(group) /\ UNCHANGED raw
          ELSE /\ raw' = Append(raw, Words(group))
               /\ UNCHANGED <<phase, frames, pieces, current, chunks>>
  /\ UNCHANGED <<text, semantic, nested>>

\* What the groups have become is merged, for the large ones once more.
MergeRaw == /\ phase = "grouping" /\ groups.from > text.words /\ phase' = "merging"
            /\ pieces' = raw /\ raw' = <<>> /\ nested' = FALSE
            /\ UNCHANGED <<text, semantic, frames, current, chunks, groups>>
-----------------------------------------------------------------------------
SplitStep == Fits \/ TryNext \/ Loop \/ NextPart \/ Return \/ SplitDone

Next == \/ Blank \/ ChunkText \/ SplitStep \/ MergePiece \/ MergeDone
        \/ Embed \/ FallBack \/ Group \/ TakeGroup \/ MergeRaw

\* The chunker computes until it is done; an embedding always returns.
Spec == Init /\ [][Next]_vars /\ WF_vars(Next)
-----------------------------------------------------------------------------
(* Properties *)

\* How large a chunk can be: a piece of full size is put behind the overlap,
\* and the chunks of a large group, overlap included, are pieces themselves.
Bound == Size + (IF semantic THEN 2 ELSE 1) * Overlap

\* A piece at the limit is never cut by the merge, only put behind the words
\* carried over: no chunk exceeds the limit by more than the overlap, twice
\* that for groups that were split before.
ChunksBounded == \A k \in DOMAIN chunks : Len(chunks[k]) <= Bound

InChunk(w, k) == \E i \in DOMAIN chunks[k] : chunks[k][i] = w

\* The words that may go: lone periods, taken for part of a separator.
Optional == text.lone

\* Through all splits and merges no word is lost and none comes before an
\* earlier word of the text has come.
TextKept ==
  phase = "done" =>
    /\ \A w \in (1..text.words) \ Optional : \E k \in DOMAIN chunks : InChunk(w, k)
    /\ \A k \in DOMAIN chunks : \A i \in DOMAIN chunks[k] : \A w \in (1..(chunks[k][i] - 1)) \ Optional :
         \/ \E j \in 1..(k - 1) : InChunk(w, j)
         \/ \E h \in 1..(i - 1) : chunks[k][h] = w

\* The recursive chunker repeats exactly the overlap: a chunk starts with the
\* last words of its predecessor, the next words follow, and none comes twice.
OverlapExact ==
  phase = "done" /\ ~semantic =>
    \A k \in 1..(Len(chunks) - 1) :
      LET c == chunks[k]
          d == chunks[k + 1]
          n == IF Len(c) < Overlap THEN Len(c) ELSE Overlap
      IN  /\ Len(d) > n
          /\ \A i \in 1..n : d[i] = c[Len(c) - n + i]
          /\ \A i \in 1..(Len(d) - 1) : d[i] < d[i + 1]

\* Whatever separators the text has and lacks, the recursion comes to an end.
ChunkerEnds == <>(phase = "done")

\* Violated: "every output chunk still respects size limits" (chunker.py:175).
SizeRespected == semantic => \A k \in DOMAIN chunks : Len(chunks[k]) <= Size
=============================================================================
