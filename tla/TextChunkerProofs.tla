-------------------------- MODULE TextChunkerProofs --------------------------
(***************************************************************************)
(* For any texts and any sizes and overlaps: how large a chunk can be,     *)
(* that the chunks tell the words of the text, each in its turn, and that  *)
(* the recursive chunker repeats the overlap and nothing else.             *)
(*                                                                         *)
(* The first part bounds lengths.  The second follows the words from the   *)
(* stack of calls to the pieces and on to the chunks.  The third is about  *)
(* the order of the words within a piece and across chunks.                *)
(***************************************************************************)
EXTENDS TextChunker, SequenceTheorems, TLAPS

\* Pieces and chunks of at most n words.
UpTo(n) == {ws \in Seq(Int) : Len(ws) <= n}

Ranges == [from : Int, to : Int, level : Int, looping : BOOLEAN]

\* A call is about a text, or about nothing once its loop is over.
Frames == {f \in Ranges : f.from <= f.to + 1}
-----------------------------------------------------------------------------
(* The operators *)

\* The sizes are positive numbers whichever chunker is at work.
LEMMA Sizes == Size \in Nat \ {0} /\ Overlap \in Nat \ {0}
BY SizesAssumption DEF Size, Overlap

\* A range has as many words as it counts.
LEMMA WordsFit ==
  ASSUME NEW r, r.from \in Int, r.to \in Int, r.from <= r.to + 1, NEW n \in Int, Count(r) <= n
  PROVE  Words(r) \in UpTo(n)
<1>1. Count(r) \in Nat
  BY DEF Count
<1>2. Words(r) \in [1..Count(r) -> Int]
  BY <1>1 DEF Words
<1>3. Words(r) \in Seq(Int)
  BY <1>1, <1>2, SeqDef
<1>4. Len(Words(r)) = Count(r)
  BY <1>1, <1>2, <1>3, LenProperties DEF Words
<1> QED BY <1>3, <1>4 DEF UpTo

\* What is carried over is at most the overlap.
LEMMA CarriedFits ==
  ASSUME NEW ws \in Seq(Int)
  PROVE  Carried(ws) \in UpTo(Overlap)
<1>1. Overlap \in Nat \ {0} /\ Len(ws) \in Nat
  BY Sizes, LenProperties
<1>2. CASE Len(ws) <= Overlap
  BY <1>2 DEF Carried, UpTo
<1>3. CASE ~(Len(ws) <= Overlap)
  <2> DEFINE m == Len(ws) - Overlap + 1
  <2>1. m \in Int /\ m \in 1..Len(ws) /\ Len(ws) - m + 1 = Overlap
    BY <1>1, <1>3
  <2>2. \A i \in m..Len(ws) : ws[i] \in Int
    BY <1>1, <2>1, ElementOfSeq
  <2>3. /\ SubSeq(ws, m, Len(ws)) \in Seq(Int)
        /\ Len(SubSeq(ws, m, Len(ws))) = Overlap
    BY <1>1, <2>1, <2>2, SubSeqProperties
  <2>4. Carried(ws) = SubSeq(ws, m, Len(ws))
    BY <1>3 DEF Carried
  <2> HIDE DEF m
  <2> QED BY <1>1, <2>3, <2>4 DEF UpTo
<1> QED BY <1>2, <1>3

\* A longer limit is kept by what keeps a shorter one.
LEMMA UpToGrows ==
  ASSUME NEW m \in Int, NEW n \in Int, m <= n
  PROVE  UpTo(m) \subseteq UpTo(n) /\ \A s \in Seq(UpTo(m)) : s \in Seq(UpTo(n))
<1>1. UpTo(m) \subseteq UpTo(n)
  <2>1. ASSUME NEW ws \in UpTo(m) PROVE ws \in UpTo(n)
    BY LenProperties DEF UpTo
  <2> QED BY <2>1
<1> QED BY <1>1, SeqMonotonic

\* Two pieces, one behind the other.
LEMMA UpToJoin ==
  ASSUME NEW m \in Int, NEW n \in Int, NEW v \in UpTo(m), NEW w \in UpTo(n)
  PROVE  v \o w \in UpTo(m + n) /\ \A k \in Int : Len(v) + Len(w) <= k => v \o w \in UpTo(k)
<1>1. v \in Seq(Int) /\ w \in Seq(Int) /\ Len(v) <= m /\ Len(w) <= n
  BY DEF UpTo
<1>2. v \o w \in Seq(Int) /\ Len(v \o w) = Len(v) + Len(w) /\ Len(v) \in Nat /\ Len(w) \in Nat
  BY <1>1, ConcatProperties, LenProperties
<1> QED BY <1>1, <1>2 DEF UpTo
-----------------------------------------------------------------------------
(* The invariant *)

Phases == {"start", "splitting", "merging", "embedding", "grouping", "done"}

TypeOK ==
  /\ text \in Texts /\ semantic \in BOOLEAN /\ phase \in Phases
  /\ frames \in Seq(Frames)
  /\ groups \in [from : Int, breaks : SUBSET text.ends]
  /\ nested \in BOOLEAN /\ (nested => semantic)

\* What is merged: pieces, or chunks of the groups that were split before.
Merged == IF semantic /\ ~nested THEN Size + Overlap ELSE Size

\* How long pieces, chunks and raw chunks can be in each phase.
Lengths ==
  /\ phase \in {"start", "embedding"} => current = <<>> /\ chunks = <<>> /\ raw = <<>> /\ ~nested
  /\ phase = "embedding" => semantic
  /\ phase = "splitting" => /\ current = <<>> /\ chunks = <<>>
                            /\ pieces \in Seq(UpTo(Size))
  /\ phase = "merging" => /\ pieces \in Seq(UpTo(Merged))
                          /\ current \in UpTo(Merged + Overlap)
                          /\ chunks \in Seq(UpTo(Merged + Overlap))
  /\ phase = "grouping" => nested /\ current = <<>> /\ chunks = <<>>
  /\ phase = "done" => chunks \in Seq(UpTo(Bound))
  /\ nested => raw \in Seq(UpTo(Size + Overlap))

IInv == TypeOK /\ Lengths

\* The numbers the invariant speaks of.
LEMMA Limits ==
  ASSUME TypeOK
  PROVE  /\ Merged \in Nat /\ Size <= Merged /\ (nested => Merged = Size)
         /\ ~nested => Merged + Overlap = Bound
         /\ Bound \in Nat /\ Merged + Overlap <= Bound
BY Sizes DEF TypeOK, Merged, Bound

\* No words are a piece of any length, and no pieces a sequence of any.
LEMMA NoWords == ASSUME NEW n \in Nat PROVE <<>> \in UpTo(n) /\ <<>> \in Seq(UpTo(n))
BY EmptySeq DEF UpTo

\* A call of the splitter is well formed when its range is.
LEMMA NewFrame ==
  ASSUME NEW r, r.from \in Int, r.to \in Int, r.from <= r.to + 1, NEW n \in Int
  PROVE  Frame(r, n) \in Frames
BY DEF Frame, Frames, Ranges

\* The initial state satisfies the invariant.
LEMMA Initially == Init => IInv
<1> SUFFICES ASSUME Init PROVE IInv
  OBVIOUS
<1>1. frames \in Seq(Frames)
  BY EmptySeq DEF Init
<1>2. groups \in [from : Int, breaks : SUBSET text.ends]
  BY DEF Init
<1>3. TypeOK
  BY <1>1, <1>2 DEF Init, TypeOK, Phases
<1>4. Lengths
  BY DEF Init, Lengths
<1> QED BY <1>3, <1>4 DEF IInv

\* What is known of the innermost call.
LEMMA TopFrame ==
  ASSUME TypeOK, frames # <<>>
  PROVE  /\ Top \in Frames /\ Tail(frames) \in Seq(Frames)
         /\ Top.from \in Int /\ Top.to \in Int /\ Top.level \in Int /\ Top.from <= Top.to + 1
BY HeadTailProperties DEF TypeOK, Top, Frames, Ranges

\* One call in the place of another.
LEMMA PushFrame ==
  ASSUME NEW f \in Frames, NEW s \in Seq(Frames)
  PROVE  <<f>> \o s \in Seq(Frames)
<1>1. <<f>> \in Seq(Frames)
  OBVIOUS
<1> QED BY <1>1, ConcatProperties

\* A range that is split anew, whichever chunker is at work.
LEMMA SplitStarts ==
  ASSUME NEW r, r.from \in Int, r.to \in Int, r.from <= r.to + 1, Split(r)
  PROVE  /\ frames' \in Seq(Frames) /\ phase' = "splitting"
         /\ current' = <<>> /\ chunks' = <<>> /\ pieces' = <<>>
<1>1. Frame(r, 1) \in Frames
  BY NewFrame
<1> QED BY <1>1 DEF Split

\* A text is a range.
LEMMA TextRange ==
  ASSUME TypeOK
  PROVE  text.words \in Nat /\ Whole.from \in Int /\ Whole.to \in Int /\ Whole.from <= Whole.to + 1
BY TextsAssumption DEF TypeOK, Whole
-----------------------------------------------------------------------------
(* The steps *)

\* The sizes change with the chunker only.
LEMMA SameSizes ==
  ASSUME semantic' = semantic
  PROVE  Size' = Size /\ Overlap' = Overlap /\ Bound' = Bound
         /\ (nested' = nested => Merged' = Merged)
BY DEF Size, Overlap, Bound, Merged

\* The splitter: its pieces fit.
LEMMA SplitKeeps == IInv /\ SplitStep => IInv'
<1> SUFFICES ASSUME IInv, SplitStep PROVE IInv'
  OBVIOUS
<1> USE DEF IInv
<1>0. UNCHANGED <<text, semantic, current, chunks, groups, raw, nested>> /\ phase = "splitting"
  BY DEF SplitStep, Fits, TryNext, Loop, NextPart, Return, SplitDone
<1>a. Size' = Size /\ Overlap' = Overlap /\ Bound' = Bound /\ Merged' = Merged
  BY <1>0, SameSizes
<1>b. /\ current = <<>> /\ chunks = <<>> /\ pieces \in Seq(UpTo(Size))
      /\ nested => raw \in Seq(UpTo(Size + Overlap))
  BY <1>0 DEF Lengths
<1>1. SUFFICES /\ frames' \in Seq(Frames)
               /\ \/ phase' = "splitting" /\ pieces' \in Seq(UpTo(Size))
                  \/ phase' = "merging" /\ pieces' \in Seq(UpTo(Merged))
  <2>1. TypeOK'
    BY <1>0, <1>1 DEF TypeOK, Phases
  <2>2. <<>> \in UpTo(Merged + Overlap) /\ <<>> \in Seq(UpTo(Merged + Overlap))
    BY NoWords, Limits, Sizes
  <2>3. Lengths'
    <3>1. CASE phase' = "splitting" /\ pieces' \in Seq(UpTo(Size))
      BY <1>0, <1>a, <1>b, <3>1 DEF Lengths, UpTo
    <3>2. CASE phase' = "merging" /\ pieces' \in Seq(UpTo(Merged))
      BY <1>0, <1>a, <1>b, <2>2, <3>2 DEF Lengths, UpTo
    <3> QED BY <1>1, <3>1, <3>2
  <2> QED BY <2>1, <2>3
<1>2. CASE Fits
  <2>1. Words(Top) \in UpTo(Size)
    BY <1>2, TopFrame, WordsFit, Sizes DEF Fits
  <2>2. Append(pieces, Words(Top)) \in Seq(UpTo(Size))
    BY <1>b, <2>1
  <2> QED BY <1>0, <1>2, <2>2, TopFrame DEF Fits
<1>3. CASE TryNext
  <2>1. Frame(Top, Top.level + 1) \in Frames
    BY <1>3, TopFrame, NewFrame DEF TryNext
  <2> QED BY <1>0, <1>b, <1>3, <2>1, TopFrame, PushFrame DEF TryNext
<1>4. CASE Loop
  <2>1. [Top EXCEPT !.looping = TRUE] \in Frames
    BY <1>4, TopFrame DEF Loop, Frames, Ranges
  <2> QED BY <1>0, <1>b, <1>4, <2>1, TopFrame, PushFrame DEF Loop
<1>5. CASE NextPart
  <2>1. /\ Top \in Frames /\ Tail(frames) \in Seq(Frames)
        /\ Top.from \in Int /\ Top.to \in Int /\ Top.level \in Int
    BY <1>5, TopFrame DEF NextPart
  <2>2. PICK c \in Top.from..Top.to :
          LET part == Part(Top, c)
              rest == <<[Top EXCEPT !.from = c + 1]>> \o Tail(frames)
          IN  IF Count(part) > Size
              THEN frames' = <<Frame(part, Top.level + 1)>> \o rest /\ pieces' = pieces
              ELSE /\ frames' = rest
                   /\ pieces' = IF Count(part) = 0 THEN pieces ELSE Append(pieces, Words(part))
    BY <1>5 DEF NextPart
  <2> DEFINE part == Part(Top, c)
             next == [Top EXCEPT !.from = c + 1]
  <2>3. part.from \in Int /\ part.to \in Int /\ part.from <= part.to + 1
    BY <2>1 DEF Part
  <2>4. next \in Frames
    <3>0. Top \in Ranges
      BY <2>1 DEF Frames
    <3>1. next = [from |-> c + 1, to |-> Top.to, level |-> Top.level, looping |-> Top.looping]
      BY <3>0 DEF Ranges
    <3>2. c + 1 \in Int /\ c + 1 <= Top.to + 1 /\ Top.looping \in BOOLEAN
      BY <2>1 DEF Frames, Ranges
    <3> HIDE DEF next
    <3> QED BY <2>1, <3>1, <3>2 DEF Frames, Ranges
  <2>5. Frame(part, Top.level + 1) \in Frames
    BY <2>1, <2>3, NewFrame
  <2> HIDE DEF part, next
  <2>6. <<next>> \o Tail(frames) \in Seq(Frames)
    BY <2>1, <2>4, PushFrame
  <2>7. <<Frame(part, Top.level + 1)>> \o (<<next>> \o Tail(frames)) \in Seq(Frames)
    BY <2>5, <2>6, PushFrame
  <2>8. ~(Count(part) > Size) => Append(pieces, Words(part)) \in Seq(UpTo(Size))
    <3>1. SUFFICES ASSUME ~(Count(part) > Size) PROVE Append(pieces, Words(part)) \in Seq(UpTo(Size))
      OBVIOUS
    <3>2. Count(part) <= Size /\ Size \in Int
      BY <2>3, <3>1, Sizes DEF Count
    <3>3. Words(part) \in UpTo(Size)
      BY <2>3, <3>2, WordsFit
    <3> QED BY <1>b, <3>3
  <2>9. phase' = "splitting"
    BY <1>0, <1>5 DEF NextPart
  <2> QED BY <1>b, <2>2, <2>6, <2>7, <2>8, <2>9 DEF part, next
<1>6. CASE Return
  BY <1>0, <1>b, <1>6, TopFrame DEF Return
<1>7. CASE SplitDone
  BY <1>b, <1>7, UpToGrows, Limits, Sizes DEF SplitDone, TypeOK
<1> QED BY <1>2, <1>3, <1>4, <1>5, <1>6, <1>7 DEF SplitStep

\* The merge: a piece is put behind at most the overlap.
LEMMA MergeKeeps == IInv /\ (MergePiece \/ MergeDone) => IInv'
<1> SUFFICES ASSUME IInv, MergePiece \/ MergeDone PROVE IInv'
  OBVIOUS
<1> USE DEF IInv
<1>1. UNCHANGED <<text, semantic, frames, groups, nested>> /\ phase = "merging"
  BY DEF MergePiece, MergeDone
<1>2. Size' = Size /\ Overlap' = Overlap /\ Bound' = Bound /\ Merged' = Merged
  BY <1>1, SameSizes
<1>3. /\ pieces \in Seq(UpTo(Merged)) /\ current \in UpTo(Merged + Overlap)
      /\ chunks \in Seq(UpTo(Merged + Overlap))
      /\ nested => raw \in Seq(UpTo(Size + Overlap))
  BY <1>1 DEF Lengths
<1>4. TypeOK'
  BY <1>1 DEF TypeOK, Phases, MergePiece, MergeDone
<1>5. Merged \in Nat /\ Overlap \in Nat /\ Size <= Merged /\ Merged + Overlap \in Nat
  BY Limits, Sizes
<1>6. Append(chunks, current) \in Seq(UpTo(Merged + Overlap))
  BY <1>3
<1>7. CASE MergePiece
  <2>1. Head(pieces) \in UpTo(Merged) /\ Tail(pieces) \in Seq(UpTo(Merged))
    BY <1>3, <1>7, HeadTailProperties DEF MergePiece
  <2>2. current \in Seq(Int)
    BY <1>3 DEF UpTo
  <2>3. current' \in UpTo(Merged + Overlap)
    <3>1. CASE Overflows(Head(pieces))
      <4>0. Carried(current) \in UpTo(Overlap)
        BY <2>2, CarriedFits
      <4>a. Merged \in Int /\ Overlap \in Int
        BY <1>5
      <4>b. \A v \in UpTo(Overlap), w \in UpTo(Merged) : v \o w \in UpTo(Overlap + Merged)
        BY <4>a, UpToJoin
      <4>1. Carried(current) \o Head(pieces) \in UpTo(Overlap + Merged)
        BY <2>1, <4>0, <4>b, Zenon
      <4>2. Overlap + Merged = Merged + Overlap
        BY <1>5
      <4> QED BY <1>7, <3>1, <4>1, <4>2 DEF MergePiece
    <3>2. CASE ~Overflows(Head(pieces)) /\ current # <<>>
      <4>1. Len(current) + Len(Head(pieces)) <= Merged + Overlap
        <5>1. ~(Len(current) + Len(Head(pieces)) > Size)
          BY <3>2 DEF Overflows
        <5>2. Len(current) \in Nat /\ Len(Head(pieces)) \in Nat /\ Size \in Nat
          BY <2>1, <2>2, LenProperties, Sizes DEF UpTo
        <5> QED BY <1>5, <5>1, <5>2
      <4>2. \A k \in Int : Len(current) + Len(Head(pieces)) <= k =>
              current \o Head(pieces) \in UpTo(k)
        <5>1. Merged \in Int /\ Merged + Overlap \in Int
          BY <1>5
        <5>2. \A v \in UpTo(Merged + Overlap), w \in UpTo(Merged) :
                \A k \in Int : Len(v) + Len(w) <= k => v \o w \in UpTo(k)
          BY <5>1, UpToJoin
        <5> QED BY <1>3, <2>1, <5>2, Zenon
      <4>3. current \o Head(pieces) \in UpTo(Merged + Overlap)
        BY <1>5, <4>1, <4>2
      <4> QED BY <1>7, <3>2, <4>3 DEF MergePiece
    <3>3. CASE ~Overflows(Head(pieces)) /\ current = <<>>
      <4>1. current \o Head(pieces) = Head(pieces)
        BY <2>1, <3>3, ConcatEmptySeq DEF UpTo
      <4>2. Head(pieces) \in UpTo(Merged + Overlap)
        BY <1>5, <2>1, UpToGrows
      <4> QED BY <1>7, <3>3, <4>1, <4>2 DEF MergePiece
    <3> QED BY <3>1, <3>2, <3>3
  <2>4. chunks' \in Seq(UpTo(Merged + Overlap))
    BY <1>3, <1>6, <1>7 DEF MergePiece
  <2>5. phase' = "merging" /\ pieces' = Tail(pieces) /\ raw' = raw
    BY <1>1, <1>7 DEF MergePiece
  <2>6. Lengths'
    BY <1>1, <1>2, <1>3, <2>1, <2>3, <2>4, <2>5 DEF Lengths, UpTo
  <2> QED BY <1>4, <2>6
<1>8. CASE MergeDone
  <2> DEFINE all == IF current = <<>> THEN chunks ELSE Append(chunks, current)
  <2>1. all \in Seq(UpTo(Merged + Overlap))
    BY <1>3, <1>6
  <2>2. /\ current' = <<>>
        /\ nested => raw' = raw \o all /\ chunks' = <<>> /\ phase' = "grouping"
        /\ ~nested => chunks' = all /\ phase' = "done"
    BY <1>8 DEF MergeDone
  <2> HIDE DEF all
  <2>3. CASE nested
    <3>1. raw \o all \in Seq(UpTo(Size + Overlap))
      BY <1>3, <2>1, <2>3, Limits, ConcatProperties
    <3>2. Lengths'
      BY <1>1, <1>2, <2>2, <2>3, <3>1 DEF Lengths, UpTo
    <3> QED BY <1>4, <3>2
  <2>4. CASE ~nested
    <3>1. all \in Seq(UpTo(Bound))
      BY <2>1, <2>4, Limits
    <3>2. Lengths'
      BY <1>1, <1>2, <2>2, <2>4, <3>1 DEF Lengths, UpTo
    <3> QED BY <1>4, <3>2
  <2> QED BY <2>3, <2>4
<1> QED BY <1>7, <1>8

\* The start of either chunker, and the groups.
LEMMA GroupKeeps ==
  IInv /\ (Blank \/ ChunkText \/ Embed \/ FallBack \/ Group \/ TakeGroup \/ MergeRaw) => IInv'
<1> SUFFICES ASSUME IInv, Blank \/ ChunkText \/ Embed \/ FallBack \/ Group \/ TakeGroup \/ MergeRaw
             PROVE  IInv'
  OBVIOUS
<1> USE DEF IInv
<1>0. /\ Size \in Nat /\ Overlap \in Nat /\ Bound \in Nat /\ Size + Overlap \in Nat
      /\ <<>> \in Seq(UpTo(Size + Overlap)) /\ <<>> \in Seq(UpTo(Bound)) /\ <<>> \in Seq(UpTo(Size))
  BY Sizes, Limits, NoWords
<1>1. CASE Blank
  <2>1. TypeOK'
    BY <1>1 DEF Blank, TypeOK, Phases
  <2>2. Bound' = Bound
    BY <1>1, SameSizes DEF Blank
  <2>3. Lengths'
    BY <1>0, <1>1, <2>2 DEF Blank, Lengths
  <2> QED BY <2>1, <2>3
<1>2. CASE ChunkText
  <2>1. /\ frames' \in Seq(Frames) /\ phase' = "splitting"
        /\ current' = <<>> /\ chunks' = <<>> /\ pieces' = <<>>
    BY <1>2, TextRange, SplitStarts DEF ChunkText
  <2>2. TypeOK'
    BY <1>2, <2>1 DEF ChunkText, TypeOK, Phases
  <2>3. Size' = Size /\ ~nested'
    BY <1>2, SameSizes DEF ChunkText, Lengths
  <2>4. Lengths'
    BY <1>0, <2>1, <2>3 DEF Lengths, UpTo
  <2> QED BY <2>2, <2>4
<1>3. CASE Embed
  BY <1>3 DEF Embed, TypeOK, Lengths, Phases
<1>4. CASE FallBack
  <2>1. /\ frames' \in Seq(Frames) /\ phase' = "splitting"
        /\ current' = <<>> /\ chunks' = <<>> /\ pieces' = <<>>
    BY <1>4, TextRange, SplitStarts DEF FallBack
  <2>2. TypeOK' /\ ~nested'
    BY <1>4, <2>1 DEF FallBack, TypeOK, Lengths, Phases
  <2>3. <<>> \in Seq(UpTo(Size))'
    BY EmptySeq
  <2>4. Lengths'
    BY <2>1, <2>2, <2>3 DEF Lengths
  <2> QED BY <2>2, <2>4
<1>5. CASE Group
  <2>0. PICK cuts \in SUBSET text.ends : groups' = [from |-> 1, breaks |-> cuts]
    BY <1>5 DEF Group
  <2>1. TypeOK'
    <3>1. groups' \in [from : Int, breaks : SUBSET text'.ends]
      BY <1>5, <2>0 DEF Group
    <3>2. semantic
      BY <1>5 DEF Group, Lengths
    <3> QED BY <1>5, <3>1, <3>2 DEF Group, TypeOK, Phases
  <2>2. Size' = Size /\ Overlap' = Overlap
    BY <1>5, SameSizes DEF Group
  <2>3. Lengths'
    BY <1>0, <1>5, <2>2 DEF Group, Lengths, UpTo
  <2> QED BY <2>1, <2>3
<1>6. CASE TakeGroup
  <2>1. PICK c \in groups.from..text.words :
          LET group == [from |-> groups.from, to |-> c] IN
          /\ groups' = [groups EXCEPT !.from = c + 1]
          /\ IF Count(group) > Size
             THEN Split(group) /\ raw' = raw
             ELSE /\ raw' = Append(raw, Words(group))
                  /\ UNCHANGED <<phase, frames, pieces, current, chunks>>
    BY <1>6 DEF TakeGroup
  <2> DEFINE group == [from |-> groups.from, to |-> c]
  <2>2. /\ phase = "grouping" /\ UNCHANGED <<text, semantic, nested>> /\ groups.from \in Int
        /\ text.words \in Nat
    BY <1>6, TextRange DEF TakeGroup, TypeOK
  <2>3. group.from \in Int /\ group.to \in Int /\ group.from <= group.to + 1
    BY <2>2
  <2>4. Size' = Size /\ Overlap' = Overlap
    BY <2>2, SameSizes
  <2>5. /\ nested /\ current = <<>> /\ chunks = <<>>
        /\ raw \in Seq(UpTo(Size + Overlap))
    BY <2>2 DEF Lengths
  <2>6. groups' \in [from : Int, breaks : SUBSET text'.ends]
    BY <2>1, <2>2 DEF TypeOK
  <2>7. CASE Count(group) > Size
    <3>1. Split(group) /\ raw' = raw
      BY <2>1, <2>7
    <3> HIDE DEF group
    <3>2. /\ frames' \in Seq(Frames) /\ phase' = "splitting"
          /\ current' = <<>> /\ chunks' = <<>> /\ pieces' = <<>>
      BY <2>3, <3>1, SplitStarts
    <3>3. TypeOK'
      BY <2>2, <2>6, <3>2 DEF TypeOK, Phases
    <3>4. Lengths'
      BY <1>0, <2>2, <2>4, <2>5, <3>1, <3>2 DEF Lengths, UpTo
    <3> QED BY <3>3, <3>4
  <2>8. CASE ~(Count(group) > Size)
    <3>1. raw' = Append(raw, Words(group)) /\ UNCHANGED <<phase, frames, pieces, current, chunks>>
      BY <2>1, <2>8
    <3>2. Count(group) <= Size + Overlap
      BY <1>0, <2>2, <2>3, <2>8 DEF Count
    <3> HIDE DEF group
    <3>3. Words(group) \in UpTo(Size + Overlap)
      BY <1>0, <2>3, <3>2, WordsFit
    <3>4. Append(raw, Words(group)) \in Seq(UpTo(Size + Overlap))
      BY <2>5, <3>3
    <3>5. TypeOK'
      BY <2>2, <2>6, <3>1 DEF TypeOK
    <3>6. Lengths'
      BY <2>2, <2>4, <2>5, <3>1, <3>4 DEF Lengths, UpTo
    <3> QED BY <3>5, <3>6
  <2> QED BY <2>7, <2>8
<1>7. CASE MergeRaw
  <2>1. TypeOK'
    BY <1>7 DEF MergeRaw, TypeOK, Phases
  <2>2. Size' = Size /\ Overlap' = Overlap /\ Merged' = Size + Overlap
    BY <1>7, SameSizes DEF MergeRaw, Merged, Lengths, TypeOK
  <2>3. raw \in Seq(UpTo(Size + Overlap)) /\ current = <<>> /\ chunks = <<>>
    BY <1>7 DEF MergeRaw, Lengths
  <2>4. <<>> \in UpTo(Size + Overlap + Overlap) /\ <<>> \in Seq(UpTo(Size + Overlap + Overlap))
    BY <1>0, NoWords
  <2>5. Lengths'
    BY <1>7, <2>2, <2>3, <2>4 DEF MergeRaw, Lengths, UpTo
  <2> QED BY <2>1, <2>5
<1> QED BY <1>1, <1>2, <1>3, <1>4, <1>5, <1>6, <1>7

\* A step that changes nothing.
LEMMA StutterKeeps == IInv /\ UNCHANGED vars => IInv'
BY DEF IInv, TypeOK, Lengths, UpTo, Merged, Bound, Size, Overlap, vars
-----------------------------------------------------------------------------
\* The inductive invariant of the chunker: how long pieces, chunks and the
\* chunks of groups can be at every moment.
THEOREM Invariance == Spec => []IInv
<1>1. IInv /\ [Next]_vars => IInv'
  BY SplitKeeps, MergeKeeps, GroupKeeps, StutterKeeps DEF Next
<1> QED BY Initially, <1>1, PTL DEF Spec

\* For any text, sizes and overlaps, no chunk exceeds the limit by more than
\* the overlap, or twice that if the semantic chunker made it.
THEOREM BoundHolds == Spec => []ChunksBounded
<1>1. IInv => ChunksBounded
  <2> SUFFICES ASSUME IInv, NEW k \in DOMAIN chunks PROVE Len(chunks[k]) <= Bound
    BY DEF ChunksBounded
  <2>1. Merged \in Nat /\ Overlap \in Nat /\ Bound \in Nat /\ Merged + Overlap <= Bound
    BY Limits, Sizes DEF IInv
  <2>2. chunks \in Seq(UpTo(Bound))
    <3>1. chunks = <<>> \/ chunks \in Seq(UpTo(Merged + Overlap)) \/ chunks \in Seq(UpTo(Bound))
      BY DEF IInv, TypeOK, Lengths, Phases
    <3> QED BY <2>1, <3>1, NoWords, UpToGrows
  <2>3. chunks[k] \in UpTo(Bound)
    BY <2>2, ElementOfSeq, LenProperties
  <2> QED BY <2>3 DEF UpTo
<1> QED BY <1>1, Invariance, PTL
-----------------------------------------------------------------------------
(* Which words a sequence has, and in which order *)

WordsOf(ws) == {ws[i] : i \in DOMAIN ws}
Told(cs)    == UNION {WordsOf(cs[k]) : k \in DOMAIN cs}

\* Once told has been told, no word of ws comes before an earlier one of the text.
InTurn(ws, told) ==
  \A i \in DOMAIN ws : \A w \in 1..(ws[i] - 1) : w \in told \/ \E h \in 1..(i - 1) : ws[h] = w

AllInTurn(cs, told) ==
  \A k \in DOMAIN cs : InTurn(cs[k], told \cup UNION {WordsOf(cs[j]) : j \in 1..(k - 1)})

\* The elements of a sequence and of one appended to it.
LEMMA Joined ==
  ASSUME NEW S, NEW u \in Seq(S), NEW v \in Seq(S)
  PROVE  /\ Len(u) \in Nat /\ DOMAIN u = 1..Len(u) /\ Len(v) \in Nat /\ DOMAIN v = 1..Len(v)
         /\ u \o v \in Seq(S) /\ Len(u \o v) = Len(u) + Len(v) /\ DOMAIN (u \o v) = 1..(Len(u) + Len(v))
         /\ \A i \in 1..Len(u) : (u \o v)[i] = u[i]
         /\ \A i \in 1..Len(v) : (u \o v)[Len(u) + i] = v[i]
<1>1. /\ Len(u) \in Nat /\ DOMAIN u = 1..Len(u) /\ Len(v) \in Nat /\ DOMAIN v = 1..Len(v)
  BY LenProperties
<1>2. u \o v \in Seq(S) /\ Len(u \o v) = Len(u) + Len(v)
  BY ConcatProperties
<1>3. DOMAIN (u \o v) = 1..(Len(u) + Len(v))
  BY <1>2, LenProperties
<1>4. \A i \in 1..Len(u) : (u \o v)[i] = u[i]
  BY <1>1, ConcatProperties
<1>5. \A i \in 1..Len(v) : (u \o v)[Len(u) + i] = v[i]
  <2> TAKE i \in 1..Len(v)
  <2>1. Len(u) + i \in 1..(Len(u) + Len(v)) /\ ~(Len(u) + i <= Len(u)) /\ Len(u) + i - Len(u) = i
    BY <1>1
  <2> QED BY <2>1, ConcatProperties
<1> QED BY <1>1, <1>2, <1>3, <1>4, <1>5

\* What holds of all elements of two sequences, and of no others.
LEMMA JoinedDomain ==
  ASSUME NEW S, NEW u \in Seq(S), NEW v \in Seq(S), NEW i \in DOMAIN (u \o v)
  PROVE  \/ i \in DOMAIN u /\ (u \o v)[i] = u[i]
         \/ \E j \in DOMAIN v : i = Len(u) + j /\ (u \o v)[i] = v[j]
<1>1. i \in 1..(Len(u) + Len(v)) /\ Len(u) \in Nat /\ Len(v) \in Nat
  BY Joined
<1>2. CASE i <= Len(u)
  BY <1>1, <1>2, Joined
<1>3. CASE ~(i <= Len(u))
  <2>1. i - Len(u) \in 1..Len(v) /\ i = Len(u) + (i - Len(u))
    BY <1>1, <1>3
  <2>2. (u \o v)[Len(u) + (i - Len(u))] = v[i - Len(u)]
    BY <2>1, Joined
  <2> QED BY <2>1, <2>2, Joined
<1> QED BY <1>2, <1>3

\* The words of a concatenation.
LEMMA WordsJoin ==
  ASSUME NEW u \in Seq(Int), NEW v \in Seq(Int)
  PROVE  WordsOf(u \o v) = WordsOf(u) \cup WordsOf(v)
<1>1. WordsOf(u \o v) \subseteq WordsOf(u) \cup WordsOf(v)
  BY JoinedDomain DEF WordsOf
<1>2. WordsOf(u) \subseteq WordsOf(u \o v)
  <2> SUFFICES ASSUME NEW i \in DOMAIN u PROVE u[i] \in WordsOf(u \o v)
    BY DEF WordsOf
  <2>1. i \in DOMAIN (u \o v) /\ (u \o v)[i] = u[i]
    BY Joined
  <2> QED BY <2>1 DEF WordsOf
<1>3. WordsOf(v) \subseteq WordsOf(u \o v)
  <2> SUFFICES ASSUME NEW i \in DOMAIN v PROVE v[i] \in WordsOf(u \o v)
    BY DEF WordsOf
  <2>1. Len(u) + i \in DOMAIN (u \o v) /\ (u \o v)[Len(u) + i] = v[i]
    BY Joined
  <2> QED BY <2>1 DEF WordsOf
<1> QED BY <1>1, <1>2, <1>3

\* What several pieces tell, and several more.
LEMMA ToldJoin ==
  ASSUME NEW u \in Seq(Seq(Int)), NEW v \in Seq(Seq(Int))
  PROVE  Told(u \o v) = Told(u) \cup Told(v)
<1>1. Told(u \o v) \subseteq Told(u) \cup Told(v)
  BY JoinedDomain DEF Told
<1>2. Told(u) \subseteq Told(u \o v)
  <2> SUFFICES ASSUME NEW k \in DOMAIN u PROVE WordsOf(u[k]) \subseteq Told(u \o v)
    BY DEF Told
  <2>1. k \in DOMAIN (u \o v) /\ (u \o v)[k] = u[k]
    BY Joined
  <2> QED BY <2>1 DEF Told
<1>3. Told(v) \subseteq Told(u \o v)
  <2> SUFFICES ASSUME NEW k \in DOMAIN v PROVE WordsOf(v[k]) \subseteq Told(u \o v)
    BY DEF Told
  <2>1. Len(u) + k \in DOMAIN (u \o v) /\ (u \o v)[Len(u) + k] = v[k]
    BY Joined
  <2> QED BY <2>1 DEF Told
<1> QED BY <1>1, <1>2, <1>3

\* A single piece, as a sequence of pieces.
LEMMA OnePiece ==
  ASSUME NEW ws \in Seq(Int), NEW cs \in Seq(Seq(Int))
  PROVE  /\ <<ws>> \in Seq(Seq(Int)) /\ Told(<<ws>>) = WordsOf(ws) /\ Append(cs, ws) = cs \o <<ws>>
         /\ \A told : AllInTurn(<<ws>>, told) <=> InTurn(ws, told)
<1>1. <<ws>> \in Seq(Seq(Int)) /\ DOMAIN <<ws>> = {1} /\ <<ws>>[1] = ws
  OBVIOUS
<1>2. Append(cs, ws) = cs \o <<ws>>
  OBVIOUS
<1>3. Told(<<ws>>) = WordsOf(ws)
  BY <1>1 DEF Told
<1>4. ASSUME NEW told PROVE AllInTurn(<<ws>>, told) <=> InTurn(ws, told)
  <2>1. told \cup UNION {WordsOf(<<ws>>[j]) : j \in 1..(1 - 1)} = told
    OBVIOUS
  <2> QED BY <1>1, <2>1 DEF AllInTurn
<1> QED BY <1>1, <1>2, <1>3, <1>4

\* More may have been told before.
LEMMA TurnsStay ==
  ASSUME NEW told, NEW more, told \subseteq more
  PROVE  /\ \A ws : InTurn(ws, told) => InTurn(ws, more)
         /\ \A cs : AllInTurn(cs, told) => AllInTurn(cs, more)
<1>1. \A s, t : s \subseteq t => \A ws : InTurn(ws, s) => InTurn(ws, t)
  BY DEF InTurn
<1>2. ASSUME NEW cs, AllInTurn(cs, told) PROVE AllInTurn(cs, more)
  <2> SUFFICES ASSUME NEW k \in DOMAIN cs
               PROVE  InTurn(cs[k], more \cup UNION {WordsOf(cs[j]) : j \in 1..(k - 1)})
    BY DEF AllInTurn
  <2> DEFINE before == UNION {WordsOf(cs[j]) : j \in 1..(k - 1)}
  <2>1. InTurn(cs[k], told \cup before)
    BY <1>2 DEF AllInTurn
  <2> HIDE DEF before
  <2>2. told \cup before \subseteq more \cup before
    OBVIOUS
  <2>3. InTurn(cs[k], more \cup before)
    BY <1>1, <2>1, <2>2
  <2> QED BY <2>3 DEF before
<1> QED BY <1>1, <1>2

\* One after the other, where the second follows what the first has told.
LEMMA TurnsJoin ==
  ASSUME NEW u \in Seq(Int), NEW v \in Seq(Int), NEW told,
         InTurn(u, told), InTurn(v, told \cup WordsOf(u))
  PROVE  InTurn(u \o v, told)
<1> SUFFICES ASSUME NEW i \in DOMAIN (u \o v), NEW w \in 1..((u \o v)[i] - 1), w \notin told
             PROVE  \E h \in 1..(i - 1) : (u \o v)[h] = w
  BY DEF InTurn
<1>0. Len(u) \in Nat /\ Len(v) \in Nat /\ DOMAIN u = 1..Len(u) /\ DOMAIN v = 1..Len(v)
  BY Joined
<1>1. CASE i \in DOMAIN u /\ (u \o v)[i] = u[i]
  <2>1. PICK h \in 1..(i - 1) : u[h] = w
    BY <1>1 DEF InTurn
  <2>2. h \in 1..Len(u)
    BY <1>0, <1>1
  <2> QED BY <2>1, <2>2, Joined
<1>2. ASSUME NEW j \in DOMAIN v, i = Len(u) + j, (u \o v)[i] = v[j]
      PROVE  \E h \in 1..(i - 1) : (u \o v)[h] = w
  <2>1. w \in WordsOf(u) \/ \E h \in 1..(j - 1) : v[h] = w
    BY <1>2 DEF InTurn
  <2>2. CASE w \in WordsOf(u)
    <3>1. PICK h \in 1..Len(u) : u[h] = w
      BY <1>0, <2>2 DEF WordsOf
    <3>2. h \in 1..(i - 1)
      BY <1>0, <1>2
    <3> QED BY <3>1, <3>2, Joined
  <2>3. ASSUME NEW h \in 1..(j - 1), v[h] = w PROVE \E g \in 1..(i - 1) : (u \o v)[g] = w
    <3>1. h \in 1..Len(v) /\ Len(u) + h \in 1..(i - 1)
      BY <1>0, <1>2
    <3>2. (u \o v)[Len(u) + h] = v[h]
      BY <3>1, Joined
    <3> QED BY <2>3, <3>1, <3>2
  <2> QED BY <2>1, <2>2, <2>3
<1> QED BY <1>1, <1>2, JoinedDomain

\* The same of pieces.
LEMMA AllTurnsJoin ==
  ASSUME NEW u \in Seq(Seq(Int)), NEW v \in Seq(Seq(Int)), NEW told,
         AllInTurn(u, told), AllInTurn(v, told \cup Told(u))
  PROVE  AllInTurn(u \o v, told)
<1> DEFINE Before(cs, k) == UNION {WordsOf(cs[j]) : j \in 1..(k - 1)}
<1> SUFFICES ASSUME NEW i \in DOMAIN (u \o v) PROVE InTurn((u \o v)[i], told \cup Before(u \o v, i))
  BY DEF AllInTurn
<1>0. Len(u) \in Nat /\ Len(v) \in Nat /\ DOMAIN u = 1..Len(u) /\ DOMAIN v = 1..Len(v)
  BY Joined
<1>1. CASE i \in DOMAIN u /\ (u \o v)[i] = u[i]
  <2>1. InTurn(u[i], told \cup Before(u, i))
    BY <1>1 DEF AllInTurn
  <2>2. \A j \in 1..(i - 1) : (u \o v)[j] = u[j]
    BY <1>0, <1>1, Joined
  <2>3. Before(u \o v, i) = Before(u, i)
    BY <2>2
  <2> QED BY <1>1, <2>1, <2>3
<1>2. ASSUME NEW j \in DOMAIN v, i = Len(u) + j, (u \o v)[i] = v[j]
      PROVE  InTurn((u \o v)[i], told \cup Before(u \o v, i))
  <2>1. InTurn(v[j], (told \cup Told(u)) \cup Before(v, j))
    BY DEF AllInTurn
  <2>2. Told(u) \subseteq Before(u \o v, i)
    <3> SUFFICES ASSUME NEW k \in DOMAIN u PROVE WordsOf(u[k]) \subseteq Before(u \o v, i)
      BY DEF Told
    <3>1. k \in 1..(i - 1) /\ (u \o v)[k] = u[k]
      BY <1>0, <1>2, Joined
    <3> QED BY <3>1
  <2>3. Before(v, j) \subseteq Before(u \o v, i)
    <3> SUFFICES ASSUME NEW k \in 1..(j - 1) PROVE WordsOf(v[k]) \subseteq Before(u \o v, i)
      OBVIOUS
    <3>1. k \in 1..Len(v) /\ Len(u) + k \in 1..(i - 1)
      BY <1>0, <1>2
    <3>2. (u \o v)[Len(u) + k] = v[k]
      BY <3>1, Joined
    <3> QED BY <3>1, <3>2
  <2> HIDE DEF Before
  <2>4. (told \cup Told(u)) \cup Before(v, j) \subseteq told \cup Before(u \o v, i)
    BY <2>2, <2>3
  <2>5. \A s, t : s \subseteq t => \A ws : InTurn(ws, s) => InTurn(ws, t)
    BY TurnsStay
  <2>6. InTurn(v[j], told \cup Before(u \o v, i))
    BY <2>1, <2>4, <2>5
  <2> QED BY <1>2, <2>6
<1> QED BY <1>1, <1>2, JoinedDomain

\* The first piece, and those after it.
LEMMA FirstPiece ==
  ASSUME NEW cs \in Seq(Seq(Int)), cs # <<>>
  PROVE  /\ Head(cs) \in Seq(Int) /\ Tail(cs) \in Seq(Seq(Int)) /\ cs = <<Head(cs)>> \o Tail(cs)
         /\ Told(cs) = WordsOf(Head(cs)) \cup Told(Tail(cs))
         /\ \A told : AllInTurn(cs, told) =>
              InTurn(Head(cs), told) /\ AllInTurn(Tail(cs), told \cup WordsOf(Head(cs)))
<1>1. /\ Head(cs) \in Seq(Int) /\ Tail(cs) \in Seq(Seq(Int)) /\ Head(cs) = cs[1]
      /\ Len(cs) \in Nat \ {0} /\ DOMAIN cs = 1..Len(cs)
      /\ Len(Tail(cs)) = Len(cs) - 1 /\ DOMAIN Tail(cs) = 1..(Len(cs) - 1)
      /\ \A i \in 1..(Len(cs) - 1) : Tail(cs)[i] = cs[i + 1]
  <2>1. Head(cs) \in Seq(Int) /\ Tail(cs) \in Seq(Seq(Int)) /\ Len(Tail(cs)) = Len(cs) - 1
    BY HeadTailProperties
  <2>2. Len(cs) \in Nat \ {0} /\ DOMAIN cs = 1..Len(cs)
    BY LenProperties, EmptySeq
  <2>3. DOMAIN Tail(cs) = 1..(Len(cs) - 1)
    BY <2>1, LenProperties
  <2>4. \A i \in 1..(Len(cs) - 1) : Tail(cs)[i] = cs[i + 1]
    BY <2>1, HeadTailProperties
  <2>5. Head(cs) = cs[1]
    OBVIOUS
  <2> QED BY <2>1, <2>2, <2>3, <2>4, <2>5
<1>2. cs = <<Head(cs)>> \o Tail(cs)
  BY HeadTailProperties
<1>3. Told(cs) = WordsOf(Head(cs)) \cup Told(Tail(cs))
  <2>1. Told(cs) = Told(<<Head(cs)>>) \cup Told(Tail(cs))
    <3>1. PICK h \in Seq(Int), t \in Seq(Seq(Int)) : h = Head(cs) /\ t = Tail(cs)
      BY <1>1
    <3>2. Told(<<h>> \o t) = Told(<<h>>) \cup Told(t)
      BY ToldJoin, OnePiece
    <3> QED BY <1>2, <3>1, <3>2
  <2> QED BY <1>1, <2>1, OnePiece
<1>4. ASSUME NEW told, AllInTurn(cs, told)
      PROVE  InTurn(Head(cs), told) /\ AllInTurn(Tail(cs), told \cup WordsOf(Head(cs)))
  <2> DEFINE Before(k) == UNION {WordsOf(cs[j]) : j \in 1..(k - 1)}
  <2>1. \A k \in 1..Len(cs) : InTurn(cs[k], told \cup Before(k))
    BY <1>1, <1>4 DEF AllInTurn
  <2>2. InTurn(Head(cs), told)
    <3>1. told \cup Before(1) = told
      OBVIOUS
    <3> QED BY <1>1, <2>1, <3>1
  <2>3. ASSUME NEW k \in 1..(Len(cs) - 1)
        PROVE  InTurn(Tail(cs)[k], (told \cup WordsOf(Head(cs))) \cup UNION {WordsOf(Tail(cs)[j]) : j \in 1..(k - 1)})
    <3> DEFINE later == UNION {WordsOf(Tail(cs)[j]) : j \in 1..(k - 1)}
    <3>1. Before(k + 1) \subseteq WordsOf(Head(cs)) \cup later
      <4>0. (k + 1) - 1 = k
        OBVIOUS
      <4> SUFFICES ASSUME NEW j \in 1..k PROVE WordsOf(cs[j]) \subseteq WordsOf(Head(cs)) \cup later
        BY <4>0
      <4>1. CASE j = 1
        BY <1>1, <4>1
      <4>2. CASE j # 1
        <5>1. j - 1 \in 1..(k - 1) /\ j - 1 \in 1..(Len(cs) - 1) /\ (j - 1) + 1 = j
          BY <1>1, <4>2
        <5>2. Tail(cs)[j - 1] = cs[j]
          BY <1>1, <5>1
        <5> QED BY <5>1, <5>2
      <4> QED BY <4>1, <4>2
    <3>2. k + 1 \in 1..Len(cs) /\ Tail(cs)[k] = cs[k + 1]
      BY <1>1
    <3>3. InTurn(cs[k + 1], told \cup Before(k + 1))
      BY <2>1, <3>2
    <3> HIDE DEF Before, later
    <3>4. told \cup Before(k + 1) \subseteq (told \cup WordsOf(Head(cs))) \cup later
      BY <3>1
    <3>5. InTurn(Tail(cs)[k], (told \cup WordsOf(Head(cs))) \cup later)
      BY <3>2, <3>3, <3>4, TurnsStay
    <3> QED BY <3>5 DEF later
  <2> QED BY <1>1, <2>2, <2>3 DEF AllInTurn
<1> QED BY <1>1, <1>2, <1>3, <1>4

\* The words of a range, one after the other.
LEMMA RangeWords ==
  ASSUME NEW r, r.from \in Int, r.to \in Int, r.from <= r.to + 1
  PROVE  /\ Words(r) \in Seq(Int) /\ Len(Words(r)) = Count(r) /\ Count(r) \in Nat
         /\ DOMAIN Words(r) = 1..Count(r)
         /\ \A i \in 1..Count(r) : Words(r)[i] = r.from + i - 1
         /\ WordsOf(Words(r)) = r.from..r.to
         /\ \A told : 1..(r.from - 1) \subseteq told => InTurn(Words(r), told)
<1>1. Count(r) \in Nat /\ Count(r) = r.to - r.from + 1
  BY DEF Count
<1>2. Words(r) \in [1..Count(r) -> Int] /\ \A i \in 1..Count(r) : Words(r)[i] = r.from + i - 1
  BY <1>1 DEF Words
<1>3. Words(r) \in Seq(Int)
  BY <1>1, <1>2, SeqDef
<1>4. Len(Words(r)) = Count(r) /\ DOMAIN Words(r) = 1..Count(r)
  BY <1>1, <1>2, <1>3, LenProperties
<1>5. WordsOf(Words(r)) = r.from..r.to
  <2>1. ASSUME NEW w \in r.from..r.to PROVE w \in WordsOf(Words(r))
    <3>1. w - r.from + 1 \in 1..Count(r) /\ r.from + (w - r.from + 1) - 1 = w
      BY <1>1
    <3> QED BY <1>2, <1>4, <3>1 DEF WordsOf
  <2>2. ASSUME NEW i \in 1..Count(r) PROVE Words(r)[i] \in r.from..r.to
    BY <1>1, <1>2
  <2> QED BY <1>4, <2>1, <2>2 DEF WordsOf
<1>6. ASSUME NEW told, 1..(r.from - 1) \subseteq told PROVE InTurn(Words(r), told)
  <2> SUFFICES ASSUME NEW i \in 1..Count(r), NEW w \in 1..(Words(r)[i] - 1), w \notin told
               PROVE  \E h \in 1..(i - 1) : Words(r)[h] = w
    BY <1>4 DEF InTurn
  <2>0. w \in 1..(r.from + i - 2)
    <3>1. Words(r)[i] = r.from + i - 1 /\ i \in Int
      BY <1>2
    <3> QED BY <3>1
  <2>1. ~(w \in 1..(r.from - 1))
    BY <1>6
  <2>2. w - r.from + 1 \in 1..(i - 1) /\ w - r.from + 1 \in 1..Count(r) /\ r.from + (w - r.from + 1) - 1 = w
    BY <1>1, <2>0, <2>1
  <2> QED BY <1>2, <2>2
<1> QED BY <1>1, <1>2, <1>3, <1>4, <1>5, <1>6

\* The words that two chunks have in common.
Shared(chunk) == IF Len(chunk) < Overlap THEN Len(chunk) ELSE Overlap

\* What is carried over are the last words, which have been told.
LEMMA CarriedWords ==
  ASSUME NEW ws \in Seq(Int)
  PROVE  LET c == Carried(ws)
             n == Shared(ws)
         IN  /\ c \in Seq(Int) /\ n \in Nat /\ Len(c) = n /\ DOMAIN c = 1..n /\ n <= Len(ws)
             /\ \A i \in 1..n : c[i] = ws[Len(ws) - n + i]
             /\ WordsOf(c) \subseteq WordsOf(ws)
             /\ \A told : InTurn(ws, told) => InTurn(c, told \cup WordsOf(ws))
<1> DEFINE c == Carried(ws)
           n == Shared(ws)
<1>0. Overlap \in Nat \ {0} /\ Len(ws) \in Nat /\ DOMAIN ws = 1..Len(ws)
  BY Sizes, LenProperties
<1>1. n \in Nat /\ n <= Len(ws)
  BY <1>0 DEF Shared
<1>a. IF Len(ws) <= Overlap THEN n = Len(ws) ELSE n = Overlap
  <2>1. n = IF Len(ws) < Overlap THEN Len(ws) ELSE Overlap
    BY DEF Shared
  <2> HIDE DEF n
  <2>2. PICK l \in Nat, o \in Nat : l = Len(ws) /\ o = Overlap
    BY <1>0
  <2>3. n = IF l < o THEN l ELSE o
    BY <2>1, <2>2
  <2>4. IF l <= o THEN n = l ELSE n = o
    BY <2>3
  <2> QED BY <2>2, <2>4
<1>2. c \in Seq(Int) /\ Len(c) = n /\ \A i \in 1..n : c[i] = ws[Len(ws) - n + i]
  <2>1. CASE Len(ws) <= Overlap
    <3>1. c = ws
      BY <2>1 DEF Carried
    <3>2. n = Len(ws)
      BY <1>a, <2>1
    <3> QED BY <1>0, <3>1, <3>2
  <2>2. CASE ~(Len(ws) <= Overlap)
    <3> DEFINE m == Len(ws) - Overlap + 1
    <3>0. c = SubSeq(ws, m, Len(ws))
      BY <2>2 DEF Carried
    <3>1. /\ m \in Int /\ m \in 1..Len(ws) /\ Len(ws) - m + 1 = Overlap /\ n = Overlap
          /\ c = SubSeq(ws, m, Len(ws))
      BY <1>0, <1>a, <2>2, <3>0
    <3>2. \A i \in m..Len(ws) : ws[i] \in Int
      BY <1>0, <3>1, ElementOfSeq
    <3> HIDE DEF m, c, n
    <3>3. /\ c \in Seq(Int) /\ Len(c) = Overlap
          /\ \A i \in 1..(Len(ws) - m + 1) : c[i] = ws[m + i - 1]
      BY <1>0, <3>1, <3>2, SubSeqProperties
    <3>4. \A i \in 1..Overlap : m + i - 1 = Len(ws) - Overlap + i
      BY <1>0 DEF m
    <3> QED BY <3>1, <3>3, <3>4
  <2> QED BY <2>1, <2>2
<1>3. DOMAIN c = 1..n
  BY <1>1, <1>2, LenProperties
<1> HIDE DEF c, n
<1>4. WordsOf(c) \subseteq WordsOf(ws)
  <2> SUFFICES ASSUME NEW i \in 1..n PROVE ws[Len(ws) - n + i] \in WordsOf(ws)
    BY <1>2, <1>3 DEF WordsOf
  <2>1. Len(ws) - n + i \in 1..Len(ws)
    BY <1>0, <1>1
  <2> QED BY <1>0, <2>1 DEF WordsOf
<1>5. ASSUME NEW told, InTurn(ws, told) PROVE InTurn(c, told \cup WordsOf(ws))
  <2> SUFFICES ASSUME NEW i \in 1..n, NEW w \in 1..(ws[Len(ws) - n + i] - 1), w \notin told
               PROVE  w \in WordsOf(ws)
    BY <1>2, <1>3 DEF InTurn
  <2>1. PICK j \in DOMAIN ws : j = Len(ws) - n + i
    BY <1>0, <1>1
  <2>2. PICK h \in 1..(j - 1) : ws[h] = w
    BY <1>5, <2>1 DEF InTurn
  <2>3. h \in DOMAIN ws
    BY <1>0, <2>1
  <2> QED BY <2>2, <2>3 DEF WordsOf
<1> QED BY <1>1, <1>2, <1>3, <1>4, <1>5 DEF c, n
-----------------------------------------------------------------------------
(* The open calls of the splitter *)

\* Where the i-th of the calls fs begins; behind all of them, after last.
NextFrom(fs, i, last) == IF i > Len(fs) THEN last + 1 ELSE fs[i].from

\* Each call ends before the next one begins, and only words that may go are
\* between them; the text of a call that does not loop yet is not empty.
Seamless(fs, last, gone) ==
  \A i \in DOMAIN fs :
    /\ fs[i].to < NextFrom(fs, i + 1, last)
    /\ (fs[i].to + 1)..(NextFrom(fs, i + 1, last) - 1) \subseteq gone
    /\ ~fs[i].looping => fs[i].from <= fs[i].to

\* The innermost call, and those that wait for it.
LEMMA SeamlessTail ==
  ASSUME NEW fs \in Seq(Frames), fs # <<>>, NEW last \in Int, NEW gone, Seamless(fs, last, gone)
  PROVE  LET next == NextFrom(Tail(fs), 1, last)
         IN  /\ NextFrom(fs, 1, last) = Head(fs).from /\ next \in Int
             /\ Head(fs).to < next /\ (Head(fs).to + 1)..(next - 1) \subseteq gone
             /\ ~Head(fs).looping => Head(fs).from <= Head(fs).to
             /\ Seamless(Tail(fs), last, gone)
<1>1. PICK n \in Nat : Len(fs) = n + 1 /\ DOMAIN fs = 1..(n + 1)
  <2>1. Len(fs) \in Nat \ {0} /\ DOMAIN fs = 1..Len(fs)
    BY LenProperties, EmptySeq
  <2>2. Len(fs) - 1 \in Nat /\ Len(fs) = (Len(fs) - 1) + 1
    BY <2>1
  <2> QED BY <2>1, <2>2
<1>2. PICK t \in Seq(Frames) : /\ t = Tail(fs) /\ Len(t) = n /\ DOMAIN t = 1..n
                               /\ \A i \in 1..n : t[i] = fs[i + 1]
  <2>1. Tail(fs) \in Seq(Frames) /\ Len(Tail(fs)) = n /\ \A i \in 1..n : Tail(fs)[i] = fs[i + 1]
    BY <1>1, HeadTailProperties
  <2> QED BY <2>1, LenProperties
<1>3. \A i \in 1..(n + 1) : NextFrom(t, i, last) = NextFrom(fs, i + 1, last)
  <2> TAKE i \in 1..(n + 1)
  <2>1. CASE i = n + 1
    BY <1>1, <1>2, <2>1 DEF NextFrom
  <2>2. CASE i # n + 1
    <3>1. i \in 1..n /\ ~(i > n) /\ ~(i + 1 > n + 1)
      BY <2>2
    <3> QED BY <1>1, <1>2, <3>1 DEF NextFrom
  <2> QED BY <2>1, <2>2
<1>4. Head(fs) = fs[1] /\ NextFrom(fs, 1, last) = fs[1].from
  BY <1>1 DEF NextFrom
<1>5. NextFrom(t, 1, last) \in Int
  <2>1. 1 > n \/ 1 \in 1..n
    OBVIOUS
  <2>2. \A i \in 1..n : t[i].from \in Int
    <3>1. \A i \in 1..n : t[i] \in Frames
      BY <1>2, ElementOfSeq
    <3> QED BY <3>1 DEF Frames, Ranges
  <2> QED BY <1>2, <2>1, <2>2 DEF NextFrom
<1>6. 1 \in 1..(n + 1) /\ NextFrom(t, 1, last) = NextFrom(fs, 1 + 1, last)
  BY <1>3
<1>7. /\ fs[1].to < NextFrom(t, 1, last) /\ (fs[1].to + 1)..(NextFrom(t, 1, last) - 1) \subseteq gone
      /\ ~fs[1].looping => fs[1].from <= fs[1].to
  BY <1>1, <1>6 DEF Seamless
<1>8. Seamless(t, last, gone)
  <2> SUFFICES ASSUME NEW i \in 1..n
               PROVE  /\ t[i].to < NextFrom(t, i + 1, last)
                      /\ (t[i].to + 1)..(NextFrom(t, i + 1, last) - 1) \subseteq gone
                      /\ ~t[i].looping => t[i].from <= t[i].to
    BY <1>2 DEF Seamless
  <2>1. t[i] = fs[i + 1] /\ i + 1 \in 1..(n + 1)
    BY <1>2
  <2>2. NextFrom(t, i + 1, last) = NextFrom(fs, (i + 1) + 1, last)
    BY <1>3, <2>1
  <2> QED BY <1>1, <2>1, <2>2 DEF Seamless
<1> QED BY <1>2, <1>4, <1>5, <1>7, <1>8

\* A call that is put before those that wait.
LEMMA SeamlessPush ==
  ASSUME NEW fs \in Seq(Frames), NEW last \in Int, NEW gone, Seamless(fs, last, gone),
         NEW f \in Frames, f.to < NextFrom(fs, 1, last),
         (f.to + 1)..(NextFrom(fs, 1, last) - 1) \subseteq gone,
         ~f.looping => f.from <= f.to
  PROVE  /\ <<f>> \o fs \in Seq(Frames) /\ Seamless(<<f>> \o fs, last, gone)
         /\ NextFrom(<<f>> \o fs, 1, last) = f.from
<1>1. PICK n \in Nat : Len(fs) = n /\ DOMAIN fs = 1..n
  BY LenProperties
<1>2. PICK g \in Seq(Frames) : /\ g = <<f>> \o fs /\ Len(g) = 1 + n /\ DOMAIN g = 1..(1 + n)
                               /\ g[1] = f /\ \A i \in 1..n : g[1 + i] = fs[i]
  <2>1. <<f>> \in Seq(Frames) /\ Len(<<f>>) = 1 /\ <<f>>[1] = f
    OBVIOUS
  <2>2. 1 \in 1..1
    OBVIOUS
  <2>3. PICK u \in Seq(Frames) : u = <<f>> /\ Len(u) = 1 /\ u[1] = f
    BY <2>1
  <2>4. /\ u \o fs \in Seq(Frames) /\ Len(u \o fs) = 1 + n /\ DOMAIN (u \o fs) = 1..(1 + n)
        /\ (u \o fs)[1] = f /\ \A i \in 1..n : (u \o fs)[1 + i] = fs[i]
    BY <1>1, <2>2, <2>3, Joined
  <2> QED BY <2>3, <2>4
<1>3. \A i \in 1..(n + 1) : NextFrom(g, i + 1, last) = NextFrom(fs, i, last)
  <2> TAKE i \in 1..(n + 1)
  <2>1. CASE i = n + 1
    BY <1>1, <1>2, <2>1 DEF NextFrom
  <2>2. CASE i # n + 1
    <3>1. i \in 1..n /\ ~(i > n) /\ ~(i + 1 > 1 + n) /\ i + 1 = 1 + i
      BY <2>2
    <3> QED BY <1>1, <1>2, <3>1 DEF NextFrom
  <2> QED BY <2>1, <2>2
<1>4. NextFrom(g, 1, last) = f.from
  BY <1>2 DEF NextFrom
<1>5. ASSUME NEW i \in 1..(1 + n)
      PROVE  /\ g[i].to < NextFrom(g, i + 1, last)
             /\ (g[i].to + 1)..(NextFrom(g, i + 1, last) - 1) \subseteq gone
             /\ ~g[i].looping => g[i].from <= g[i].to
  <2>1. CASE i = 1
    BY <1>2, <1>3, <2>1
  <2>2. CASE i # 1
    <3>1. PICK j \in 1..n : i = 1 + j
      <4>1. i - 1 \in 1..n /\ i = 1 + (i - 1)
        BY <2>2
      <4> QED BY <4>1
    <3>2. g[i] = fs[j] /\ NextFrom(g, i + 1, last) = NextFrom(fs, j + 1, last)
      <4>1. i + 1 = (j + 1) + 1 /\ j + 1 \in 1..(n + 1)
        BY <3>1
      <4> QED BY <1>2, <1>3, <3>1, <4>1
    <3> QED BY <1>1, <3>2 DEF Seamless
  <2> QED BY <2>1, <2>2
<1> QED BY <1>2, <1>4, <1>5 DEF Seamless

\* The only call there is.
LEMMA OnlyFrame ==
  ASSUME NEW f \in Frames, NEW last \in Int, NEW gone, f.to = last, ~f.looping => f.from <= f.to
  PROVE  Seamless(<<f>>, last, gone) /\ NextFrom(<<f>>, 1, last) = f.from
<1>1. /\ DOMAIN <<f>> = {1} /\ <<f>>[1] = f /\ Len(<<f>>) = 1
  OBVIOUS
<1>2. NextFrom(<<f>>, 1 + 1, last) = last + 1 /\ NextFrom(<<f>>, 1, last) = f.from
  BY <1>1 DEF NextFrom
<1>3. f.to < last + 1 /\ (f.to + 1)..(last + 1 - 1) = {}
  OBVIOUS
<1> QED BY <1>1, <1>2, <1>3 DEF Seamless

\* Numbers up to n, in three parts.
LEMMA Cover ==
  ASSUME NEW a \in Int, NEW b \in Int, NEW n \in Int, NEW S,
         1..(a - 1) \subseteq S, a..b \subseteq S, (b + 1)..(n - 1) \subseteq S
  PROVE  1..(n - 1) \subseteq S
<1> SUFFICES ASSUME NEW w \in 1..(n - 1) PROVE w \in S
  OBVIOUS
<1>1. w \in 1..(a - 1) \/ w \in a..b \/ w \in (b + 1)..(n - 1)
  OBVIOUS
<1> QED BY <1>1
-----------------------------------------------------------------------------
(* No word is lost, and none comes too soon *)

\* The last word that the split or merge at work has to tell: of the text, or
\* of the groups that were taken.
Final == IF nested THEN groups.from - 1 ELSE text.words

\* What may go, and what earlier groups have told.
Sooner == Optional \cup Told(raw)

\* The pieces tell the text up to where the innermost call is.
SplitTells ==
  /\ AllInTurn(pieces, Sooner) /\ Seamless(frames, Final, Optional)
  /\ 1..(NextFrom(frames, 1, Final) - 1) \subseteq Sooner \cup Told(pieces)

\* The chunks, the words collected for the next, and the pieces to come tell it all.
MergeTells ==
  /\ AllInTurn(chunks, Sooner)
  /\ InTurn(current, Sooner \cup Told(chunks))
  /\ AllInTurn(pieces, (Sooner \cup Told(chunks)) \cup WordsOf(current))
  /\ 1..Final \subseteq ((Sooner \cup Told(chunks)) \cup WordsOf(current)) \cup Told(pieces)

Telling ==
  /\ phase = "embedding" => text.words > 0
  /\ AllInTurn(raw, Optional) /\ (~nested => raw = <<>>)
  /\ phase = "splitting" => SplitTells
  /\ phase = "merging" => MergeTells
  /\ phase = "grouping" => 1..(groups.from - 1) \subseteq Sooner
  /\ phase = "done" => AllInTurn(chunks, Optional) /\ 1..text.words \subseteq Optional \cup Told(chunks)

\* No words.
LEMMA Nothing ==
  /\ <<>> \in Seq(Seq(Int)) /\ <<>> \in Seq(Int) /\ WordsOf(<<>>) = {} /\ Told(<<>>) = {}
  /\ \A told : InTurn(<<>>, told) /\ AllInTurn(<<>>, told)
  /\ \A n, gone : Seamless(<<>>, n, gone) /\ NextFrom(<<>>, 1, n) = n + 1
BY EmptySeq DEF WordsOf, Told, InTurn, AllInTurn, Seamless, NextFrom

\* What the invariant says of types, as these proofs need it.
LEMMA WordTypes ==
  ASSUME IInv
  PROVE  /\ phase = "splitting" => pieces \in Seq(Seq(Int))
         /\ phase = "merging" => pieces \in Seq(Seq(Int)) /\ current \in Seq(Int) /\ chunks \in Seq(Seq(Int))
         /\ nested => raw \in Seq(Seq(Int))
         /\ groups.from \in Int /\ Final \in Int /\ text.words \in Nat /\ frames \in Seq(Frames)
<1>1. \A n : UpTo(n) \subseteq Seq(Int)
  BY DEF UpTo
<1>2. \A n : \A cs \in Seq(UpTo(n)) : cs \in Seq(Seq(Int))
  BY <1>1, SeqMonotonic
<1>3. text.words \in Nat /\ groups.from \in Int /\ frames \in Seq(Frames)
  BY TextRange DEF IInv, TypeOK
<1>4. Final \in Int
  BY <1>3 DEF Final
<1> QED BY <1>1, <1>2, <1>3, <1>4 DEF IInv, Lengths

\* The words that may go are positions of the text.
LEMMA SameText ==
  ASSUME UNCHANGED <<text, raw, nested>>
  PROVE  /\ Optional' = Optional /\ Sooner' = Sooner
         /\ groups' = groups => Final' = Final
BY DEF Optional, Sooner, Final

\* A step of the splitter leaves the calls seamless and tells a range that
\* begins where the innermost call does, perhaps an empty one; only words that
\* may go are between it and where the innermost call is then.
LEMMA SplitMoves ==
  ASSUME TypeOK, Final \in Int, Seamless(frames, Final, Optional), SplitStep, ~SplitDone
  PROVE  /\ phase' = "splitting" /\ Seamless(frames', Final, Optional)
         /\ \E r : /\ r.from = NextFrom(frames, 1, Final) /\ r.from \in Int /\ r.to \in Int
                   /\ r.from <= r.to + 1
                   /\ pieces' = IF Count(r) = 0 THEN pieces ELSE Append(pieces, Words(r))
                   /\ NextFrom(frames', 1, Final) \in Int /\ r.to < NextFrom(frames', 1, Final)
                   /\ (r.to + 1)..(NextFrom(frames', 1, Final) - 1) \subseteq Optional
<1>1. phase' = "splitting" /\ frames # <<>>
  BY DEF SplitStep, Fits, TryNext, Loop, NextPart, Return
<1>2. frames \in Seq(Frames)
  BY DEF TypeOK
<1>3. PICK t \in Seq(Frames), next \in Int :
        /\ t = Tail(frames) /\ next = NextFrom(t, 1, Final) /\ Seamless(t, Final, Optional)
        /\ NextFrom(frames, 1, Final) = Top.from
        /\ Top.to < next /\ (Top.to + 1)..(next - 1) \subseteq Optional
        /\ ~Top.looping => Top.from <= Top.to
  <2>1. Tail(frames) \in Seq(Frames)
    BY <1>1, TopFrame
  <2>2. \A last \in Int : \A gone : Seamless(frames, last, gone) =>
          /\ NextFrom(frames, 1, last) = Head(frames).from /\ NextFrom(Tail(frames), 1, last) \in Int
          /\ Head(frames).to < NextFrom(Tail(frames), 1, last)
          /\ (Head(frames).to + 1)..(NextFrom(Tail(frames), 1, last) - 1) \subseteq gone
          /\ ~Head(frames).looping => Head(frames).from <= Head(frames).to
          /\ Seamless(Tail(frames), last, gone)
    BY <1>1, <1>2, SeamlessTail
  <2> QED BY <2>1, <2>2, Zenon DEF Top
<1>4. /\ Top \in Frames /\ Top.from \in Int /\ Top.to \in Int /\ Top.level \in Int /\ Top.from <= Top.to + 1
  BY <1>1, TopFrame
\* The innermost call in a new form.
<1>5. ASSUME NEW f \in Frames, f.from = Top.from, NEW fs \in Seq(Frames), Seamless(fs, Final, Optional),
             f.to < NextFrom(fs, 1, Final), (f.to + 1)..(NextFrom(fs, 1, Final) - 1) \subseteq Optional,
             f.looping \/ f.from <= f.to, frames' = <<f>> \o fs, pieces' = pieces
      PROVE  /\ Seamless(frames', Final, Optional)
             /\ \E r : /\ r.from = NextFrom(frames, 1, Final) /\ r.from \in Int /\ r.to \in Int
                       /\ r.from <= r.to + 1
                       /\ pieces' = IF Count(r) = 0 THEN pieces ELSE Append(pieces, Words(r))
                       /\ NextFrom(frames', 1, Final) \in Int /\ r.to < NextFrom(frames', 1, Final)
                       /\ (r.to + 1)..(NextFrom(frames', 1, Final) - 1) \subseteq Optional
  <2>1. Seamless(<<f>> \o fs, Final, Optional) /\ NextFrom(<<f>> \o fs, 1, Final) = f.from
    BY <1>5, SeamlessPush
  <2>2. PICK r : r = [from |-> Top.from, to |-> Top.from - 1]
    OBVIOUS
  <2>3. r.from = Top.from /\ r.to = Top.from - 1 /\ Count(r) = 0
    BY <1>4, <2>2 DEF Count
  <2>4. (r.to + 1)..(Top.from - 1) = {}
    BY <1>4, <2>3
  <2>5. Seamless(frames', Final, Optional) /\ NextFrom(frames', 1, Final) = Top.from
    BY <1>5, <2>1
  <2>6. /\ r.from = NextFrom(frames, 1, Final) /\ r.from \in Int /\ r.to \in Int /\ r.from <= r.to + 1
        /\ r.to < Top.from
    BY <1>3, <1>4, <2>3
  <2>7. pieces' = IF Count(r) = 0 THEN pieces ELSE Append(pieces, Words(r))
    BY <1>5, <2>3
  <2> QED BY <1>4, <2>4, <2>5, <2>6, <2>7
<1>6. CASE Fits
  <2>1. pieces' = Append(pieces, Words(Top)) /\ frames' = t /\ ~Top.looping
    BY <1>3, <1>6 DEF Fits
  <2>2. Count(Top) # 0
    BY <1>3, <1>4, <2>1 DEF Count
  <2> QED BY <1>1, <1>3, <1>4, <2>1, <2>2
<1>7. CASE TryNext
  <2>1. PICK f : f = Frame(Top, Top.level + 1)
    OBVIOUS
  <2>2. f \in Frames /\ f.from = Top.from /\ f.to = Top.to
    BY <1>4, <2>1, NewFrame DEF Frame
  <2>3. frames' = <<f>> \o t /\ pieces' = pieces /\ ~Top.looping
    BY <1>3, <1>7, <2>1 DEF TryNext
  <2> QED BY <1>1, <1>3, <1>5, <2>2, <2>3
<1>8. CASE Loop
  <2>1. PICK f : f = [Top EXCEPT !.looping = TRUE]
    OBVIOUS
  <2>2. f \in Frames /\ f.from = Top.from /\ f.to = Top.to /\ f.looping
    BY <1>4, <2>1 DEF Frames, Ranges
  <2>3. frames' = <<f>> \o t /\ pieces' = pieces
    BY <1>3, <1>8, <2>1 DEF Loop
  <2> QED BY <1>1, <1>3, <1>5, <2>2, <2>3
<1>9. CASE NextPart
  <2>1. PICK c \in Top.from..Top.to :
          LET part == Part(Top, c)
              rest == <<[Top EXCEPT !.from = c + 1]>> \o Tail(frames)
          IN  IF Count(part) > Size
              THEN frames' = <<Frame(part, Top.level + 1)>> \o rest /\ pieces' = pieces
              ELSE /\ frames' = rest
                   /\ pieces' = IF Count(part) = 0 THEN pieces ELSE Append(pieces, Words(part))
    BY <1>9 DEF NextPart
  <2>2. PICK p, g : p = Part(Top, c) /\ g = [Top EXCEPT !.from = c + 1]
    OBVIOUS
  <2>3. /\ p.from = Top.from /\ p.to \in Int /\ p.from <= p.to + 1 /\ p.to < c + 1 /\ c + 1 \in Int
        /\ (p.to + 1)..(c + 1 - 1) \subseteq Optional /\ Count(p) = p.to - p.from + 1
    <3>1. p.from = Top.from /\ (p.to = c \/ (p.to = c - 1 /\ c \in Optional))
      BY <2>2 DEF Part, Optional
    <3>2. c \in Int /\ Top.from <= c
      BY <1>4
    <3> QED BY <1>4, <3>1, <3>2 DEF Count
  <2>4. g \in Frames /\ g.from = c + 1 /\ g.to = Top.to /\ g.looping
    <3>1. Top \in Ranges /\ Top.looping
      BY <1>4, <1>9 DEF Frames, NextPart
    <3>2. g = [from |-> c + 1, to |-> Top.to, level |-> Top.level, looping |-> TRUE]
      BY <2>2, <3>1 DEF Ranges
    <3>3. c + 1 \in Int /\ c + 1 <= Top.to + 1
      BY <1>4
    <3> QED BY <1>4, <3>2, <3>3 DEF Frames, Ranges
  <2>5. PICK rest \in Seq(Frames) : /\ rest = <<g>> \o t /\ Seamless(rest, Final, Optional)
                                    /\ NextFrom(rest, 1, Final) = c + 1
    BY <1>3, <2>4, SeamlessPush
  <2>6. CASE Count(p) > Size
    <3>1. PICK f : f = Frame(p, Top.level + 1)
      OBVIOUS
    <3>2. f \in Frames /\ f.from = Top.from /\ f.to = p.to
      <4>1. Top.level + 1 \in Int /\ p.from \in Int
        BY <1>4, <2>3
      <4>2. f \in Frames
        BY <2>3, <3>1, <4>1, NewFrame
      <4> QED BY <2>3, <3>1, <4>2 DEF Frame
    <3>3. f.from <= f.to
      BY <1>4, <2>3, <2>6, <3>2, Sizes
    <3>4. frames' = <<f>> \o rest /\ pieces' = pieces
      BY <1>3, <2>1, <2>2, <2>5, <2>6, <3>1
    <3>5. f.to < NextFrom(rest, 1, Final) /\ (f.to + 1)..(NextFrom(rest, 1, Final) - 1) \subseteq Optional
      BY <2>3, <2>5, <3>2
    <3> QED BY <1>1, <1>5, <2>5, <3>2, <3>3, <3>4, <3>5
  <2>7. CASE ~(Count(p) > Size)
    <3>1. frames' = rest /\ pieces' = IF Count(p) = 0 THEN pieces ELSE Append(pieces, Words(p))
      BY <1>3, <2>1, <2>2, <2>5, <2>7
    <3>2. p.from = NextFrom(frames, 1, Final) /\ p.from \in Int
      BY <1>3, <1>4, <2>3
    <3>3. NextFrom(frames', 1, Final) = c + 1 /\ Seamless(frames', Final, Optional)
      BY <2>5, <3>1
    <3>4. pieces' = IF Count(p) = 0 THEN pieces ELSE Append(pieces, Words(p))
      BY <3>1
    <3>5. /\ NextFrom(frames', 1, Final) \in Int /\ p.to < NextFrom(frames', 1, Final)
          /\ (p.to + 1)..(NextFrom(frames', 1, Final) - 1) \subseteq Optional
      BY <2>3, <3>3
    <3>6. p.to \in Int /\ p.from <= p.to + 1
      BY <2>3
    <3> QED BY <1>1, <3>2, <3>3, <3>4, <3>5, <3>6
  <2> QED BY <2>6, <2>7
<1>10. CASE Return
  <2>1. frames' = t /\ pieces' = pieces /\ Top.from > Top.to
    BY <1>3, <1>10 DEF Return
  <2>2. Count(Top) = 0
    BY <1>4, <2>1 DEF Count
  <2> QED BY <1>1, <1>3, <1>4, <2>1, <2>2
<1> QED BY <1>6, <1>7, <1>8, <1>9, <1>10 DEF SplitStep

\* The splitter: what it has told grows up to where the innermost call is.
LEMMA SplitStepTells == IInv /\ Telling /\ SplitStep => Telling'
<1> SUFFICES ASSUME IInv, Telling, SplitStep PROVE Telling'
  OBVIOUS
<1>0. UNCHANGED <<text, semantic, current, chunks, groups, raw, nested>> /\ phase = "splitting"
  BY DEF SplitStep, Fits, TryNext, Loop, NextPart, Return, SplitDone
<1>a. Optional' = Optional /\ Sooner' = Sooner /\ Final' = Final
  BY <1>0, SameText
<1>b. /\ pieces \in Seq(Seq(Int)) /\ Final \in Int /\ current = <<>> /\ chunks = <<>>
      /\ AllInTurn(pieces, Sooner) /\ Seamless(frames, Final, Optional)
      /\ 1..(NextFrom(frames, 1, Final) - 1) \subseteq Sooner \cup Told(pieces)
      /\ TypeOK /\ Optional \subseteq Sooner
  BY <1>0, WordTypes DEF Telling, SplitTells, IInv, Lengths, Sooner
<1>c. /\ AllInTurn(raw, Optional)' /\ (~nested => raw = <<>>)'
  BY <1>0, <1>a DEF Telling
<1>1. CASE SplitDone
  <2>1. phase' = "merging" /\ pieces' = pieces /\ frames = <<>>
    BY <1>1 DEF SplitDone
  <2>2. 1..Final \subseteq Sooner \cup Told(pieces)
    <3>1. NextFrom(frames, 1, Final) = Final + 1
      BY <2>1, Nothing
    <3> QED BY <1>b, <3>1
  <2>3. WordsOf(current) = {} /\ Told(chunks) = {}
    BY <1>b, Nothing
  <2>4. (Sooner \cup Told(chunks)) \cup WordsOf(current) = Sooner
    BY <2>3
  <2>5. MergeTells
    BY <1>b, <2>2, <2>4, Nothing DEF MergeTells
  <2>6. MergeTells'
    BY <1>0, <1>a, <2>1, <2>5 DEF MergeTells
  <2> QED BY <1>c, <2>1, <2>6 DEF Telling
<1>2. CASE ~SplitDone
  <2>1. PICK r : /\ r.from = NextFrom(frames, 1, Final) /\ r.from \in Int /\ r.to \in Int
                 /\ r.from <= r.to + 1
                 /\ pieces' = IF Count(r) = 0 THEN pieces ELSE Append(pieces, Words(r))
                 /\ NextFrom(frames', 1, Final) \in Int
                 /\ (r.to + 1)..(NextFrom(frames', 1, Final) - 1) \subseteq Optional
    BY <1>2, <1>b, SplitMoves
  <2>2. phase' = "splitting" /\ Seamless(frames', Final, Optional)
    BY <1>2, <1>b, SplitMoves
  <2>3. AllInTurn(pieces', Sooner) /\ Told(pieces') = Told(pieces) \cup (r.from..r.to)
    <3>1. CASE Count(r) = 0
      <4>1. r.from..r.to = {}
        BY <2>1, <3>1 DEF Count
      <4> QED BY <1>b, <2>1, <3>1, <4>1
    <3>2. CASE Count(r) # 0
      <4>1. PICK ws \in Seq(Int) : /\ ws = Words(r) /\ WordsOf(ws) = r.from..r.to
                                   /\ InTurn(ws, Sooner \cup Told(pieces))
        BY <1>b, <2>1, RangeWords
      <4>2. /\ <<ws>> \in Seq(Seq(Int)) /\ Told(<<ws>>) = WordsOf(ws) /\ Append(pieces, ws) = pieces \o <<ws>>
            /\ AllInTurn(<<ws>>, Sooner \cup Told(pieces))
        BY <1>b, <4>1, OnePiece
      <4>3. AllInTurn(pieces \o <<ws>>, Sooner)
        BY <1>b, <4>2, AllTurnsJoin
      <4>4. Told(pieces \o <<ws>>) = Told(pieces) \cup Told(<<ws>>)
        BY <1>b, <4>2, ToldJoin
      <4> QED BY <2>1, <3>2, <4>1, <4>2, <4>3, <4>4
    <3> QED BY <3>1, <3>2
  <2>4. 1..(NextFrom(frames', 1, Final) - 1) \subseteq Sooner \cup Told(pieces')
    <3> DEFINE S == Sooner \cup Told(pieces')
    <3>1. /\ 1..(r.from - 1) \subseteq S /\ r.from..r.to \subseteq S
          /\ (r.to + 1)..(NextFrom(frames', 1, Final) - 1) \subseteq S
      BY <1>b, <2>1, <2>3
    <3> HIDE DEF S
    <3>2. PICK n \in Int : n = NextFrom(frames', 1, Final)
      BY <2>1
    <3>3. 1..(n - 1) \subseteq S
      BY <2>1, <3>1, <3>2, Cover
    <3> QED BY <3>2, <3>3 DEF S
  <2> QED BY <1>a, <1>c, <2>2, <2>3, <2>4 DEF Telling, SplitTells
<1> QED BY <1>1, <1>2

\* The merge: what is carried over has been told, and the next piece has its turn.
LEMMA MergePieceTells == IInv /\ Telling /\ MergePiece => Telling'
<1> SUFFICES ASSUME IInv, Telling, MergePiece PROVE Telling'
  OBVIOUS
<1>1. /\ UNCHANGED <<text, semantic, frames, groups, raw, nested>> /\ phase = "merging" /\ phase' = "merging"
      /\ pieces # <<>> /\ pieces' = Tail(pieces)
  BY DEF MergePiece
<1>2. Optional' = Optional /\ Sooner' = Sooner /\ Final' = Final
  BY <1>1, SameText
<1>3. pieces \in Seq(Seq(Int)) /\ current \in Seq(Int) /\ chunks \in Seq(Seq(Int))
  BY <1>1, WordTypes
<1>4. PICK S : S = Sooner \cup Told(chunks)
  OBVIOUS
<1>5. /\ AllInTurn(chunks, Sooner) /\ InTurn(current, S) /\ AllInTurn(pieces, S \cup WordsOf(current))
      /\ 1..Final \subseteq (S \cup WordsOf(current)) \cup Told(pieces)
  BY <1>1, <1>4 DEF Telling, MergeTells
<1>6. PICK h \in Seq(Int), t \in Seq(Seq(Int)) :
        /\ h = Head(pieces) /\ t = Tail(pieces) /\ Told(pieces) = WordsOf(h) \cup Told(t)
        /\ InTurn(h, S \cup WordsOf(current))
        /\ AllInTurn(t, (S \cup WordsOf(current)) \cup WordsOf(h))
  BY <1>1, <1>3, <1>5, FirstPiece
<1>7. SUFFICES /\ AllInTurn(chunks', Sooner) /\ InTurn(current', Sooner \cup Told(chunks'))
               /\ (S \cup WordsOf(current)) \cup WordsOf(h) \subseteq
                    (Sooner \cup Told(chunks')) \cup WordsOf(current')
  <2> DEFINE T == (Sooner \cup Told(chunks')) \cup WordsOf(current')
  <2>1. (S \cup WordsOf(current)) \cup WordsOf(h) \subseteq T
    BY <1>7
  <2> HIDE DEF T
  <2>2. AllInTurn(t, T)
    BY <1>6, <2>1, TurnsStay
  <2>3. 1..Final \subseteq T \cup Told(t)
    BY <1>5, <1>6, <2>1
  <2>4. MergeTells'
    BY <1>1, <1>2, <1>6, <1>7, <2>2, <2>3 DEF MergeTells, T
  <2> QED BY <1>1, <1>2, <2>4 DEF Telling
<1>8. CASE Overflows(h)
  <2>1. PICK k \in Seq(Int) : k = Carried(current) /\ InTurn(k, S \cup WordsOf(current))
    <3>1. \A told : InTurn(current, told) => InTurn(Carried(current), told \cup WordsOf(current))
      BY <1>3, CarriedWords
    <3>2. Carried(current) \in Seq(Int)
      BY <1>3, CarriedWords
    <3> QED BY <1>5, <3>1, <3>2
  <2>2. chunks' = Append(chunks, current) /\ current' = k \o h
    BY <1>6, <1>8, <2>1 DEF MergePiece
  <2>3. /\ <<current>> \in Seq(Seq(Int)) /\ Append(chunks, current) = chunks \o <<current>>
        /\ Told(<<current>>) = WordsOf(current)
        /\ \A told : AllInTurn(<<current>>, told) <=> InTurn(current, told)
    BY <1>3, OnePiece
  <2>4. AllInTurn(<<current>>, Sooner \cup Told(chunks))
    BY <1>4, <1>5, <2>3
  <2>5. AllInTurn(chunks \o <<current>>, Sooner)
    BY <1>3, <1>5, <2>3, <2>4, AllTurnsJoin
  <2>6. Told(chunks \o <<current>>) = Told(chunks) \cup WordsOf(current)
    BY <1>3, <2>3, ToldJoin
  <2>7. Sooner \cup Told(chunks') = S \cup WordsOf(current)
    BY <1>4, <2>2, <2>3, <2>6
  <2>8. WordsOf(k \o h) = WordsOf(k) \cup WordsOf(h)
    BY <1>6, <2>1, WordsJoin
  <2>9. InTurn(k \o h, S \cup WordsOf(current))
    <3>1. PICK T : T = S \cup WordsOf(current)
      OBVIOUS
    <3>2. InTurn(h, T \cup WordsOf(k))
      BY <1>6, <3>1, TurnsStay
    <3> QED BY <1>6, <2>1, <3>1, <3>2, TurnsJoin
  <2> QED BY <2>2, <2>3, <2>5, <2>7, <2>8, <2>9
<1>9. CASE ~Overflows(h)
  <2>1. chunks' = chunks /\ current' = current \o h
    BY <1>6, <1>9 DEF MergePiece
  <2>2. WordsOf(current \o h) = WordsOf(current) \cup WordsOf(h)
    BY <1>3, <1>6, WordsJoin
  <2>3. InTurn(current \o h, S)
    BY <1>3, <1>5, <1>6, TurnsJoin
  <2> QED BY <1>4, <1>5, <2>1, <2>2, <2>3
<1> QED BY <1>8, <1>9

\* The end of a merge: all is told, by the chunks or by what the groups have become.
LEMMA MergeDoneTells == IInv /\ Telling /\ MergeDone => Telling'
<1> SUFFICES ASSUME IInv, Telling, MergeDone PROVE Telling'
  OBVIOUS
<1> DEFINE all == IF current = <<>> THEN chunks ELSE Append(chunks, current)
<1>1. /\ UNCHANGED <<text, groups, nested>> /\ phase = "merging" /\ pieces = <<>>
      /\ nested => raw' = raw \o all /\ phase' = "grouping"
      /\ ~nested => raw' = raw /\ chunks' = all /\ phase' = "done"
  BY DEF MergeDone
<1>2. Optional' = Optional
  BY <1>1 DEF Optional
<1>3. current \in Seq(Int) /\ chunks \in Seq(Seq(Int)) /\ (nested => raw \in Seq(Seq(Int)))
  BY <1>1, WordTypes
<1>4. /\ AllInTurn(chunks, Sooner) /\ InTurn(current, Sooner \cup Told(chunks))
      /\ 1..Final \subseteq (Sooner \cup Told(chunks)) \cup WordsOf(current)
      /\ AllInTurn(raw, Optional) /\ (~nested => raw = <<>>)
  BY <1>1, Nothing DEF Telling, MergeTells
<1>5. /\ all \in Seq(Seq(Int)) /\ AllInTurn(all, Sooner)
      /\ Told(all) = Told(chunks) \cup WordsOf(current)
  <2>1. CASE current = <<>>
    BY <1>3, <1>4, <2>1, Nothing
  <2>2. CASE current # <<>>
    <3>1. /\ <<current>> \in Seq(Seq(Int)) /\ Append(chunks, current) = chunks \o <<current>>
          /\ Told(<<current>>) = WordsOf(current)
          /\ AllInTurn(<<current>>, Sooner \cup Told(chunks))
      BY <1>3, <1>4, OnePiece
    <3>2. AllInTurn(chunks \o <<current>>, Sooner)
      BY <1>3, <1>4, <3>1, AllTurnsJoin
    <3>3. Told(chunks \o <<current>>) = Told(chunks) \cup WordsOf(current)
      BY <1>3, <3>1, ToldJoin
    <3>4. chunks \o <<current>> \in Seq(Seq(Int))
      BY <1>3, <3>1, ConcatProperties
    <3> QED BY <2>2, <3>1, <3>2, <3>3, <3>4
  <2> QED BY <2>1, <2>2
<1> HIDE DEF all
<1>6. CASE nested
  <2>1. AllInTurn(raw \o all, Optional)
    BY <1>3, <1>4, <1>5, <1>6, AllTurnsJoin DEF Sooner
  <2>2. Told(raw \o all) = Told(raw) \cup Told(all)
    BY <1>3, <1>5, <1>6, ToldJoin
  <2>3. 1..(groups.from - 1) \subseteq Optional \cup Told(raw \o all)
    BY <1>4, <1>5, <1>6, <2>2 DEF Final, Sooner
  <2> QED BY <1>1, <1>2, <1>6, <2>1, <2>3 DEF Telling, Sooner
<1>7. CASE ~nested
  <2>1. Sooner = Optional
    BY <1>4, <1>7, Nothing DEF Sooner
  <2>2. 1..text.words \subseteq Optional \cup Told(all)
    BY <1>4, <1>5, <1>7, <2>1 DEF Final
  <2> QED BY <1>1, <1>2, <1>4, <1>5, <1>7, <2>1, <2>2 DEF Telling
<1> QED BY <1>6, <1>7

\* A text or a group that is split from its start.
LEMMA SplitTellsAll ==
  ASSUME NEW r, r.from \in Int, r.to \in Int, r.from <= r.to, Split(r), r.to = Final',
         1..(r.from - 1) \subseteq Sooner'
  PROVE  phase' = "splitting" /\ SplitTells'
<1>1. PICK f : f = Frame(r, 1)
  OBVIOUS
<1>2. f \in Frames /\ f.from = r.from /\ f.to = r.to
  BY <1>1, NewFrame DEF Frame
<1>3. Seamless(<<f>>, Final', Optional') /\ NextFrom(<<f>>, 1, Final') = r.from
  BY <1>2, OnlyFrame
<1>4. frames' = <<f>> /\ pieces' = <<>> /\ phase' = "splitting"
  BY <1>1 DEF Split
<1> QED BY <1>3, <1>4, Nothing DEF SplitTells

\* The start of either chunker, and the groups: each begins where the last ended.
LEMMA GroupTells ==
  IInv /\ Telling /\ (Blank \/ ChunkText \/ Embed \/ FallBack \/ Group \/ TakeGroup \/ MergeRaw) => Telling'
<1> SUFFICES ASSUME IInv, Telling, Blank \/ ChunkText \/ Embed \/ FallBack \/ Group \/ TakeGroup \/ MergeRaw
             PROVE  Telling'
  OBVIOUS
<1>1. CASE Blank
  <2>1. /\ phase' = "done" /\ UNCHANGED <<text, chunks, raw, nested>> /\ text.words = 0 /\ chunks = <<>>
    BY <1>1 DEF Blank, IInv, Lengths
  <2>2. AllInTurn(chunks, Optional) /\ 1..text.words \subseteq Optional \cup Told(chunks)
    BY <2>1, Nothing
  <2>3. Optional' = Optional
    BY <2>1 DEF Optional
  <2> QED BY <2>1, <2>2, <2>3 DEF Telling
<1>2. CASE ChunkText \/ FallBack
  <2>1. /\ UNCHANGED <<text, groups, raw, nested>> /\ raw = <<>> /\ ~nested /\ Split(Whole)
        /\ text.words \in Int /\ text.words > 0
    BY <1>2, WordTypes DEF ChunkText, FallBack, IInv, Lengths, Telling
  <2>2. Optional' = Optional /\ Sooner' = Sooner /\ Final' = Final
    BY <2>1, SameText
  <2>3. Whole.from = 1 /\ Whole.to = Final /\ Whole.from <= Whole.to /\ Whole.to \in Int
    BY <2>1 DEF Whole, Final
  <2>4. 1..(1 - 1) \subseteq Sooner
    OBVIOUS
  <2>5. phase' = "splitting" /\ SplitTells'
    BY <2>1, <2>2, <2>3, <2>4, SplitTellsAll
  <2> QED BY <2>1, <2>2, <2>5 DEF Telling
<1>3. CASE Embed
  BY <1>3 DEF Embed, Telling, Optional
<1>4. CASE Group
  <2>1. /\ UNCHANGED <<text, raw>> /\ raw = <<>> /\ phase' = "grouping" /\ nested' /\ groups'.from = 1
    BY <1>4 DEF Group, IInv, Lengths
  <2>2. 1..(groups'.from - 1) = {}
    BY <2>1
  <2> QED BY <2>1, <2>2 DEF Telling, Optional
<1>5. CASE TakeGroup
  <2>1. PICK c \in groups.from..text.words :
          LET group == [from |-> groups.from, to |-> c] IN
          /\ groups' = [groups EXCEPT !.from = c + 1]
          /\ IF Count(group) > Size
             THEN Split(group) /\ raw' = raw
             ELSE raw' = Append(raw, Words(group)) /\ phase' = phase
    BY <1>5 DEF TakeGroup
  <2>2. PICK r : r = [from |-> groups.from, to |-> c]
    OBVIOUS
  <2>3. /\ phase = "grouping" /\ UNCHANGED <<text, nested>> /\ nested
        /\ groups.from \in Int /\ text.words \in Int
        /\ AllInTurn(raw, Optional) /\ 1..(groups.from - 1) \subseteq Sooner /\ raw \in Seq(Seq(Int))
    BY <1>5, WordTypes DEF TakeGroup, Telling, IInv, Lengths
  <2>4. r.from = groups.from /\ r.to = c /\ c \in Int /\ r.from <= r.to /\ r.from <= r.to + 1
    BY <2>2, <2>3
  <2>5. groups'.from = c + 1 /\ Final' = c /\ Optional' = Optional
    <3>1. groups'.from = c + 1
      BY <2>1 DEF IInv, TypeOK
    <3>2. Final' = c + 1 - 1
      BY <2>3, <3>1 DEF Final
    <3> QED BY <2>3, <2>4, <3>1, <3>2 DEF Optional
  <2>6. CASE Count(r) > Size
    <3>1. Split(r) /\ raw' = raw
      BY <2>1, <2>2, <2>6
    <3>2. Sooner' = Sooner
      BY <2>5, <3>1 DEF Sooner
    <3>3. phase' = "splitting" /\ SplitTells'
      BY <2>3, <2>4, <2>5, <3>1, <3>2, SplitTellsAll
    <3> QED BY <2>3, <2>5, <3>1, <3>3 DEF Telling
  <2>7. CASE ~(Count(r) > Size)
    <3>1. PICK ws \in Seq(Int) : /\ ws = Words(r) /\ WordsOf(ws) = groups.from..c
                                 /\ InTurn(ws, Sooner)
      BY <2>3, <2>4, RangeWords
    <3>2. raw' = Append(raw, ws) /\ phase' = "grouping"
      BY <2>1, <2>2, <2>3, <2>7, <3>1
    <3>3. /\ <<ws>> \in Seq(Seq(Int)) /\ Append(raw, ws) = raw \o <<ws>> /\ Told(<<ws>>) = WordsOf(ws)
          /\ AllInTurn(<<ws>>, Optional \cup Told(raw))
      BY <2>3, <3>1, OnePiece DEF Sooner
    <3>4. AllInTurn(raw \o <<ws>>, Optional)
      BY <2>3, <3>3, AllTurnsJoin
    <3>5. Told(raw \o <<ws>>) = Told(raw) \cup (groups.from..c)
      BY <2>3, <3>1, <3>3, ToldJoin
    <3>6. 1..c \subseteq Optional \cup Told(raw \o <<ws>>)
      <4> SUFFICES ASSUME NEW w \in 1..c PROVE w \in Optional \cup Told(raw \o <<ws>>)
        OBVIOUS
      <4>1. w \in 1..(groups.from - 1) \/ w \in groups.from..c
        BY <2>3
      <4> QED BY <2>3, <3>5, <4>1 DEF Sooner
    <3>7. groups'.from - 1 = c
      BY <2>4, <2>5
    <3> QED BY <2>3, <2>5, <3>2, <3>3, <3>4, <3>6, <3>7 DEF Telling, Sooner
  <2> QED BY <2>6, <2>7
<1>6. CASE MergeRaw
  <2>1. /\ UNCHANGED <<text, current, chunks>> /\ phase = "grouping" /\ phase' = "merging" /\ groups.from > text.words
        /\ pieces' = raw /\ raw' = <<>> /\ ~nested' /\ current = <<>> /\ chunks = <<>>
        /\ groups.from \in Int /\ text.words \in Int
        /\ AllInTurn(raw, Optional) /\ 1..(groups.from - 1) \subseteq Optional \cup Told(raw)
    BY <1>6, WordTypes DEF MergeRaw, IInv, Lengths, Telling, Sooner
  <2>2. Optional' = Optional /\ Sooner' = Optional /\ Final' = text.words
    BY <2>1, Nothing DEF Optional, Sooner, Final
  <2>3. /\ (Optional \cup Told(chunks)) \cup WordsOf(current) = Optional
        /\ 1..text.words \subseteq Optional \cup Told(raw)
    BY <2>1, Nothing
  <2>4. MergeTells'
    BY <2>1, <2>2, <2>3, Nothing DEF MergeTells
  <2> QED BY <2>1, <2>2, <2>4, Nothing DEF Telling
<1> QED BY <1>1, <1>2, <1>3, <1>4, <1>5, <1>6

\* Nothing is told, or nothing changes.
LEMMA StartTells == (Init => Telling) /\ (Telling /\ UNCHANGED vars => Telling')
<1>1. Init => Telling
  BY Nothing DEF Init, Telling
<1>2. Telling /\ UNCHANGED vars => Telling'
  <2> SUFFICES ASSUME Telling, UNCHANGED vars PROVE Telling'
    OBVIOUS
  <2>1. Optional' = Optional /\ Sooner' = Sooner /\ Final' = Final
    BY SameText DEF vars
  <2> QED BY <2>1 DEF Telling, SplitTells, MergeTells, vars
<1> QED BY <1>1, <1>2

\* The invariant of what has been told: at every moment, the pieces and chunks
\* there are tell all words before the point the work has reached, in turn.
THEOREM TellingInvariance == Spec => [](IInv /\ Telling)
<1>1. IInv /\ Telling /\ [Next]_vars => Telling'
  BY SplitStepTells, MergePieceTells, MergeDoneTells, GroupTells, StartTells DEF Next
<1>2. Init => Telling
  BY StartTells
<1> QED BY Invariance, <1>1, <1>2, PTL DEF Spec

\* Whatever the text, its separators and the groups it is cut into, no word but
\* a lone period is lost, and none comes before an earlier word has come.
THEOREM TextIsKept == Spec => []TextKept
<1>1. IInv /\ Telling => TextKept
  <2> SUFFICES ASSUME IInv, Telling, phase = "done"
               PROVE  /\ \A w \in (1..text.words) \ Optional : \E k \in DOMAIN chunks : InChunk(w, k)
                      /\ \A k \in DOMAIN chunks : \A i \in DOMAIN chunks[k] :
                           \A w \in (1..(chunks[k][i] - 1)) \ Optional :
                             \/ \E j \in 1..(k - 1) : InChunk(w, j)
                             \/ \E h \in 1..(i - 1) : chunks[k][h] = w
    BY DEF TextKept
  <2>1. AllInTurn(chunks, Optional) /\ 1..text.words \subseteq Optional \cup Told(chunks)
    BY DEF Telling
  <2>2. \A w \in (1..text.words) \ Optional : \E k \in DOMAIN chunks : InChunk(w, k)
    BY <2>1 DEF Told, WordsOf, InChunk
  <2>3. ASSUME NEW k \in DOMAIN chunks, NEW i \in DOMAIN chunks[k],
               NEW w \in (1..(chunks[k][i] - 1)) \ Optional
        PROVE  (\E j \in 1..(k - 1) : InChunk(w, j)) \/ \E h \in 1..(i - 1) : chunks[k][h] = w
    BY <2>1 DEF AllInTurn, InTurn, WordsOf, InChunk
  <2> QED BY <2>2, <2>3
<1> QED BY <1>1, TellingInvariance, PTL
-----------------------------------------------------------------------------
(* The recursive chunker repeats exactly the overlap *)

Rising(ws) == \A i, j \in DOMAIN ws : i < j => ws[i] < ws[j]

Below(vs, ws) == \A v \in vs, w \in ws : v < w

\* Pieces with words, in the order of the text and apart from each other.
Layered(cs) ==
  /\ \A k \in DOMAIN cs : cs[k] # <<>> /\ Rising(cs[k])
  /\ \A j, k \in DOMAIN cs : j < k => Below(WordsOf(cs[j]), WordsOf(cs[k]))

\* d begins with the last words of c, o of them if there are as many, and has
\* more words, all in order.
Continues(c, d, o) ==
  LET n == IF Len(c) < o THEN Len(c) ELSE o
  IN  Len(d) > n /\ (\A i \in 1..n : d[i] = c[Len(c) - n + i]) /\ Rising(d)

Linked(cs, o) == \A k \in 1..(Len(cs) - 1) : Continues(cs[k], cs[k + 1], o)

SplitLayers == Layered(pieces) /\ Below(Told(pieces), {NextFrom(frames, 1, Final)})

MergeLayers ==
  /\ Layered(pieces) /\ Rising(current) /\ Below(WordsOf(current), Told(pieces))
  /\ Linked(chunks, Overlap)
  /\ chunks # <<>> => Continues(chunks[Len(chunks)], current, Overlap)

Layers == ~semantic => /\ phase = "splitting" => SplitLayers
                       /\ phase = "merging" => MergeLayers
                       /\ phase = "done" => Linked(chunks, Overlap)

\* The words of a range rise.
LEMMA RangeRises ==
  ASSUME NEW r, r.from \in Int, r.to \in Int, r.from <= r.to + 1
  PROVE  Rising(Words(r)) /\ (Count(r) # 0 => Words(r) # <<>>)
<1>1. /\ Words(r) \in Seq(Int) /\ Len(Words(r)) = Count(r) /\ DOMAIN Words(r) = 1..Count(r)
      /\ \A i \in 1..Count(r) : Words(r)[i] = r.from + i - 1
      /\ Count(r) \in Nat
  BY RangeWords
<1>2. Rising(Words(r))
  <2> SUFFICES ASSUME NEW i \in 1..Count(r), NEW j \in 1..Count(r), i < j
               PROVE  Words(r)[i] < Words(r)[j]
    BY <1>1 DEF Rising
  <2>1. r.from + i - 1 < r.from + j - 1
    BY <1>1
  <2> QED BY <1>1, <2>1
<1>3. Count(r) # 0 => Words(r) # <<>>
  BY <1>1, EmptySeq
<1> QED BY <1>2, <1>3

\* Rising words behind lower ones that rise.
LEMMA RisingJoin ==
  ASSUME NEW u \in Seq(Int), NEW v \in Seq(Int), Rising(u), Rising(v), Below(WordsOf(u), WordsOf(v))
  PROVE  Rising(u \o v)
<1> SUFFICES ASSUME NEW i \in DOMAIN (u \o v), NEW j \in DOMAIN (u \o v), i < j
             PROVE  (u \o v)[i] < (u \o v)[j]
  BY DEF Rising
<1>0. Len(u) \in Nat /\ DOMAIN u = 1..Len(u) /\ DOMAIN v = 1..Len(v) /\ Len(v) \in Nat
  BY Joined
<1>1. \/ i \in DOMAIN u /\ (u \o v)[i] = u[i]
      \/ \E h \in DOMAIN v : i = Len(u) + h /\ (u \o v)[i] = v[h]
  BY JoinedDomain
<1>2. \/ j \in DOMAIN u /\ (u \o v)[j] = u[j]
      \/ \E h \in DOMAIN v : j = Len(u) + h /\ (u \o v)[j] = v[h]
  BY JoinedDomain
<1>3. CASE i \in DOMAIN u /\ (u \o v)[i] = u[i]
  <2>1. CASE j \in DOMAIN u /\ (u \o v)[j] = u[j]
    BY <1>3, <2>1 DEF Rising
  <2>2. ASSUME NEW h \in DOMAIN v, (u \o v)[j] = v[h] PROVE (u \o v)[i] < (u \o v)[j]
    BY <1>3, <2>2 DEF Below, WordsOf
  <2> QED BY <1>2, <2>1, <2>2
<1>4. ASSUME NEW g \in DOMAIN v, i = Len(u) + g, (u \o v)[i] = v[g]
      PROVE  (u \o v)[i] < (u \o v)[j]
  <2>1. PICK h \in DOMAIN v : j = Len(u) + h /\ (u \o v)[j] = v[h]
    <3>1. j \notin DOMAIN u
      BY <1>0, <1>4
    <3> QED BY <1>2, <3>1
  <2>2. g < h
    BY <1>0, <1>4, <2>1
  <2> QED BY <1>4, <2>1, <2>2 DEF Rising
<1> QED BY <1>1, <1>3, <1>4

\* A piece above all that have been collected.
LEMMA LayeredAppend ==
  ASSUME NEW cs \in Seq(Seq(Int)), NEW ws \in Seq(Int), Layered(cs), ws # <<>>, Rising(ws),
         Below(Told(cs), WordsOf(ws))
  PROVE  Layered(Append(cs, ws)) /\ Told(Append(cs, ws)) = Told(cs) \cup WordsOf(ws)
<1>1. PICK n \in Nat, ds \in Seq(Seq(Int)) :
        /\ n = Len(cs) /\ DOMAIN cs = 1..n /\ ds = Append(cs, ws) /\ DOMAIN ds = 1..(n + 1)
        /\ ds[n + 1] = ws /\ \A k \in 1..n : ds[k] = cs[k]
  <2>1. Len(cs) \in Nat /\ DOMAIN cs = 1..Len(cs)
    BY LenProperties
  <2>2. /\ Append(cs, ws) \in Seq(Seq(Int)) /\ Len(Append(cs, ws)) = Len(cs) + 1
        /\ Append(cs, ws)[Len(cs) + 1] = ws /\ \A k \in 1..Len(cs) : Append(cs, ws)[k] = cs[k]
    BY <2>1, AppendProperties
  <2>3. DOMAIN Append(cs, ws) = 1..(Len(cs) + 1)
    BY <2>2, LenProperties
  <2> QED BY <2>1, <2>2, <2>3
<1>2. \A k \in 1..(n + 1) : k \in 1..n \/ k = n + 1
  OBVIOUS
<1>3. \A k \in 1..n : WordsOf(cs[k]) \subseteq Told(cs)
  BY <1>1 DEF Told
<1>4. \A k \in 1..(n + 1) : ds[k] # <<>> /\ Rising(ds[k])
  BY <1>1, <1>2 DEF Layered
<1>5. ASSUME NEW j \in 1..(n + 1), NEW k \in 1..(n + 1), j < k
      PROVE  Below(WordsOf(ds[j]), WordsOf(ds[k]))
  <2>1. j \in 1..n
    BY <1>5
  <2>2. CASE k \in 1..n
    BY <1>1, <1>5, <2>1, <2>2 DEF Layered
  <2>3. CASE k = n + 1
    BY <1>1, <1>3, <2>1, <2>3 DEF Below
  <2> QED BY <1>2, <2>2, <2>3
<1>6. Told(ds) = Told(cs) \cup WordsOf(ws)
  <2>1. <<ws>> \in Seq(Seq(Int)) /\ Told(<<ws>>) = WordsOf(ws) /\ ds = cs \o <<ws>>
    BY <1>1, OnePiece
  <2> QED BY <2>1, ToldJoin
<1> QED BY <1>1, <1>4, <1>5, <1>6 DEF Layered

\* The first piece is below the others.
LEMMA LayeredTail ==
  ASSUME NEW cs \in Seq(Seq(Int)), cs # <<>>, Layered(cs)
  PROVE  /\ Head(cs) # <<>> /\ Rising(Head(cs)) /\ Layered(Tail(cs))
         /\ Below(WordsOf(Head(cs)), Told(Tail(cs)))
<1>1. PICK n \in Nat, t \in Seq(Seq(Int)) :
        /\ DOMAIN cs = 1..(n + 1) /\ t = Tail(cs) /\ DOMAIN t = 1..n /\ Head(cs) = cs[1]
        /\ \A k \in 1..n : t[k] = cs[k + 1]
  <2>1. Len(cs) \in Nat \ {0} /\ DOMAIN cs = 1..Len(cs)
    BY LenProperties, EmptySeq
  <2>2. PICK n \in Nat : Len(cs) = n + 1
    <3>1. Len(cs) - 1 \in Nat /\ Len(cs) = (Len(cs) - 1) + 1
      BY <2>1
    <3> QED BY <3>1
  <2>3. Tail(cs) \in Seq(Seq(Int)) /\ Len(Tail(cs)) = n /\ \A k \in 1..n : Tail(cs)[k] = cs[k + 1]
    BY <2>2, HeadTailProperties
  <2>4. DOMAIN Tail(cs) = 1..n
    BY <2>3, LenProperties
  <2>5. Head(cs) = cs[1]
    OBVIOUS
  <2> QED BY <2>1, <2>2, <2>3, <2>4, <2>5
<1>2. 1 \in 1..(n + 1) /\ \A k \in 1..n : k + 1 \in 1..(n + 1) /\ 1 < k + 1
  OBVIOUS
<1>3. Head(cs) # <<>> /\ Rising(Head(cs))
  BY <1>1, <1>2 DEF Layered
<1>4. \A k \in 1..n : t[k] # <<>> /\ Rising(t[k])
  BY <1>1, <1>2 DEF Layered
<1>5. \A j, k \in 1..n : j < k => Below(WordsOf(t[j]), WordsOf(t[k]))
  <2> SUFFICES ASSUME NEW j \in 1..n, NEW k \in 1..n, j < k PROVE Below(WordsOf(t[j]), WordsOf(t[k]))
    OBVIOUS
  <2>1. j + 1 \in 1..(n + 1) /\ k + 1 \in 1..(n + 1) /\ j + 1 < k + 1
    OBVIOUS
  <2> QED BY <1>1, <2>1 DEF Layered
<1>6. \A k \in 1..n : Below(WordsOf(cs[1]), WordsOf(t[k]))
  BY <1>1, <1>2 DEF Layered
<1>7. Below(WordsOf(cs[1]), Told(t))
  BY <1>1, <1>6 DEF Below, Told
<1> QED BY <1>1, <1>3, <1>4, <1>5, <1>7 DEF Layered

\* A chunk is followed by its last words and those of the next piece.
LEMMA NextContinues ==
  ASSUME NEW c \in Seq(Int), Rising(c), NEW h \in Seq(Int), h # <<>>, Rising(h),
         Below(WordsOf(c), WordsOf(h))
  PROVE  Continues(c, Carried(c) \o h, Overlap)
<1>1. PICK k \in Seq(Int), n \in Nat :
        /\ k = Carried(c) /\ n = Shared(c) /\ Len(k) = n /\ DOMAIN k = 1..n /\ n <= Len(c)
        /\ \A i \in 1..n : k[i] = c[Len(c) - n + i]
        /\ WordsOf(k) \subseteq WordsOf(c)
  BY CarriedWords
<1>2. Len(c) \in Nat /\ DOMAIN c = 1..Len(c) /\ Len(h) \in Nat \ {0}
  BY LenProperties, EmptySeq
<1>3. Rising(k)
  <2> SUFFICES ASSUME NEW i \in 1..n, NEW j \in 1..n, i < j PROVE k[i] < k[j]
    BY <1>1 DEF Rising
  <2>1. /\ Len(c) - n + i \in DOMAIN c /\ Len(c) - n + j \in DOMAIN c
        /\ Len(c) - n + i < Len(c) - n + j
    <3>1. PICK m \in Nat : m = Len(c) /\ n <= m /\ DOMAIN c = 1..m
      BY <1>1, <1>2
    <3>2. m - n + i \in 1..m /\ m - n + j \in 1..m /\ m - n + i < m - n + j
      BY <3>1
    <3> QED BY <3>1, <3>2
  <2>2. c[Len(c) - n + i] < c[Len(c) - n + j]
    BY <2>1 DEF Rising
  <2> QED BY <1>1, <2>2
<1>4. Rising(k \o h)
  <2>1. Below(WordsOf(k), WordsOf(h))
    BY <1>1 DEF Below
  <2> QED BY <1>3, <2>1, RisingJoin
<1>5. Len(k \o h) > n /\ \A i \in 1..n : (k \o h)[i] = c[Len(c) - n + i]
  <2>1. Len(k \o h) = n + Len(h) /\ \A i \in 1..n : (k \o h)[i] = k[i]
    BY <1>1, Joined
  <2> QED BY <1>1, <1>2, <2>1
<1> QED BY <1>1, <1>4, <1>5 DEF Continues, Shared

\* A chunk that grows still continues the one before.
LEMMA StillContinues ==
  ASSUME NEW c \in Seq(Int), NEW d \in Seq(Int), NEW h \in Seq(Int), NEW o \in Nat,
         Continues(c, d, o), Rising(d \o h)
  PROVE  Continues(c, d \o h, o)
<1>1. PICK n : n = IF Len(c) < o THEN Len(c) ELSE o
  OBVIOUS
<1>2. n \in Nat /\ Len(d) \in Nat /\ Len(h) \in Nat
  BY <1>1, LenProperties
<1>3. Len(d) > n /\ \A i \in 1..n : d[i] = c[Len(c) - n + i]
  BY <1>1 DEF Continues
<1>4. Len(d \o h) = Len(d) + Len(h) /\ \A i \in 1..Len(d) : (d \o h)[i] = d[i]
  BY Joined
<1>5. Len(d \o h) > n /\ \A i \in 1..n : (d \o h)[i] = c[Len(c) - n + i]
  BY <1>2, <1>3, <1>4
<1> QED BY <1>1, <1>5 DEF Continues

\* A chunk that continues the last one.
LEMMA LinkedAppend ==
  ASSUME NEW cs \in Seq(Seq(Int)), NEW ws \in Seq(Int), NEW o, Linked(cs, o),
         cs # <<>> => Continues(cs[Len(cs)], ws, o)
  PROVE  /\ Linked(Append(cs, ws), o) /\ Append(cs, ws) \in Seq(Seq(Int))
         /\ Append(cs, ws)[Len(Append(cs, ws))] = ws
<1>1. PICK n \in Nat, ds \in Seq(Seq(Int)) :
        /\ n = Len(cs) /\ ds = Append(cs, ws) /\ Len(ds) = n + 1
        /\ ds[n + 1] = ws /\ \A k \in 1..n : ds[k] = cs[k]
  <2>1. Len(cs) \in Nat
    BY LenProperties
  <2>2. /\ Append(cs, ws) \in Seq(Seq(Int)) /\ Len(Append(cs, ws)) = Len(cs) + 1
        /\ Append(cs, ws)[Len(cs) + 1] = ws /\ \A k \in 1..Len(cs) : Append(cs, ws)[k] = cs[k]
    BY <2>1, AppendProperties
  <2> QED BY <2>1, <2>2
<1>2. ASSUME NEW k \in 1..n PROVE Continues(ds[k], ds[k + 1], o)
  <2>1. CASE k = n
    <3>1. cs # <<>>
      BY <1>1, <1>2, EmptySeq
    <3> QED BY <1>1, <2>1, <3>1
  <2>2. CASE k # n
    <3>1. k \in 1..(n - 1) /\ k + 1 \in 1..n
      BY <2>2
    <3> QED BY <1>1, <3>1 DEF Linked
  <2> QED BY <2>1, <2>2
<1>3. n + 1 - 1 = n
  OBVIOUS
<1> QED BY <1>1, <1>2, <1>3 DEF Linked

\* No chunks, and no pieces.
LEMMA NoLayers ==
  /\ Layered(<<>>) /\ Rising(<<>>) /\ \A o : Linked(<<>>, o)
  /\ \A s : Below({}, s) /\ Below(s, {})
BY DEF Layered, Rising, Linked, Below

\* The splitter adds a piece above the others, or none.
LEMMA SplitStepLayers == IInv /\ Telling /\ Layers /\ SplitStep => Layers'
<1> SUFFICES ASSUME IInv, Telling, Layers, SplitStep, ~semantic' PROVE Layers'
  BY DEF Layers
<1>1. /\ UNCHANGED <<text, semantic, current, chunks, groups, raw, nested>> /\ phase = "splitting"
      /\ current = <<>> /\ chunks = <<>>
  BY DEF SplitStep, Fits, TryNext, Loop, NextPart, Return, SplitDone, IInv, Lengths
<1>2. Final' = Final /\ Overlap' = Overlap
  BY <1>1, SameText, SameSizes
<1>3. /\ pieces \in Seq(Seq(Int)) /\ Final \in Int /\ TypeOK /\ Seamless(frames, Final, Optional)
      /\ Layered(pieces) /\ Below(Told(pieces), {NextFrom(frames, 1, Final)})
  BY <1>1, WordTypes DEF Telling, SplitTells, IInv, Layers, SplitLayers
<1>4. CASE SplitDone
  <2>1. phase' = "merging" /\ pieces' = pieces
    BY <1>4 DEF SplitDone
  <2>2. MergeLayers'
    BY <1>1, <1>3, <2>1, Nothing, NoLayers DEF MergeLayers
  <2> QED BY <2>1, <2>2 DEF Layers
<1>5. CASE ~SplitDone
  <2>1. phase' = "splitting"
    BY <1>3, <1>5, SplitMoves
  <2>2. PICK r : /\ r.from = NextFrom(frames, 1, Final) /\ r.from \in Int /\ r.to \in Int
                 /\ r.from <= r.to + 1
                 /\ pieces' = IF Count(r) = 0 THEN pieces ELSE Append(pieces, Words(r))
                 /\ NextFrom(frames', 1, Final) \in Int /\ r.to < NextFrom(frames', 1, Final)
    BY <1>3, <1>5, SplitMoves
  <2>3. PICK n \in Int : n = NextFrom(frames', 1, Final) /\ r.to < n /\ r.from <= n
    BY <2>2
  <2>4. Layered(pieces') /\ \A v \in Told(pieces') : v < n
    <3>1. \A v \in Told(pieces) : v \in Int
      BY <1>3, ElementOfSeq, LenProperties DEF Told, WordsOf
    <3>2. \A v \in Told(pieces) : v < r.from
      BY <1>3, <2>2 DEF Below
    <3>3. \A v \in Told(pieces) : v < n
      BY <2>2, <2>3, <3>1, <3>2
    <3>4. CASE Count(r) = 0
      BY <1>3, <2>2, <3>3, <3>4
    <3>5. CASE Count(r) # 0
      <4>1. PICK ws \in Seq(Int) : /\ ws = Words(r) /\ WordsOf(ws) = r.from..r.to
                                   /\ ws # <<>> /\ Rising(ws)
        BY <2>2, <3>5, RangeWords, RangeRises
      <4>2. Below(Told(pieces), WordsOf(ws))
        <5> SUFFICES ASSUME NEW v \in Told(pieces), NEW w \in r.from..r.to PROVE v < w
          BY <4>1 DEF Below
        <5> QED BY <2>2, <3>1, <3>2
      <4>3. Layered(Append(pieces, ws)) /\ Told(Append(pieces, ws)) = Told(pieces) \cup WordsOf(ws)
        BY <1>3, <4>1, <4>2, LayeredAppend
      <4>4. \A v \in r.from..r.to : v < n
        BY <2>2, <2>3
      <4> QED BY <2>2, <3>3, <3>5, <4>1, <4>3, <4>4
    <3> QED BY <3>4, <3>5
  <2>5. SplitLayers'
    BY <1>2, <2>3, <2>4 DEF SplitLayers, Below
  <2> QED BY <2>1, <2>5 DEF Layers
<1> QED BY <1>4, <1>5

\* The merge: a chunk that is full is continued, one that is not grows.
LEMMA MergeStepLayers == IInv /\ Layers /\ (MergePiece \/ MergeDone) => Layers'
<1> SUFFICES ASSUME IInv, Layers, MergePiece \/ MergeDone, ~semantic PROVE Layers'
  BY DEF Layers, MergePiece, MergeDone
<1>1. UNCHANGED <<text, semantic, nested>> /\ phase = "merging"
  BY DEF MergePiece, MergeDone
<1>2. Overlap' = Overlap /\ Overlap \in Nat
  BY <1>1, SameSizes, Sizes
<1>3. /\ pieces \in Seq(Seq(Int)) /\ current \in Seq(Int) /\ chunks \in Seq(Seq(Int)) /\ ~nested
      /\ Layered(pieces) /\ Rising(current) /\ Below(WordsOf(current), Told(pieces))
      /\ Linked(chunks, Overlap)
      /\ chunks # <<>> => Continues(chunks[Len(chunks)], current, Overlap)
  BY <1>1, WordTypes DEF IInv, TypeOK, Layers, MergeLayers
<1>4. /\ Linked(Append(chunks, current), Overlap) /\ Append(chunks, current) \in Seq(Seq(Int))
      /\ Append(chunks, current)[Len(Append(chunks, current))] = current
  BY <1>3, LinkedAppend
<1>5. CASE MergePiece
  <2>1. phase' = "merging" /\ pieces # <<>> /\ pieces' = Tail(pieces)
    BY <1>1, <1>5 DEF MergePiece
  <2>2. PICK h \in Seq(Int), t \in Seq(Seq(Int)) :
          /\ h = Head(pieces) /\ t = Tail(pieces) /\ Told(pieces) = WordsOf(h) \cup Told(t)
          /\ h # <<>> /\ Rising(h) /\ Layered(t) /\ Below(WordsOf(h), Told(t))
    BY <1>3, <2>1, FirstPiece, LayeredTail
  <2>3. Below(WordsOf(current), WordsOf(h)) /\ Below(WordsOf(current), Told(t))
    BY <1>3, <2>2 DEF Below
  <2>4. CASE Overflows(h)
    <3>1. PICK k \in Seq(Int) : k = Carried(current) /\ WordsOf(k) \subseteq WordsOf(current)
      BY <1>3, CarriedWords
    <3>2. chunks' = Append(chunks, current) /\ current' = k \o h
      BY <1>5, <2>2, <2>4, <3>1 DEF MergePiece
    <3>3. Continues(current, k \o h, Overlap)
      BY <1>3, <2>2, <2>3, <3>1, NextContinues
    <3>4. Rising(k \o h)
      BY <3>3 DEF Continues
    <3>5. WordsOf(k \o h) = WordsOf(k) \cup WordsOf(h)
      BY <2>2, <3>1, WordsJoin
    <3>6. Below(WordsOf(k \o h), Told(t))
      BY <2>2, <2>3, <3>1, <3>5 DEF Below
    <3>7. MergeLayers'
      BY <1>2, <1>4, <2>1, <2>2, <3>2, <3>3, <3>4, <3>6 DEF MergeLayers
    <3> QED BY <2>1, <3>7 DEF Layers
  <2>5. CASE ~Overflows(h)
    <3>1. chunks' = chunks /\ current' = current \o h
      BY <1>5, <2>2, <2>5 DEF MergePiece
    <3>2. Rising(current \o h)
      BY <1>3, <2>2, <2>3, RisingJoin
    <3>3. WordsOf(current \o h) = WordsOf(current) \cup WordsOf(h)
      BY <1>3, <2>2, WordsJoin
    <3>4. Below(WordsOf(current \o h), Told(t))
      BY <2>2, <2>3, <3>3 DEF Below
    <3>5. chunks # <<>> => Continues(chunks[Len(chunks)], current \o h, Overlap)
      <4> SUFFICES ASSUME chunks # <<>> PROVE Continues(chunks[Len(chunks)], current \o h, Overlap)
        OBVIOUS
      <4>1. PICK c \in Seq(Int) : c = chunks[Len(chunks)]
        <5>1. Len(chunks) \in 1..Len(chunks)
          BY <1>3, LenProperties, EmptySeq
        <5> QED BY <1>3, <5>1, ElementOfSeq
      <4> QED BY <1>2, <1>3, <2>2, <3>2, <4>1, StillContinues
    <3>6. MergeLayers'
      BY <1>2, <1>3, <2>1, <2>2, <3>1, <3>2, <3>4, <3>5 DEF MergeLayers
    <3> QED BY <2>1, <3>6 DEF Layers
  <2> QED BY <2>4, <2>5
<1>6. CASE MergeDone
  <2>1. phase' = "done" /\ chunks' = IF current = <<>> THEN chunks ELSE Append(chunks, current)
    BY <1>3, <1>6 DEF MergeDone
  <2>2. Linked(chunks', Overlap)
    BY <1>3, <1>4, <2>1
  <2> QED BY <1>2, <2>1, <2>2 DEF Layers
<1> QED BY <1>5, <1>6

\* Where the recursive chunker starts, it has nothing; the groups are not its work.
LEMMA GroupLayers ==
  IInv /\ Layers /\ (Blank \/ ChunkText \/ Embed \/ FallBack \/ Group \/ TakeGroup \/ MergeRaw) => Layers'
<1> SUFFICES ASSUME IInv, Layers, ~semantic',
                    Blank \/ ChunkText \/ Embed \/ FallBack \/ Group \/ TakeGroup \/ MergeRaw
             PROVE  Layers'
  BY DEF Layers
<1>1. CASE Blank
  <2>1. phase' = "done" /\ chunks' = <<>>
    BY <1>1 DEF Blank, IInv, Lengths
  <2> QED BY <2>1, NoLayers DEF Layers
<1>2. CASE ChunkText \/ FallBack
  <2>1. phase' = "splitting" /\ pieces' = <<>>
    BY <1>2 DEF ChunkText, FallBack, Split
  <2>2. SplitLayers'
    BY <2>1, Nothing, NoLayers DEF SplitLayers
  <2> QED BY <2>1, <2>2 DEF Layers
<1>3. CASE Embed
  BY <1>3 DEF Embed, Layers
<1>4. CASE Group \/ TakeGroup \/ MergeRaw
  <2>1. semantic' = semantic /\ (phase = "embedding" \/ phase = "grouping")
    BY <1>4 DEF Group, TakeGroup, MergeRaw
  <2> QED BY <2>1 DEF IInv, TypeOK, Lengths
<1> QED BY <1>1, <1>2, <1>3, <1>4

\* Nothing is split yet, or nothing changes.
LEMMA StartLayers == (Init => Layers) /\ (Layers /\ UNCHANGED vars => Layers')
<1>1. Init => Layers
  BY DEF Init, Layers
<1>2. Layers /\ UNCHANGED vars => Layers'
  <2> SUFFICES ASSUME Layers, UNCHANGED vars PROVE Layers'
    OBVIOUS
  <2>1. Overlap' = Overlap /\ Final' = Final
    BY SameSizes, SameText DEF vars
  <2> QED BY <2>1 DEF Layers, SplitLayers, MergeLayers, vars
<1> QED BY <1>1, <1>2

\* The invariant of the recursive chunker: its pieces rise and lie apart, and
\* every chunk, the one being collected too, continues the chunk before it.
THEOREM LayersInvariance == Spec => []Layers
<1>1. IInv /\ Telling /\ Layers /\ [Next]_vars => Layers'
  BY SplitStepLayers, MergeStepLayers, GroupLayers, StartLayers DEF Next
<1>2. Init => Layers
  BY StartLayers
<1> QED BY TellingInvariance, <1>1, <1>2, PTL DEF Spec

\* The chunks of the recursive chunker overlap in exactly the last words of the
\* former, as many as configured or as there are; then new words follow, and no
\* chunk has a word twice.
THEOREM OverlapIsExact == Spec => []OverlapExact
<1>1. IInv /\ Layers => OverlapExact
  <2> SUFFICES ASSUME IInv, Layers, phase = "done", ~semantic, NEW k \in 1..(Len(chunks) - 1)
               PROVE  LET c == chunks[k]
                          d == chunks[k + 1]
                          n == IF Len(c) < Overlap THEN Len(c) ELSE Overlap
                      IN  /\ Len(d) > n
                          /\ \A i \in 1..n : d[i] = c[Len(c) - n + i]
                          /\ \A i \in 1..(Len(d) - 1) : d[i] < d[i + 1]
    BY DEF OverlapExact
  <2>1. PICK d : d = chunks[k + 1]
    OBVIOUS
  <2>2. Continues(chunks[k], d, Overlap)
    BY <2>1 DEF Layers, Linked
  <2>3. d \in Seq(Int)
    <3>1. chunks \in Seq(UpTo(Bound))
      BY DEF IInv, Lengths
    <3>2. Len(chunks) \in Nat
      BY <3>1, LenProperties
    <3>3. k + 1 \in 1..Len(chunks)
      BY <3>2
    <3>4. d \in UpTo(Bound)
      BY <2>1, <3>1, <3>3, ElementOfSeq
    <3> QED BY <3>4 DEF UpTo
  <2>4. ASSUME NEW i \in 1..(Len(d) - 1) PROVE d[i] < d[i + 1]
    <3>1. Len(d) \in Nat /\ DOMAIN d = 1..Len(d)
      BY <2>3, LenProperties
    <3>2. i \in DOMAIN d /\ i + 1 \in DOMAIN d /\ i < i + 1
      BY <3>1
    <3> QED BY <2>2, <3>2 DEF Continues, Rising
  <2> QED BY <2>1, <2>2, <2>4 DEF Continues
<1> QED BY <1>1, LayersInvariance, Invariance, PTL
=============================================================================
