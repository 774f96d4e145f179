---------------------------- MODULE MCTextChunker ----------------------------
(* Texts of up to seven words: six with any separators between them and at   *)
(* most one lone period, and seven with three separators, any of which may   *)
(* end a sentence.                                                           *)
EXTENDS TextChunker

Plain == [words : {6}, gap : [1..5 -> 1..Leaf], stops : {{}}, ends : {{}}, lone : {{}, {1}, {4}}]

Prose == [words : {7}, gap : [1..6 -> {1, Period, Space}], stops : {{2, 4, 5}, {3, 6}},
          ends : {{2, 3, 4, 5}, {1, 2, 3, 4, 5, 6}, {3, 6}}, lone : {{}, {4}}]

Proper(t) ==
  /\ DOMAIN t.gap = 1..(t.words - 1)
  /\ t.stops \subseteq t.ends /\ t.ends \subseteq DOMAIN t.gap
  /\ t.lone \subseteq {i \in DOMAIN t.gap : t.gap[i] # Space}
  /\ t.lone \cap t.ends \subseteq t.stops
  /\ \A i \in t.ends : (t.gap[i] = Period => i \in t.stops) /\ (t.gap[i] = Space => i \notin t.stops)

MCTexts == {t \in Plain \cup Prose : Proper(t)}
             \cup {[words |-> n, gap |-> <<>>, stops |-> {}, ends |-> {}, lone |-> {}] : n \in {0, 1}}
=============================================================================
