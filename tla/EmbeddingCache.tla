--------------------------- MODULE EmbeddingCache ---------------------------
(***************************************************************************)
(* app/utils/embedding_cache.py: a least-recently-used cache with a time   *)
(* to live, as functions from one store to the next.  Its lock is never    *)
(* held across an await, so _get and _set are atomic.                      *)
(*                                                                         *)
(* A store is the OrderedDict: a sequence of entries, the least recently   *)
(* used first.  left is what remains of an entry's time to live, in ticks; *)
(* an entry is still good when exactly nothing is left.                    *)
(***************************************************************************)
EXTENDS Integers, Sequences, SequencesExt

CONSTANTS Texts,
          MaxSize,  \* _maxsize, at least 1
          TTL       \* _ttl, in ticks

\* What the embedding API may return; "nothing" is the None of a failed call.
Vectors == {"vector", "nothing"}

Entry == [text : Texts, vector : Vectors, left : -1..TTL]

Holds(s, t) == \E i \in DOMAIN s : s[i].text = t
Index(s, t) == CHOOSE i \in DOMAIN s : s[i].text = t

Expired(e) == e.left < 0

Hit(s, t) == Holds(s, t) /\ ~Expired(s[Index(s, t)])

\* A mutant of MoveToEnd: a hit leaves the order alone.
StayInPlace(s, i) == s

MoveToEnd(s, i) == Append(RemoveAt(s, i), s[i])

\* _get: a hit becomes the most recent entry, an expired entry goes.
AfterGet(s, t) ==
  IF ~Holds(s, t) THEN s
  ELSE IF Hit(s, t) THEN MoveToEnd(s, Index(s, t))
  ELSE RemoveAt(s, Index(s, t))

\* Mutants of Room: nothing is evicted, or the most recent entry is.
NoRoom(s) == s
DropNewest(s) == IF Len(s) >= MaxSize THEN Front(s) ELSE s

Room(s) == IF Len(s) >= MaxSize THEN Tail(s) ELSE s

\* _set: the text's entry, old or new, becomes the most recent one.
AfterSet(s, t, v) ==
  Append(IF Holds(s, t) THEN RemoveAt(s, Index(s, t)) ELSE Room(s),
         [text |-> t, vector |-> v, left |-> TTL])

\* One tick of the monotonic clock.
Older(s) == [i \in DOMAIN s |-> [s[i] EXCEPT !.left = IF @ < 0 THEN @ ELSE @ - 1]]
-----------------------------------------------------------------------------
\* The bound holds and no text has two entries.
WellFormed(s) ==
  /\ s \in Seq(Entry)
  /\ Len(s) <= MaxSize
  /\ \A i, j \in DOMAIN s : s[i].text = s[j].text => i = j

\* after[t] is the set of texts used since t was used last: an entry stands
\* before those used after it, so that the first is the least recently used.
InRecencyOrder(s, after) ==
  \A i, j \in DOMAIN s : i < j => s[j].text \in after[s[i].text]
=============================================================================
