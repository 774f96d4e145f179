----------------------------- MODULE RouterCache -----------------------------
(***************************************************************************)
(* app/utils/router_cache.py: an insertion-ordered dictionary with a time  *)
(* to live and a bound on its size, and an index from tags to keys.  No    *)
(* method awaits, so each is one function from a cache to the next.        *)
(*                                                                         *)
(* A cache is [dict |-> ..., before |-> ..., tags |-> ...]: dict maps the  *)
(* keys to their entries; before has <<j, k>> if key j was inserted before *)
(* key k, which is the order in which the dictionary lists them; tags maps *)
(* a tag to the keys under it (a tag that the program has dropped from its *)
(* dictionary has none).                                                   *)
(* Time is relative: left is expire_time - time.time() in clock ticks, and *)
(* an entry with nothing left is still served, as time > expire_time says. *)
(***************************************************************************)
EXTENDS Integers, FiniteSets, Functions

CONSTANTS Tags,
          MaxSize,     \* RouterCache.maxsize, at least 1
          DefaultTTL   \* RouterCache.default_ttl, in ticks

Empty == [dict |-> <<>>, before |-> {}, tags |-> [t \in Tags |-> {}]]

Keys(c) == DOMAIN c.dict

\* A mutant of Expired: nobody looks at the clock.
NeverExpired(e) == FALSE

Expired(e) == e.left < 0

\* One tick of the clock; what is over stays over.
Older(e) == [e EXCEPT !.left = IF @ < 0 THEN @ ELSE @ - 1]
Age(c) == [c EXCEPT !.dict = [k \in DOMAIN @ |-> Older(@[k])]]

\* A mutant of Unindexed: the keys stay in the index.
StillIndexed(tags, ks) == tags

Unindexed(tags, ks) == [t \in Tags |-> tags[t] \ ks]

\* invalidate_key, for every key of ks.
Drop(c, ks) ==
  LET kept == Keys(c) \ ks
  IN  [dict |-> Restrict(c.dict, kept), before |-> c.before \cap (kept \X kept),
       tags |-> Unindexed(c.tags, ks)]

\* get: what a lookup finds, and what it leaves behind.
Hit(c, k) == k \in Keys(c) /\ ~Expired(c.dict[k])
AfterGet(c, k) == IF k \in Keys(c) /\ ~Hit(c, k) THEN Drop(c, {k}) ELSE c

Full(ks) == Cardinality(ks) >= MaxSize
Outdated(c) == {k \in Keys(c) : Expired(c.dict[k])}

\* The first key goes, even when it is the key about to be set.
Oldest(c, ks) == CHOOSE k \in ks : \A j \in ks : <<j, k>> \notin c.before

\* What is removed from a full cache: what has expired, and if the rest is
\* still too much, the oldest of it.
Evicted(c) ==
  LET rest == Keys(c) \ Outdated(c)
  IN  Outdated(c) \cup (IF Full(rest) THEN {Oldest(c, rest)} ELSE {})

\* A mutant of Indexed: the entry is stored without its tag.
NotIndexed(tags, k, ts) == tags

Indexed(tags, k, ts) == [t \in Tags |-> IF t \in ts THEN tags[t] \cup {k} ELSE tags[t]]

\* No caller gives a ttl of its own.
Lifetime == DefaultTTL

\* set: e is stored under k; a key that is present keeps its place.
Put(c, k, e, ts) ==
  [dict |-> [j \in Keys(c) \cup {k} |-> IF j = k THEN [e EXCEPT !.left = Lifetime] ELSE c.dict[j]],
   before |-> c.before \cup (IF k \in Keys(c) THEN {} ELSE Keys(c) \X {k}),
   tags |-> Indexed(c.tags, k, ts)]

Set(c, k, e, ts) == Put(IF Full(Keys(c)) THEN Drop(c, Evicted(c)) ELSE c, k, e, ts)

\* invalidate_tag
InvalidateTag(c, t) == Drop(c, c.tags[t])
=============================================================================
