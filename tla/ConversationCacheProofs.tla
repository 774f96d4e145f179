----------------------- MODULE ConversationCacheProofs -----------------------
(***************************************************************************)
(* What the cached conversation endpoints keep, for any workers, users,    *)
(* handlers and conversations, any size and any lifetime: the index of     *)
(* each cache, whose data it holds, and what a stale entry proves.         *)
(*                                                                         *)
(* The operators of RouterCache come first: what each does to a cache that *)
(* is in order (Kept) and to the staleness of its entries (Fresh).         *)
(***************************************************************************)
EXTENDS ConversationCache, FiniteSetTheorems, WellFoundedInduction, TLAPS

AllKeys == [user : Users, of : Targets]
Answers == [user : Users, version : Nat]
Entries == [left : Int, data : Answers, overtaken : BOOLEAN]

\* r orders S strictly and entirely.
Orders(r, S) ==
  /\ r \subseteq S \X S
  /\ \A k \in S : <<k, k>> \notin r
  /\ \A i, j, k \in S : <<i, j>> \in r /\ <<j, k>> \in r => <<i, k>> \in r
  /\ \A j, k \in S : j # k => <<j, k>> \in r \/ <<k, j>> \in r

\* A cache in order: at most MaxSize answers, each under a key of the user
\* whose data it is and who may see it, in one order, and indexed by user.
Kept(c) ==
  /\ c = [dict |-> c.dict, before |-> c.before, tags |-> c.tags]
  /\ RC!Keys(c) \subseteq AllKeys /\ c.dict \in [RC!Keys(c) -> Entries]
  /\ IsFiniteSet(RC!Keys(c)) /\ Cardinality(RC!Keys(c)) <= MaxSize
  /\ Orders(c.before, RC!Keys(c))
  /\ \A k \in RC!Keys(c) : c.dict[k].data.user = k.user /\ Visible(k.user, k.of)
  /\ c.tags = [u \in Users |-> {k \in RC!Keys(c) : k.user = u}]

\* An entry older than p, a version for each user, has been overtaken.
Fresh(c, p) == \A k \in RC!Keys(c) : c.dict[k].data.version < p[k.user] => c.dict[k].overtaken

\* What an open request can be, and what a read has in its hands.
ReadOK(r, p) ==
  /\ r.data.user = r.user /\ Visible(r.user, r.of)
  /\ r.data.version < p[r.worker][r.user] => r.overtaken

Requests ==
  {Free}
  \cup [at : {"reading"}, worker : Workers, user : Users, of : Targets, overtaken : BOOLEAN]
  \cup [at : {"filling"}, worker : Workers, user : Users, of : Targets, overtaken : BOOLEAN,
        data : Answers]
  \cup [at : {"writing", "streaming"}, worker : Workers, user : Users]

TypeOK ==
  /\ version \in [Users -> Nat]
  /\ purged \in [Workers -> [Users -> Nat]]
  /\ cache = [w \in Workers |-> cache[w]]
  /\ req \in [Handlers -> Requests]

IInv ==
  /\ TypeOK
  /\ \A w \in Workers, u \in Users : purged[w][u] <= version[u]
  /\ \A w \in Workers : Kept(cache[w]) /\ Fresh(cache[w], purged[w])
  /\ \A h \in Handlers : req[h].at = "filling" => ReadOK(req[h], purged)
-----------------------------------------------------------------------------
(* The first of a finite order *)

Less == {ss \in Nat \X Nat : ss[1] < ss[2]}

\* The order of the natural numbers is well-founded.
LEMMA LessIsWellFounded == IsWellFoundedOn(Less, Nat)
BY Zenon, NatLessThanWellFounded DEF OpToRel, Less

\* A set of natural numbers that is not empty has a least element.
LEMMA LeastNumber ==
  ASSUME NEW T \in SUBSET Nat, T # {}
  PROVE  \E n \in T : \A m \in T : n <= m
<1>1. PICK n \in T : \A m \in T : <<m, n>> \notin Less
  BY LessIsWellFounded, WFMin
<1>2. ASSUME NEW m \in T PROVE n <= m
  <2>1. ~(m < n)
    BY <1>1, <1>2 DEF Less
  <2> QED BY <1>1, <2>1
<1> QED BY <1>1, <1>2

\* A finite ordered set that is not empty has a first element: the one that
\* has the fewest before it.
LEMMA FirstExists ==
  ASSUME NEW S, IsFiniteSet(S), S # {}, NEW r, Orders(r, S)
  PROVE  \E k \in S : \A j \in S : <<j, k>> \notin r
<1> DEFINE P(k) == {j \in S : <<j, k>> \in r}
           T == {Cardinality(P(k)) : k \in S}
<1>1. \A k \in S : IsFiniteSet(P(k)) /\ Cardinality(P(k)) \in Nat
  <2> TAKE k \in S
  <2>1. P(k) \in SUBSET S
    OBVIOUS
  <2> HIDE DEF P
  <2> QED BY <2>1, FS_Subset, FS_CardinalityType
<1>2. T \in SUBSET Nat /\ T # {}
  BY <1>1
<1>3. PICK n \in T : \A m \in T : n <= m
  <2> HIDE DEF T
  <2> QED BY <1>2, LeastNumber
<1>4. PICK k \in S : n = Cardinality(P(k))
  OBVIOUS
<1>5. ASSUME NEW j \in S, <<j, k>> \in r PROVE FALSE
  <2>1. P(j) \in SUBSET P(k) /\ j \in P(k) /\ j \notin P(j)
    BY <1>5 DEF Orders
  <2>2. Cardinality(P(k)) <= Cardinality(P(j))
    BY <1>3, <1>4
  <2> HIDE DEF P, T
  <2>3. Cardinality(P(j)) <= Cardinality(P(k)) /\ (Cardinality(P(k)) = Cardinality(P(j)) => P(k) = P(j))
    BY <1>1, <2>1, FS_Subset
  <2>4. Cardinality(P(k)) = Cardinality(P(j))
    BY <1>1, <2>2, <2>3
  <2> QED BY <2>1, <2>3, <2>4
<1> QED BY <1>5
-----------------------------------------------------------------------------
(* The operators of RouterCache *)

\* The bound counts keys.
LEMMA FullMeans == \A S : RC!Full(S) <=> Cardinality(S) >= MaxSize
<1>1. \A S : RC!Cardinality(S) = Cardinality(S)
  BY Zenon DEF RC!Cardinality, Cardinality
<1> QED BY <1>1 DEF RC!Full

\* Removing keys keeps the cache in order, and does nothing to the others.
LEMMA DropKeeps ==
  ASSUME NEW c, Kept(c), NEW ks
  PROVE  LET d == RC!Drop(c, ks)
         IN  /\ Kept(d) /\ RC!Keys(d) = RC!Keys(c) \ ks
             /\ \A k \in RC!Keys(d) : d.dict[k] = c.dict[k]
<1> DEFINE d == RC!Drop(c, ks)
           kept == RC!Keys(c) \ ks
<1>1. /\ d = [dict |-> d.dict, before |-> d.before, tags |-> d.tags]
      /\ d.dict = [k \in kept |-> c.dict[k]]
      /\ d.before = c.before \cap (kept \X kept)
      /\ d.tags = [u \in Users |-> c.tags[u] \ ks]
  BY DEF RC!Drop, RC!Restrict, RC!Unindexed
<1>2. RC!Keys(d) = kept /\ \A k \in RC!Keys(d) : d.dict[k] = c.dict[k]
  BY <1>1 DEF RC!Keys
<1> HIDE DEF d
<1>3. IsFiniteSet(kept) /\ Cardinality(kept) <= MaxSize
  <2>1. kept \in SUBSET RC!Keys(c) /\ IsFiniteSet(RC!Keys(c)) /\ Cardinality(RC!Keys(c)) <= MaxSize
    BY DEF Kept
  <2> HIDE DEF kept
  <2>2. IsFiniteSet(kept) /\ Cardinality(kept) <= Cardinality(RC!Keys(c))
    BY <2>1, FS_Subset
  <2>3. Cardinality(kept) \in Nat /\ Cardinality(RC!Keys(c)) \in Nat /\ MaxSize \in Nat
    BY <2>1, <2>2, FS_CardinalityType, SizeAssumption
  <2> QED BY <2>1, <2>2, <2>3
<1>4. Orders(d.before, kept)
  BY <1>1 DEF Orders, Kept
<1>5. d.tags = [u \in Users |-> {k \in kept : k.user = u}]
  BY <1>1 DEF Kept
<1>6. kept \subseteq AllKeys /\ d.dict \in [kept -> Entries]
  BY <1>1 DEF Kept
<1>7. \A k \in kept : d.dict[k].data.user = k.user /\ Visible(k.user, k.of)
  BY <1>1 DEF Kept
<1>8. Kept(d)
  BY <1>1, <1>2, <1>3, <1>4, <1>5, <1>6, <1>7 DEF Kept
<1> QED BY <1>2, <1>8 DEF d

\* Whatever is removed, the entries that stay are as fresh as before.
LEMMA DropFresh ==
  ASSUME NEW c, Kept(c), NEW ks, NEW p, Fresh(c, p)
  PROVE  Fresh(RC!Drop(c, ks), p)
BY DropKeeps DEF Fresh

\* A full cache gives up enough of its keys for another one.
LEMMA EvictionMakesRoom ==
  ASSUME NEW c, Kept(c)
  PROVE  Cardinality(RC!Keys(c) \ RC!Evicted(c)) < MaxSize
<1> DEFINE old  == RC!Outdated(c)
           rest == RC!Keys(c) \ old
<1>1. /\ IsFiniteSet(RC!Keys(c)) /\ Cardinality(RC!Keys(c)) <= MaxSize
      /\ Orders(c.before, RC!Keys(c)) /\ MaxSize \in Nat \ {0}
  BY SizeAssumption DEF Kept
<1>2. rest \in SUBSET RC!Keys(c)
  OBVIOUS
<1> HIDE DEF rest
<1>3. /\ IsFiniteSet(rest) /\ Cardinality(rest) \in Nat
      /\ Cardinality(rest) <= Cardinality(RC!Keys(c)) /\ Cardinality(RC!Keys(c)) \in Nat
  BY <1>1, <1>2, FS_Subset, FS_CardinalityType
<1>4. CASE RC!Full(rest)
  <2>1. RC!Evicted(c) = old \cup {RC!Oldest(c, rest)}
    BY <1>4 DEF RC!Evicted, rest
  <2>2. rest # {}
    BY <1>1, <1>4, FS_EmptySet, FullMeans
  <2>3. Orders(c.before \cap (rest \X rest), rest)
    BY <1>1, <1>2 DEF Orders
  <2>4. PICK k \in rest : \A j \in rest : <<j, k>> \notin c.before \cap (rest \X rest)
    BY <1>3, <2>2, <2>3, FirstExists
  <2>5. \E i \in rest : \A j \in rest : <<j, i>> \notin c.before
    BY <2>4
  <2>6. RC!Oldest(c, rest) \in rest
    BY <2>5, Zenon DEF RC!Oldest
  <2>7. RC!Keys(c) \ RC!Evicted(c) = rest \ {RC!Oldest(c, rest)}
    BY <2>1 DEF rest
  <2>8. Cardinality(rest \ {RC!Oldest(c, rest)}) = Cardinality(rest) - 1
    BY <1>3, <2>6, FS_RemoveElement
  <2> QED BY <1>1, <1>3, <2>7, <2>8
<1>5. CASE ~RC!Full(rest)
  <2>1. RC!Keys(c) \ RC!Evicted(c) = rest
    BY <1>5 DEF RC!Evicted, rest
  <2> QED BY <1>1, <1>3, <1>5, <2>1, FullMeans
<1> QED BY <1>4, <1>5

\* Where there is room, an answer is stored under its key: the key counts
\* once, becomes the youngest if it is new, and is indexed by its user.
LEMMA PutKeeps ==
  ASSUME NEW c, Kept(c), Cardinality(RC!Keys(c)) < MaxSize,
         NEW k \in AllKeys, NEW e \in Entries, e.data.user = k.user, Visible(k.user, k.of)
  PROVE  LET d == RC!Put(c, k, e, {k.user})
         IN  /\ Kept(d) /\ RC!Keys(d) = RC!Keys(c) \cup {k}
             /\ d.dict[k].data = e.data /\ d.dict[k].overtaken = e.overtaken
             /\ \A j \in RC!Keys(c) : j # k => d.dict[j] = c.dict[j]
<1> DEFINE d == RC!Put(c, k, e, {k.user})
           K == RC!Keys(c)
           n == [e EXCEPT !.left = RC!Lifetime]
<1>1. /\ d = [dict |-> d.dict, before |-> d.before, tags |-> d.tags]
      /\ d.dict = [j \in K \cup {k} |-> IF j = k THEN n ELSE c.dict[j]]
      /\ d.before = c.before \cup (IF k \in K THEN {} ELSE K \X {k})
      /\ d.tags = [u \in Users |-> IF u \in {k.user} THEN c.tags[u] \cup {k} ELSE c.tags[u]]
  BY DEF RC!Put, RC!Indexed
<1>2. n = [left |-> DefaultTTL, data |-> e.data, overtaken |-> e.overtaken] /\ n \in Entries
  <2>1. e = [left |-> e.left, data |-> e.data, overtaken |-> e.overtaken]
    BY DEF Entries
  <2> QED BY <2>1, SizeAssumption DEF Entries, RC!Lifetime
<1> HIDE DEF n
<1>3. n.data = e.data /\ n.overtaken = e.overtaken
  BY <1>2
<1>4. RC!Keys(d) = K \cup {k}
  BY <1>1 DEF RC!Keys
<1> HIDE DEF d
<1>5. IsFiniteSet(K \cup {k}) /\ Cardinality(K \cup {k}) <= MaxSize
  <2>1. IsFiniteSet(K) /\ Cardinality(K) \in Nat /\ MaxSize \in Nat
    BY FS_CardinalityType, SizeAssumption DEF Kept
  <2> HIDE DEF K
  <2>2. IsFiniteSet(K \cup {k}) /\ Cardinality(K \cup {k}) <= Cardinality(K) + 1
    BY <2>1, FS_AddElement
  <2>3. Cardinality(K \cup {k}) \in Nat
    BY <2>2, FS_CardinalityType
  <2> QED BY <2>1, <2>2, <2>3 DEF K
<1>6. Orders(d.before, K \cup {k})
  <2>1. Orders(c.before, K)
    BY DEF Kept
  <2> HIDE DEF K
  <2>2. CASE k \in K
    BY <1>1, <2>1, <2>2 DEF Orders
  <2>3. CASE k \notin K
    <3>1. d.before = c.before \cup (K \X {k})
      BY <1>1, <2>3
    <3>2. d.before \subseteq (K \cup {k}) \X (K \cup {k})
      BY <2>1, <3>1 DEF Orders
    <3>3. \A i, j : <<i, j>> \in d.before <=> <<i, j>> \in c.before \/ (i \in K /\ j = k)
      BY <3>1
    <3>4. \A i, j : <<i, j>> \in c.before => i \in K /\ j \in K
      BY <2>1 DEF Orders
    <3>5. \A j \in K \cup {k} : <<j, j>> \notin d.before
      BY <2>1, <2>3, <3>3, <3>4 DEF Orders
    <3>6. \A h, i, j \in K \cup {k} : <<h, i>> \in d.before /\ <<i, j>> \in d.before => <<h, j>> \in d.before
      BY <2>1, <2>3, <3>3, <3>4 DEF Orders
    <3>7. \A i, j \in K \cup {k} : i # j => <<i, j>> \in d.before \/ <<j, i>> \in d.before
      BY <2>1, <3>3 DEF Orders
    <3> QED BY <3>2, <3>5, <3>6, <3>7 DEF Orders
  <2> QED BY <2>2, <2>3
<1>7. d.dict[k] = n /\ \A j \in K : j # k => d.dict[j] = c.dict[j]
  BY <1>1
<1>8. K \cup {k} \subseteq AllKeys /\ d.dict \in [K \cup {k} -> Entries]
  BY <1>1, <1>2 DEF Kept
<1>9. \A j \in K \cup {k} : d.dict[j].data.user = j.user /\ Visible(j.user, j.of)
  BY <1>3, <1>7 DEF Kept
<1>10. d.tags = [u \in Users |-> {j \in K \cup {k} : j.user = u}]
  BY <1>1 DEF Kept, AllKeys
<1>11. Kept(d)
  BY <1>1, <1>4, <1>5, <1>6, <1>8, <1>9, <1>10 DEF Kept
<1> QED BY <1>3, <1>4, <1>7, <1>11 DEF d

\* set stores one answer and adds nothing else, however full the cache is.
LEMMA SetKeeps ==
  ASSUME NEW c, Kept(c), NEW p, Fresh(c, p),
         NEW k \in AllKeys, NEW e \in Entries, e.data.user = k.user, Visible(k.user, k.of),
         e.data.version < p[k.user] => e.overtaken
  PROVE  LET d == RC!Set(c, k, e, {k.user}) IN Kept(d) /\ Fresh(d, p)
<1> DEFINE b == IF RC!Full(RC!Keys(c)) THEN RC!Drop(c, RC!Evicted(c)) ELSE c
<1>1. Kept(b) /\ Fresh(b, p) /\ Cardinality(RC!Keys(b)) < MaxSize
  <2>1. CASE RC!Full(RC!Keys(c))
    <3>1. b = RC!Drop(c, RC!Evicted(c))
      BY <2>1
    <3> HIDE DEF b
    <3>2. Kept(b) /\ RC!Keys(b) = RC!Keys(c) \ RC!Evicted(c)
      BY <3>1, DropKeeps
    <3> QED BY <3>1, <3>2, DropFresh, EvictionMakesRoom
  <2>2. CASE ~RC!Full(RC!Keys(c))
    <3>1. Cardinality(RC!Keys(c)) \in Nat /\ MaxSize \in Nat
      BY FS_CardinalityType, SizeAssumption DEF Kept
    <3> QED BY <2>2, <3>1, FullMeans
  <2> QED BY <2>1, <2>2
<1>2. RC!Set(c, k, e, {k.user}) = RC!Put(b, k, e, {k.user})
  BY DEF RC!Set
<1> HIDE DEF b
<1>3. PICK d : d = RC!Put(b, k, e, {k.user})
  OBVIOUS
<1>4. /\ Kept(d) /\ RC!Keys(d) = RC!Keys(b) \cup {k}
      /\ d.dict[k].data = e.data /\ d.dict[k].overtaken = e.overtaken
      /\ \A j \in RC!Keys(b) : j # k => d.dict[j] = b.dict[j]
  BY <1>1, <1>3, PutKeeps
<1>5. Fresh(d, p)
  BY <1>1, <1>4 DEF Fresh
<1> QED BY <1>2, <1>3, <1>4, <1>5

\* The clock changes nothing but what is left of the entries.
LEMMA AgeKeeps ==
  ASSUME NEW c, Kept(c), NEW p, Fresh(c, p)
  PROVE  Kept(RC!Age(c)) /\ Fresh(RC!Age(c), p)
<1> DEFINE K == RC!Keys(c)
<1>1. PICK d : d = RC!Age(c)
  OBVIOUS
<1>2. /\ c = [dict |-> c.dict, before |-> c.before, tags |-> c.tags]
      /\ c.dict \in [K -> Entries] /\ K = DOMAIN c.dict
  BY DEF Kept, RC!Keys
<1>3. d = [dict |-> [k \in K |-> RC!Older(c.dict[k])], before |-> c.before, tags |-> c.tags]
  BY <1>1, <1>2 DEF RC!Age
<1>4. /\ d = [dict |-> d.dict, before |-> d.before, tags |-> d.tags]
      /\ d.dict = [k \in K |-> RC!Older(c.dict[k])] /\ d.before = c.before /\ d.tags = c.tags
      /\ RC!Keys(d) = K
  BY <1>3 DEF RC!Keys
<1>5. ASSUME NEW k \in K
      PROVE  /\ d.dict[k] \in Entries /\ d.dict[k].data = c.dict[k].data
             /\ d.dict[k].overtaken = c.dict[k].overtaken
  <2>1. PICK e \in Entries : e = c.dict[k]
    BY <1>2
  <2>2. e = [left |-> e.left, data |-> e.data, overtaken |-> e.overtaken] /\ e.left \in Int
    BY <2>1 DEF Entries
  <2>3. RC!Older(e) = [left |-> IF e.left < 0 THEN e.left ELSE e.left - 1,
                       data |-> e.data, overtaken |-> e.overtaken]
    BY <2>2 DEF RC!Older
  <2>4. PICK l \in Int : l = IF e.left < 0 THEN e.left ELSE e.left - 1
    BY <2>2
  <2>5. RC!Older(e) = [left |-> l, data |-> e.data, overtaken |-> e.overtaken]
    BY <2>3, <2>4
  <2>6. d.dict[k] = RC!Older(e)
    BY <1>4, <2>1
  <2> QED BY <2>1, <2>5, <2>6 DEF Entries
<1>6. d.dict \in [K -> Entries]
  BY <1>4, <1>5
<1>7. Kept(d)
  BY <1>4, <1>5, <1>6 DEF Kept
<1>8. Fresh(d, p)
  BY <1>4, <1>5 DEF Fresh
<1> QED BY <1>1, <1>7, <1>8
-----------------------------------------------------------------------------
(* The steps *)

\* What the parts of a request are.
LEMMA RequestParts ==
  ASSUME NEW r \in Requests
  PROVE  /\ r = Free <=> r.at = "free"
         /\ r.at = "reading" =>
              r \in [at : {"reading"}, worker : Workers, user : Users, of : Targets, overtaken : BOOLEAN]
         /\ r.at = "filling" =>
              r \in [at : {"filling"}, worker : Workers, user : Users, of : Targets,
                     overtaken : BOOLEAN, data : Answers]
         /\ r.at \in {"writing", "streaming"} =>
              r \in [at : {"writing", "streaming"}, worker : Workers, user : Users]
         /\ r.at \in {"free", "reading", "filling", "writing", "streaming"}
BY DEF Requests, Free

\* Nothing is cached, no request is open.
LEMMA Initially == Init => IInv
<1> SUFFICES ASSUME Init PROVE IInv
  OBVIOUS
<1>1. TypeOK
  BY DEF Init, TypeOK, Requests
<1>2. \A w \in Workers, u \in Users : purged[w][u] <= version[u]
  BY DEF Init
<1>3. Kept(RC!Empty) /\ \A p : Fresh(RC!Empty, p)
  <2> DEFINE c == RC!Empty
  <2>1. /\ c = [dict |-> c.dict, before |-> c.before, tags |-> c.tags]
        /\ c.dict = << >> /\ c.before = {} /\ c.tags = [t \in Users |-> {}]
    BY DEF RC!Empty
  <2> HIDE DEF c
  <2>2. RC!Keys(c) = {} /\ c.dict \in [{} -> Entries]
    BY <2>1 DEF RC!Keys
  <2>3. IsFiniteSet({}) /\ Cardinality({}) <= MaxSize
    BY FS_EmptySet, SizeAssumption
  <2>4. Kept(c)
    BY <2>1, <2>2, <2>3 DEF Kept, Orders
  <2> QED BY <2>2, <2>4 DEF Fresh, c
<1>4. \A w \in Workers : cache[w] = RC!Empty
  BY DEF Init
<1>5. \A h \in Handlers : req[h].at # "filling"
  BY DEF Init, Free
<1> QED BY <1>1, <1>2, <1>3, <1>4, <1>5 DEF IInv

\* A lookup may drop what has expired, and reads nothing yet.
LEMMA LookupKeeps ==
  IInv /\ (\E h \in Handlers, w \in Workers, u \in Users, x \in Targets : Lookup(h, w, u, x)) => IInv'
<1> SUFFICES ASSUME IInv, NEW h \in Handlers, NEW w \in Workers, NEW u \in Users, NEW x \in Targets,
                    Lookup(h, w, u, x)
             PROVE  IInv'
  OBVIOUS
<1>1. PICK k : k = Key(u, x)
  OBVIOUS
<1>2. /\ cache' = [cache EXCEPT ![w] = RC!AfterGet(@, k)]
      /\ version' = version /\ purged' = purged
      /\ \/ req' = req
         \/ req' = [req EXCEPT ![h] = [at |-> "reading", worker |-> w, user |-> u,
                                      of |-> x, overtaken |-> FALSE]]
  BY <1>1, Zenon DEF Lookup
<1>3. TypeOK'
  <2>1. PICK r \in Requests : req' = req \/ req' = [req EXCEPT ![h] = r]
    <3>1. [at |-> "reading", worker |-> w, user |-> u, of |-> x, overtaken |-> FALSE] \in Requests
      BY DEF Requests
    <3> QED BY <1>2, <3>1, Zenon
  <2>2. req' \in [Handlers -> Requests]
    BY <2>1 DEF IInv, TypeOK
  <2>3. cache' = [v \in Workers |-> cache'[v]]
    BY <1>2 DEF IInv, TypeOK
  <2> QED BY <1>2, <2>2, <2>3 DEF IInv, TypeOK
<1>4. Kept(RC!AfterGet(cache[w], k)) /\ Fresh(RC!AfterGet(cache[w], k), purged[w])
  <2>1. Kept(cache[w]) /\ Fresh(cache[w], purged[w])
    BY DEF IInv
  <2>2. RC!AfterGet(cache[w], k) \in {cache[w], RC!Drop(cache[w], {k})}
    BY DEF RC!AfterGet
  <2> QED BY <2>1, <2>2, DropKeeps, DropFresh
<1>5. \A v \in Workers : cache'[v] = IF v = w THEN RC!AfterGet(cache[w], k) ELSE cache[v]
  BY <1>2 DEF IInv, TypeOK
<1>6. \A v \in Workers : Kept(cache'[v]) /\ Fresh(cache'[v], purged'[v])
  BY <1>2, <1>4, <1>5 DEF IInv
<1>7. \A i \in Handlers : req'[i] = req[i] \/ req'[i].at = "reading"
  BY <1>2 DEF IInv, TypeOK
<1>8. \A i \in Handlers : req'[i].at = "filling" => ReadOK(req'[i], purged')
  BY <1>2, <1>7 DEF IInv, ReadOK
<1> QED BY <1>2, <1>3, <1>6, <1>8 DEF IInv
\* A read has the user's data of this moment, which no invalidation is ahead of.
LEMMA ReadKeeps == IInv /\ (\E h \in Handlers : Read(h)) => IInv'
<1> SUFFICES ASSUME IInv, NEW h \in Handlers, Read(h) PROVE IInv'
  OBVIOUS
<1>1. PICK r \in Requests : r = req[h]
  BY DEF IInv, TypeOK
<1>2. /\ r.at = "reading" /\ UNCHANGED <<version, cache, purged>>
      /\ r.worker \in Workers /\ r.user \in Users /\ r.of \in Targets /\ r.overtaken \in BOOLEAN
  <2>1. r.at = "reading" /\ UNCHANGED <<version, cache, purged>>
    BY <1>1 DEF Read
  <2> QED BY <2>1, RequestParts
<1>3. PICK n : n = [at |-> "filling", worker |-> r.worker, user |-> r.user, of |-> r.of,
                    overtaken |-> r.overtaken,
                    data |-> [user |-> r.user, version |-> version[r.user]]]
  OBVIOUS
<1>4. \/ req' = [req EXCEPT ![h] = Free]
      \/ req' = [req EXCEPT ![h] = n] /\ Visible(r.user, r.of)
  BY <1>1, <1>3, Zenon DEF Read
<1>5. /\ n \in Requests /\ n.at = "filling" /\ n.worker = r.worker /\ n.user = r.user /\ n.of = r.of
      /\ n.data.user = r.user /\ n.data.version = version[r.user]
  <2>1. version[r.user] \in Nat
    BY <1>2 DEF IInv, TypeOK
  <2> QED BY <1>2, <1>3, <2>1 DEF Requests, Answers
<1>6. Free \in Requests /\ Free.at = "free"
  BY DEF Requests, Free
<1>7. TypeOK'
  <2>1. req' \in [Handlers -> Requests]
    BY <1>4, <1>5, <1>6 DEF IInv, TypeOK
  <2> QED BY <1>2, <2>1 DEF IInv, TypeOK
<1>8. \A i \in Handlers : req'[i].at = "filling" =>
        req'[i] = req[i] \/ (req'[i] = n /\ Visible(r.user, r.of))
  BY <1>4, <1>6 DEF IInv, TypeOK
<1>9. ~(n.data.version < purged[r.worker][r.user])
  <2>1. /\ purged[r.worker][r.user] <= version[r.user]
        /\ purged[r.worker][r.user] \in Nat /\ version[r.user] \in Nat
    BY <1>2 DEF IInv, TypeOK
  <2> QED BY <1>5, <2>1
<1>10. \A i \in Handlers : req'[i].at = "filling" => ReadOK(req'[i], purged')
  <2> SUFFICES ASSUME NEW i \in Handlers, req'[i].at = "filling" PROVE ReadOK(req'[i], purged')
    OBVIOUS
  <2>1. CASE req'[i] = req[i]
    BY <1>2, <2>1 DEF IInv, ReadOK
  <2>2. CASE req'[i] = n /\ Visible(r.user, r.of)
    BY <1>2, <1>5, <1>9, <2>2 DEF ReadOK
  <2> QED BY <1>8, <2>1, <2>2
<1> QED BY <1>2, <1>7, <1>10 DEF IInv

\* What is stored is what was read, and overtaken if it was overtaken on the way.
LEMMA FillKeeps == IInv /\ (\E h \in Handlers : Fill(h)) => IInv'
<1> SUFFICES ASSUME IInv, NEW h \in Handlers, Fill(h) PROVE IInv'
  OBVIOUS
<1>1. PICK r \in Requests : r = req[h]
  BY DEF IInv, TypeOK
<1>2. r.at = "filling" /\ UNCHANGED <<version, purged>>
  BY <1>1 DEF Fill
<1>3. /\ r.worker \in Workers /\ r.user \in Users /\ r.of \in Targets
      /\ r.overtaken \in BOOLEAN /\ r.data \in Answers
  BY <1>2, RequestParts
<1>4. PICK k, e : /\ k = Key(r.user, r.of)
                  /\ e = [left |-> 0, data |-> r.data, overtaken |-> r.overtaken]
  OBVIOUS
<1>5. /\ k \in AllKeys /\ k.user = r.user /\ k.of = r.of /\ Tag(r.user) = k.user
      /\ e \in Entries /\ e.data = r.data /\ e.overtaken = r.overtaken
  BY <1>3, <1>4 DEF Key, Tag, AllKeys, Entries
<1>6. /\ cache' = [cache EXCEPT ![r.worker] = RC!Set(@, k, e, {k.user})]
      /\ req' = [req EXCEPT ![h] = Free]
  BY <1>1, <1>4, <1>5, Zenon DEF Fill
<1>7. /\ r.data.user = r.user /\ Visible(r.user, r.of)
      /\ r.data.version < purged[r.worker][r.user] => r.overtaken
  BY <1>1, <1>2 DEF IInv, ReadOK
<1>8. Free \in Requests /\ Free.at = "free"
  BY DEF Requests, Free
<1>9. TypeOK'
  <2>1. req' \in [Handlers -> Requests]
    BY <1>6, <1>8 DEF IInv, TypeOK
  <2>2. cache' = [v \in Workers |-> cache'[v]]
    BY <1>6 DEF IInv, TypeOK
  <2> QED BY <1>2, <2>1, <2>2 DEF IInv, TypeOK
<1>10. PICK d : d = RC!Set(cache[r.worker], k, e, {k.user})
  OBVIOUS
<1>11. Kept(d) /\ Fresh(d, purged[r.worker])
  <2>1. Kept(cache[r.worker]) /\ Fresh(cache[r.worker], purged[r.worker])
    BY <1>3 DEF IInv
  <2> QED BY <1>5, <1>7, <1>10, <2>1, SetKeeps
<1>12. \A v \in Workers : cache'[v] = IF v = r.worker THEN d ELSE cache[v]
  BY <1>6, <1>10 DEF IInv, TypeOK
<1>13. \A v \in Workers : Kept(cache'[v]) /\ Fresh(cache'[v], purged'[v])
  BY <1>2, <1>11, <1>12 DEF IInv
<1>14. \A i \in Handlers : req'[i].at = "filling" => req'[i] = req[i]
  BY <1>6, <1>8 DEF IInv, TypeOK
<1>15. \A i \in Handlers : req'[i].at = "filling" => ReadOK(req'[i], purged')
  BY <1>2, <1>14 DEF IInv, ReadOK
<1> QED BY <1>2, <1>9, <1>13, <1>15 DEF IInv

\* An invalidation removes what the user has on the worker, and overtakes what
\* is being read there: all that is older than this moment's version.
LEMMA InvalidationKeeps ==
  ASSUME IInv, NEW w \in Workers, NEW u \in Users, Invalidate(w, u), version' = version,
         NEW h \in Handlers, NEW n \in Requests, n.at # "filling",
         req' = [Overtake(w, u) EXCEPT ![h] = n]
  PROVE  IInv'
<1>1. /\ cache' = [cache EXCEPT ![w] = RC!Drop(@, @.tags[u])]
      /\ purged' = [purged EXCEPT ![w][u] = version[u]]
  BY DEF Invalidate, Tag, RC!InvalidateTag
<1>2. version[u] \in Nat
  BY DEF IInv, TypeOK
<1>3. /\ purged' \in [Workers -> [Users -> Nat]]
      /\ \A v \in Workers, t \in Users :
           purged'[v][t] = IF v = w /\ t = u THEN version[u] ELSE purged[v][t]
      /\ \A v \in Workers : v # w => purged'[v] = purged[v]
  BY <1>1, <1>2 DEF IInv, TypeOK
<1>4. \A v \in Workers, t \in Users : purged'[v][t] <= version'[t]
  BY <1>2, <1>3 DEF IInv
<1>5. PICK d : d = RC!Drop(cache[w], cache[w].tags[u])
  OBVIOUS
<1>6. Kept(d) /\ Fresh(d, purged'[w])
  <2>1. Kept(cache[w]) /\ Fresh(cache[w], purged[w])
    BY DEF IInv
  <2>2. /\ Kept(d) /\ RC!Keys(d) = RC!Keys(cache[w]) \ cache[w].tags[u]
        /\ \A k \in RC!Keys(d) : d.dict[k] = cache[w].dict[k]
    BY <1>5, <2>1, DropKeeps
  <2>3. cache[w].tags[u] = {k \in RC!Keys(cache[w]) : k.user = u}
    BY <2>1 DEF Kept
  <2>4. \A k \in RC!Keys(d) : k.user \in Users /\ k.user # u
    BY <2>1, <2>2, <2>3 DEF Kept, AllKeys
  <2>5. \A k \in RC!Keys(d) : purged'[w][k.user] = purged[w][k.user]
    BY <1>3, <2>4
  <2> QED BY <2>1, <2>2, <2>5 DEF Fresh
<1>7. \A v \in Workers : cache'[v] = IF v = w THEN d ELSE cache[v]
  BY <1>1, <1>5 DEF IInv, TypeOK
<1>8. \A v \in Workers : Kept(cache'[v]) /\ Fresh(cache'[v], purged'[v])
  BY <1>3, <1>6, <1>7 DEF IInv
<1>9. ASSUME NEW i \in Handlers
      PROVE  /\ Overtake(w, u)[i] \in Requests
             /\ Overtake(w, u)[i].at = "filling" => ReadOK(Overtake(w, u)[i], purged')
  <2>1. PICK r \in Requests : r = req[i]
    BY DEF IInv, TypeOK
  <2>2. PICK o : o = Overtake(w, u)[i]
    OBVIOUS
  <2>3. o = IF r.at \in {"reading", "filling"} /\ r.worker = w /\ r.user = u
            THEN [r EXCEPT !.overtaken = TRUE] ELSE r
    BY <2>1, <2>2 DEF Overtake
  <2>4. r.at = "filling" =>
          /\ r.worker \in Workers /\ r.user \in Users /\ r.of \in Targets
          /\ r.overtaken \in BOOLEAN /\ r.data \in Answers
          /\ r = [at |-> "filling", worker |-> r.worker, user |-> r.user, of |-> r.of,
                  overtaken |-> r.overtaken, data |-> r.data]
          /\ r.data.user = r.user /\ Visible(r.user, r.of)
          /\ r.data.version < purged[r.worker][r.user] => r.overtaken
    <3>1. r.at = "filling" =>
            r \in [at : {"filling"}, worker : Workers, user : Users, of : Targets,
                   overtaken : BOOLEAN, data : Answers]
      BY RequestParts
    <3>2. r.at = "filling" => ReadOK(r, purged)
      BY <2>1 DEF IInv
    <3> QED BY <3>1, <3>2 DEF ReadOK
  <2>5. r.at = "reading" =>
          /\ r.worker \in Workers /\ r.user \in Users /\ r.of \in Targets
          /\ r = [at |-> "reading", worker |-> r.worker, user |-> r.user, of |-> r.of,
                  overtaken |-> r.overtaken]
    <3>1. r.at = "reading" =>
            r \in [at : {"reading"}, worker : Workers, user : Users, of : Targets, overtaken : BOOLEAN]
      BY RequestParts
    <3> QED BY <3>1
  <2>6. CASE r.at = "filling" /\ r.worker = w /\ r.user = u
    <3>1. o = [at |-> "filling", worker |-> r.worker, user |-> r.user, of |-> r.of,
               overtaken |-> TRUE, data |-> r.data]
      BY <2>3, <2>4, <2>6
    <3>2. o \in Requests
      BY <2>4, <2>6, <3>1 DEF Requests
    <3>3. ReadOK(o, purged')
      BY <2>4, <2>6, <3>1 DEF ReadOK
    <3> QED BY <2>2, <3>2, <3>3
  <2>7. CASE r.at = "reading" /\ r.worker = w /\ r.user = u
    <3>1. o = [at |-> "reading", worker |-> r.worker, user |-> r.user, of |-> r.of, overtaken |-> TRUE]
      BY <2>3, <2>5, <2>7
    <3>2. o \in Requests /\ o.at # "filling"
      BY <2>5, <2>7, <3>1 DEF Requests
    <3> QED BY <2>2, <3>2
  <2>8. CASE ~(r.at \in {"reading", "filling"} /\ r.worker = w /\ r.user = u)
    <3>1. o = r
      BY <2>3, <2>8
    <3>2. r.at = "filling" => ReadOK(r, purged')
      <4>1. r.at = "filling" => purged'[r.worker][r.user] = purged[r.worker][r.user]
        BY <1>3, <2>4, <2>8
      <4> QED BY <2>4, <4>1 DEF ReadOK
    <3> QED BY <2>2, <3>1, <3>2
  <2> QED BY <2>6, <2>7, <2>8
<1>10. \A i \in Handlers : req'[i] = IF i = h THEN n ELSE Overtake(w, u)[i]
  BY DEF Overtake
<1>11. req' \in [Handlers -> Requests]
  BY <1>9, <1>10 DEF Overtake
<1>12. TypeOK'
  <2>1. cache' = [v \in Workers |-> cache'[v]]
    BY <1>1 DEF IInv, TypeOK
  <2> QED BY <1>3, <1>11, <2>1 DEF IInv, TypeOK
<1>13. \A i \in Handlers : req'[i].at = "filling" => ReadOK(req'[i], purged')
  BY <1>9, <1>10 DEF ReadOK
<1> QED BY <1>4, <1>8, <1>12, <1>13 DEF IInv

\* The steps of a write: only those that invalidate touch a cache.
LEMMA WriteKeeps ==
  IInv /\ (\E h \in Handlers : \/ \E w \in Workers, u \in Users : StartWrite(h, w, u) \/ StartStream(h, w, u)
                              \/ Commit(h) \/ FinishWrite(h) \/ LeaveWrite(h))
  => IInv'
<1> SUFFICES ASSUME IInv, NEW h \in Handlers,
                    \/ \E w \in Workers, u \in Users : StartWrite(h, w, u) \/ StartStream(h, w, u)
                    \/ Commit(h) \/ FinishWrite(h) \/ LeaveWrite(h)
             PROVE  IInv'
  OBVIOUS
<1>0. Free \in Requests /\ Free.at = "free"
  BY DEF Requests, Free
<1>1. PICK r \in Requests : r = req[h]
  BY DEF IInv, TypeOK
<1>a. r.at \in {"writing", "streaming"} => r.worker \in Workers /\ r.user \in Users
  BY RequestParts
<1>2. ASSUME NEW n \in Requests, n.at # "filling", req' = [req EXCEPT ![h] = n],
             UNCHANGED <<version, cache, purged>>
      PROVE  IInv'
  <2>1. TypeOK'
    <3>1. req' \in [Handlers -> Requests]
      BY <1>2 DEF IInv, TypeOK
    <3> QED BY <1>2, <3>1 DEF IInv, TypeOK
  <2>2. \A i \in Handlers : req'[i].at = "filling" => req'[i] = req[i]
    BY <1>2 DEF IInv, TypeOK
  <2>3. \A i \in Handlers : req'[i].at = "filling" => ReadOK(req'[i], purged')
    BY <1>2, <2>2 DEF IInv, ReadOK
  <2> QED BY <1>2, <2>1, <2>3 DEF IInv
<1>3. ASSUME NEW w \in Workers, NEW u \in Users, StartWrite(h, w, u) PROVE IInv'
  <2>1. PICK n \in Requests : n = [at |-> "writing", worker |-> w, user |-> u]
    BY DEF Requests
  <2>2. n.at # "filling" /\ req' = [req EXCEPT ![h] = n] /\ UNCHANGED <<version, cache, purged>>
    BY <1>3, <2>1 DEF StartWrite
  <2> QED BY <1>2, <2>2
<1>4. ASSUME NEW w \in Workers, NEW u \in Users, StartStream(h, w, u) PROVE IInv'
  <2>1. PICK n \in Requests : n = [at |-> "streaming", worker |-> w, user |-> u]
    BY DEF Requests
  <2>2. /\ n.at # "filling" /\ req' = [Overtake(w, u) EXCEPT ![h] = n]
        /\ Invalidate(w, u) /\ version' = version
    BY <1>4, <2>1 DEF StartStream
  <2> QED BY <2>2, InvalidationKeeps
<1>5. CASE FinishWrite(h)
  <2>1. /\ r.at = "writing" /\ Invalidate(r.worker, r.user) /\ version' = version
        /\ req' = [Overtake(r.worker, r.user) EXCEPT ![h] = Free]
    BY <1>1, <1>5 DEF FinishWrite
  <2>2. r.worker \in Workers /\ r.user \in Users
    BY <1>a, <2>1
  <2> QED BY <1>0, <2>1, <2>2, InvalidationKeeps
<1>6. CASE LeaveWrite(h)
  <2>1. req' = [req EXCEPT ![h] = Free] /\ UNCHANGED <<version, cache, purged>>
    BY <1>6 DEF LeaveWrite
  <2> QED BY <1>0, <1>2, <2>1
<1>7. CASE Commit(h)
  <2>1. /\ r.user \in Users /\ UNCHANGED <<cache, req, purged>>
        /\ version' = [version EXCEPT ![r.user] = @ + 1]
    BY <1>1, <1>7, <1>a DEF Commit
  <2>2. version' \in [Users -> Nat] /\ \A u \in Users : version[u] <= version'[u]
    BY <2>1 DEF IInv, TypeOK
  <2>3. TypeOK'
    BY <2>1, <2>2 DEF IInv, TypeOK
  <2>4. \A w \in Workers, u \in Users : purged'[w][u] <= version'[u]
    <3> SUFFICES ASSUME NEW w \in Workers, NEW u \in Users PROVE purged[w][u] <= version'[u]
      BY <2>1
    <3>1. /\ purged[w][u] \in Nat /\ version[u] \in Nat /\ version'[u] \in Nat
          /\ purged[w][u] <= version[u] /\ version[u] <= version'[u]
      BY <2>2 DEF IInv, TypeOK
    <3> QED BY <3>1
  <2>5. \A i \in Handlers : req'[i].at = "filling" => ReadOK(req'[i], purged')
    BY <2>1 DEF IInv, ReadOK
  <2> QED BY <2>1, <2>3, <2>4, <2>5 DEF IInv
<1> QED BY <1>3, <1>4, <1>5, <1>6, <1>7

\* The passing of time, and a step that changes nothing.
LEMMA TickKeeps == IInv /\ (Tick \/ UNCHANGED vars) => IInv'
<1> SUFFICES ASSUME IInv, Tick \/ UNCHANGED vars PROVE IInv'
  OBVIOUS
<1>1. UNCHANGED <<version, req, purged>>
  BY DEF Tick, vars
<1>2. \A w \in Workers : cache'[w] = RC!Age(cache[w]) \/ cache'[w] = cache[w]
  BY DEF Tick, vars
<1>3. cache' = [w \in Workers |-> cache'[w]]
  BY DEF Tick, vars, IInv, TypeOK
<1>4. \A w \in Workers : Kept(cache'[w]) /\ Fresh(cache'[w], purged[w])
  BY <1>2, AgeKeeps DEF IInv
<1>5. \A i \in Handlers : req'[i].at = "filling" => ReadOK(req'[i], purged')
  BY <1>1 DEF IInv, ReadOK
<1>6. TypeOK'
  BY <1>1, <1>3 DEF IInv, TypeOK
<1> QED BY <1>1, <1>4, <1>5, <1>6 DEF IInv
-----------------------------------------------------------------------------
\* The inductive invariant of the cached endpoints: every cache is in order,
\* every entry and every read in progress is a user's own data, and is marked
\* as overtaken if an invalidation on its worker came after it.
THEOREM Invariance == Spec => []IInv
<1>1. IInv /\ [Next]_vars => IInv'
  <2> SUFFICES ASSUME IInv, [Next]_vars PROVE IInv'
    OBVIOUS
  <2>1. CASE \E h \in Handlers : Start(h)
    BY <2>1, LookupKeeps, WriteKeeps DEF Start
  <2>2. CASE \E h \in Handlers : Commit(h)
    BY <2>2, WriteKeeps
  <2>3. CASE \E h \in Handlers : Proceed(h)
    BY <2>3, ReadKeeps, FillKeeps, WriteKeeps DEF Proceed
  <2>4. CASE Tick \/ UNCHANGED vars
    BY <2>4, TickKeeps
  <2> QED BY <2>1, <2>2, <2>3, <2>4 DEF Next
<1> QED BY Initially, <1>1, PTL DEF Spec

\* After any evictions, expiries and invalidations, each cache keeps its bound,
\* one order of its keys, and an index that names exactly the keys it has.
THEOREM IndexIsExact == Spec => []IndexExact
<1>1. IInv => IndexExact
  <2> SUFFICES ASSUME IInv, NEW w \in Workers
               PROVE  /\ Cardinality(RC!Keys(cache[w])) <= MaxSize
                      /\ \A j, k \in RC!Keys(cache[w]) :
                           j # k => (<<j, k>> \in cache[w].before <=> <<k, j>> \notin cache[w].before)
                      /\ \A u \in Users :
                           cache[w].tags[Tag(u)] = {k \in RC!Keys(cache[w]) : cache[w].dict[k].data.user = u}
    BY DEF IndexExact
  <2>1. PICK c : c = cache[w] /\ Kept(c)
    BY DEF IInv
  <2>2. Cardinality(RC!Keys(c)) <= MaxSize
    BY <2>1 DEF Kept
  <2>3. ASSUME NEW j \in RC!Keys(c), NEW k \in RC!Keys(c), j # k
        PROVE  <<j, k>> \in c.before <=> <<k, j>> \notin c.before
    <3>1. Orders(c.before, RC!Keys(c))
      BY <2>1 DEF Kept
    <3> QED BY <2>3, <3>1 DEF Orders
  <2>4. ASSUME NEW u \in Users
        PROVE  c.tags[Tag(u)] = {k \in RC!Keys(c) : c.dict[k].data.user = u}
    BY <2>1 DEF Kept, Tag
  <2> QED BY <2>1, <2>2, <2>3, <2>4
<1> QED BY <1>1, Invariance, PTL

\* A hit, which skips the query's check of the owner, is data of the user who
\* asks, and of nothing that the query would have hidden.
THEOREM HitsStayOwn == Spec => []HitsAreOwn
<1>1. IInv => HitsAreOwn
  <2> SUFFICES ASSUME IInv, NEW w \in Workers, NEW u \in Users, NEW x \in Targets,
                      RC!Hit(cache[w], Key(u, x))
               PROVE  Visible(u, x) /\ cache[w].dict[Key(u, x)].data.user = u
    BY DEF HitsAreOwn
  <2>1. PICK c, k : c = cache[w] /\ Kept(c) /\ k = Key(u, x)
    BY DEF IInv
  <2>2. k \in RC!Keys(c) /\ k.user = u /\ k.of = x
    BY <2>1 DEF RC!Hit, Key
  <2> QED BY <2>1, <2>2 DEF Kept
<1> QED BY <1>1, Invariance, PTL

\* An entry older than its worker's last invalidation was read before that
\* invalidation and stored after it: nothing else survives an invalidation.
THEOREM StaleMeansOvertaken == Spec => []StaleOnlyWhenOvertaken
<1>1. IInv => StaleOnlyWhenOvertaken
  <2> SUFFICES ASSUME IInv, NEW w \in Workers, NEW k \in RC!Keys(cache[w]),
                      cache[w].dict[k].data.version < purged[w][cache[w].dict[k].data.user]
               PROVE  cache[w].dict[k].overtaken
    BY DEF StaleOnlyWhenOvertaken
  <2>1. Kept(cache[w]) /\ Fresh(cache[w], purged[w])
    BY DEF IInv
  <2>2. cache[w].dict[k].data.user = k.user
    BY <2>1 DEF Kept
  <2> QED BY <2>1, <2>2 DEF Fresh
<1> QED BY <1>1, Invariance, PTL
=============================================================================
