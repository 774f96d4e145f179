------------------------ MODULE GeminiServiceProofs ------------------------
(***************************************************************************)
(* Theorems about GeminiService, for any number of calls and permits, any  *)
(* texts, and any size and time to live of the cache.                      *)
(***************************************************************************)
EXTENDS GeminiService, FiniteSetTheorems, SequenceTheorems, TLAPS

Sound(s) == \A i \in DOMAIN s : s[i].vector = "vector"

\* A store as it should be, given which texts were used after which.
Good(s, a) == Cache!WellFormed(s) /\ Cache!InRecencyOrder(s, a) /\ Sound(s)

Without(s, t) == \A i \in DOMAIN s : s[i].text # t

\* The history after a use of t.
UseOf(a, t) == [u \in Texts |-> IF u = t THEN {} ELSE a[u] \cup {t}]
-----------------------------------------------------------------------------
(* The cache *)

\* What removing one element does to a sequence.
LEMMA RemoveAtFacts ==
  ASSUME NEW S, NEW s \in Seq(S), NEW i \in 1..Len(s)
  PROVE  /\ Cache!RemoveAt(s, i) \in Seq(S)
         /\ Len(Cache!RemoveAt(s, i)) = Len(s) - 1
         /\ \A j \in 1..Len(s) - 1 :
              Cache!RemoveAt(s, i)[j] = IF j < i THEN s[j] ELSE s[j + 1]
<1> DEFINE a == SubSeq(s, 1, i - 1)
           b == SubSeq(s, i + 1, Len(s))
<1>0. i \in Nat \ {0} /\ Len(s) \in Nat /\ i <= Len(s)
  OBVIOUS
<1>1. /\ a \in Seq(S) /\ Len(a) = i - 1
      /\ \A j \in 1..i - 1 : a[j] = s[j]
  OBVIOUS
<1>2. /\ b \in Seq(S) /\ Len(b) = Len(s) - i
      /\ \A j \in 1..Len(s) - i : b[j] = s[j + i]
  OBVIOUS
<1>3. Cache!RemoveAt(s, i) = a \o b
  BY DEF Cache!RemoveAt
<1> HIDE DEF a, b
<1>4. /\ a \o b \in Seq(S) /\ Len(a \o b) = Len(a) + Len(b)
      /\ \A j \in 1..Len(a) + Len(b) :
           (a \o b)[j] = IF j <= Len(a) THEN a[j] ELSE b[j - Len(a)]
  BY <1>1, <1>2, ConcatProperties
<1>5. ASSUME NEW j \in 1..Len(s) - 1
      PROVE  (a \o b)[j] = IF j < i THEN s[j] ELSE s[j + 1]
  <2>1. (a \o b)[j] = IF j <= i - 1 THEN a[j] ELSE b[j - (i - 1)]
    BY <1>0, <1>1, <1>2, <1>4
  <2>2. CASE j < i
    <3>1. j \in 1..i - 1
      BY <1>0, <2>2
    <3> QED
      BY <1>0, <1>1, <2>1, <2>2, <3>1
  <2>3. CASE j >= i
    <3>1. j - (i - 1) \in 1..Len(s) - i /\ j - (i - 1) + i = j + 1
      BY <1>0, <2>3
    <3> QED
      BY <1>0, <1>2, <2>1, <2>3, <3>1
  <2>4. j < i \/ j >= i
    BY <1>0
  <2> QED
    BY <2>2, <2>3, <2>4
<1>6. Len(a \o b) = Len(s) - 1
  BY <1>0, <1>1, <1>2, <1>4
<1> QED
  BY <1>3, <1>4, <1>5, <1>6

\* An entry goes: the others stay, in their order.
LEMMA RemoveGood ==
  ASSUME NEW s, NEW a, NEW i \in DOMAIN s, Good(s, a)
  PROVE  /\ Good(Cache!RemoveAt(s, i), a)
         /\ Len(Cache!RemoveAt(s, i)) = Len(s) - 1
         /\ Without(Cache!RemoveAt(s, i), s[i].text)
<1>1. s \in Seq(Cache!Entry) /\ i \in 1..Len(s) /\ Len(s) <= MaxSize
  BY DEF Good, Cache!WellFormed
<1> DEFINE r == Cache!RemoveAt(s, i)
           from(j) == IF j < i THEN j ELSE j + 1
<1>2. /\ r \in Seq(Cache!Entry) /\ Len(r) = Len(s) - 1
      /\ \A j \in 1..Len(s) - 1 : r[j] = s[from(j)]
  BY <1>1, RemoveAtFacts
<1> HIDE DEF r
<1>3. /\ DOMAIN r = 1..Len(s) - 1
      /\ \A j \in DOMAIN r : from(j) \in DOMAIN s /\ r[j] = s[from(j)] /\ from(j) # i
      /\ \A j, k \in DOMAIN r : j < k => from(j) < from(k)
      /\ \A j, k \in DOMAIN r : from(j) = from(k) => j = k
  BY <1>1, <1>2
<1> HIDE DEF from
<1>4. \A j, k \in DOMAIN s : s[j].text = s[k].text => j = k
  BY DEF Good, Cache!WellFormed
<1>5. Cache!WellFormed(r)
  <2>1. Len(r) <= MaxSize
    BY <1>1, <1>2, LimitsAssumption
  <2>2. \A j, k \in DOMAIN r : r[j].text = r[k].text => j = k
    BY <1>3, <1>4
  <2> QED
    BY <1>2, <2>1, <2>2 DEF Cache!WellFormed
<1>6. Cache!InRecencyOrder(r, a)
  BY <1>3 DEF Good, Cache!InRecencyOrder
<1>7. Sound(r)
  BY <1>3 DEF Good, Sound
<1>8. Without(r, s[i].text)
  BY <1>3, <1>4 DEF Without
<1> QED
  BY <1>2, <1>5, <1>6, <1>7, <1>8 DEF Good, r

\* The least recently used entry goes.
LEMMA TailGood ==
  ASSUME NEW s, NEW a, Good(s, a), s # <<>>
  PROVE  /\ Good(Tail(s), a)
         /\ Len(Tail(s)) = Len(s) - 1
         /\ \A t : Without(s, t) => Without(Tail(s), t)
<1>1. s \in Seq(Cache!Entry) /\ Len(s) <= MaxSize /\ Len(s) \in Nat \ {0}
  BY DEF Good, Cache!WellFormed
<1> DEFINE r == Tail(s)
<1>2. /\ r \in Seq(Cache!Entry) /\ Len(r) = Len(s) - 1 /\ DOMAIN r = 1..Len(s) - 1
      /\ \A j \in 1..Len(s) - 1 : r[j] = s[j + 1] /\ j + 1 \in DOMAIN s
  BY <1>1
<1> HIDE DEF r
<1>3. Cache!WellFormed(r)
  <2>1. Len(r) <= MaxSize
    BY <1>1, <1>2, LimitsAssumption
  <2>2. ASSUME NEW j \in DOMAIN r, NEW k \in DOMAIN r, r[j].text = r[k].text
        PROVE  j = k
    <3>1. j + 1 = k + 1
      BY <1>2, <2>2 DEF Good, Cache!WellFormed
    <3> QED
      BY <1>1, <1>2, <3>1
  <2> QED
    BY <1>2, <2>1, <2>2 DEF Cache!WellFormed
<1>4. Cache!InRecencyOrder(r, a)
  <2> SUFFICES ASSUME NEW j \in DOMAIN r, NEW k \in DOMAIN r, j < k
               PROVE  r[k].text \in a[r[j].text]
    BY DEF Cache!InRecencyOrder
  <2>1. j + 1 < k + 1
    BY <1>1, <1>2
  <2> QED
    BY <1>2, <2>1 DEF Good, Cache!InRecencyOrder
<1>5. Sound(r) /\ \A t : Without(s, t) => Without(r, t)
  BY <1>2 DEF Good, Sound, Without
<1> QED
  BY <1>2, <1>3, <1>4, <1>5 DEF Good, r

\* A new entry, for a text just used, comes last.
LEMMA AppendGood ==
  ASSUME NEW s, NEW a \in [Texts -> SUBSET Texts], NEW e \in Cache!Entry,
         Good(s, a), Len(s) < MaxSize, Without(s, e.text), e.vector = "vector"
  PROVE  Good(Append(s, e), UseOf(a, e.text))
<1> DEFINE r == Append(s, e)
           b == UseOf(a, e.text)
<1>1. s \in Seq(Cache!Entry) /\ Len(s) \in Nat /\ DOMAIN s = 1..Len(s)
  BY DEF Good, Cache!WellFormed
<1>2. /\ r \in Seq(Cache!Entry) /\ Len(r) = Len(s) + 1 /\ DOMAIN r = 1..Len(s) + 1
      /\ r[Len(s) + 1] = e /\ \A j \in 1..Len(s) : r[j] = s[j]
  BY <1>1
<1>3. \A j \in 1..Len(s) : s[j].text \in Texts /\ s[j].text # e.text
  <2>1. \A j \in 1..Len(s) : s[j] \in Cache!Entry
    BY <1>1
  <2> QED
    BY <1>1, <2>1 DEF Without, Cache!Entry
<1>4. \A u \in Texts : u # e.text => b[u] = a[u] \cup {e.text}
  BY DEF UseOf
<1> HIDE DEF r, b
<1>5. Cache!WellFormed(r)
  BY <1>1, <1>2, <1>3, LimitsAssumption DEF Good, Cache!WellFormed
<1>6. Cache!InRecencyOrder(r, b)
  <2> SUFFICES ASSUME NEW j \in DOMAIN r, NEW k \in DOMAIN r, j < k
               PROVE  r[k].text \in b[r[j].text]
    BY DEF Cache!InRecencyOrder
  <2>1. j \in 1..Len(s) /\ r[j] = s[j] /\ b[s[j].text] = a[s[j].text] \cup {e.text}
    BY <1>1, <1>2, <1>3, <1>4
  <2>2. CASE k = Len(s) + 1
    BY <1>2, <2>1, <2>2
  <2>3. CASE k \in 1..Len(s)
    BY <1>1, <1>2, <2>1, <2>3 DEF Good, Cache!InRecencyOrder
  <2> QED
    BY <1>1, <1>2, <2>2, <2>3
<1>7. Sound(r)
  BY <1>1, <1>2 DEF Good, Sound
<1> QED
  BY <1>5, <1>6, <1>7 DEF Good, r, b

\* Time passes for the entries, not for their order.
LEMMA OlderGood ==
  ASSUME NEW s, NEW a, Good(s, a)
  PROVE  Good(Cache!Older(s), a)
<1> DEFINE r == Cache!Older(s)
<1>1. s \in Seq(Cache!Entry) /\ Len(s) \in Nat /\ DOMAIN s = 1..Len(s)
  BY DEF Good, Cache!WellFormed
<1>2. /\ DOMAIN r = DOMAIN s
      /\ \A j \in DOMAIN s : r[j].text = s[j].text /\ r[j].vector = s[j].vector /\ r[j] \in Cache!Entry
  <2>1. \A j \in DOMAIN s : s[j] \in Cache!Entry
    BY <1>1
  <2> QED
    BY <2>1, LimitsAssumption DEF Cache!Older, Cache!Entry
<1>3. r \in Seq(Cache!Entry) /\ Len(r) = Len(s)
  <2>1. r = [j \in 1..Len(s) |-> r[j]]
    BY <1>1 DEF Cache!Older
  <2> HIDE DEF r
  <2> QED
    BY <1>1, <1>2, <2>1
<1> HIDE DEF r
<1> QED
  BY <1>1, <1>2, <1>3 DEF Good, Cache!WellFormed, Cache!InRecencyOrder, Sound, r

\* Where the entry of a text is.
LEMMA IndexFacts ==
  ASSUME NEW s, NEW t, Cache!Holds(s, t)
  PROVE  Cache!Index(s, t) \in DOMAIN s /\ s[Cache!Index(s, t)].text = t
BY DEF Cache!Holds, Cache!Index

\* A lookup that hits moves the entry to the end, where a use puts it.
LEMMA HitGood ==
  ASSUME NEW s, NEW a \in [Texts -> SUBSET Texts], NEW t \in Texts, Good(s, a), Cache!Hit(s, t)
  PROVE  Good(Cache!AfterGet(s, t), UseOf(a, t))
<1> DEFINE i == Cache!Index(s, t)
           r == Cache!RemoveAt(s, i)
<1>1. Cache!AfterGet(s, t) = Append(r, s[i])
  BY DEF Cache!AfterGet, Cache!Hit, Cache!MoveToEnd
<1>2. i \in DOMAIN s /\ s[i].text = t
  BY IndexFacts DEF Cache!Hit
<1> HIDE DEF i
<1>3. Good(r, a) /\ Len(r) = Len(s) - 1 /\ Without(r, t)
  BY <1>2, RemoveGood
<1> HIDE DEF r
<1>4. s[i] \in Cache!Entry /\ s[i].vector = "vector" /\ Len(r) < MaxSize
  BY <1>2, <1>3, LimitsAssumption DEF Good, Cache!WellFormed, Sound
<1> QED
  BY <1>1, <1>2, <1>3, <1>4, AppendGood

\* A lookup that misses may remove an entry.
LEMMA MissGood ==
  ASSUME NEW s, NEW a, NEW t, Good(s, a), ~Cache!Hit(s, t)
  PROVE  Good(Cache!AfterGet(s, t), a)
<1>1. CASE ~Cache!Holds(s, t)
  BY <1>1 DEF Cache!AfterGet
<1>2. CASE Cache!Holds(s, t)
  BY <1>2, IndexFacts, RemoveGood DEF Cache!AfterGet
<1> QED
  BY <1>1, <1>2

\* A store makes room if it must, and the text's one entry is the last.
LEMMA SetGood ==
  ASSUME NEW s, NEW a \in [Texts -> SUBSET Texts], NEW t \in Texts, Good(s, a)
  PROVE  Good(Cache!AfterSet(s, t, "vector"), UseOf(a, t))
<1> DEFINE e == [text |-> t, vector |-> "vector", left |-> TTL]
           r == IF Cache!Holds(s, t) THEN Cache!RemoveAt(s, Cache!Index(s, t)) ELSE Cache!Room(s)
<1>1. Cache!AfterSet(s, t, "vector") = Append(r, e)
  BY DEF Cache!AfterSet
<1>2. e \in Cache!Entry /\ e.text = t /\ e.vector = "vector"
  BY LimitsAssumption DEF Cache!Entry, Cache!Vectors
<1>3. s \in Seq(Cache!Entry) /\ Len(s) \in Nat /\ Len(s) <= MaxSize
  BY DEF Good, Cache!WellFormed
<1>4. Good(r, a) /\ Len(r) < MaxSize /\ Without(r, t)
  <2>1. CASE Cache!Holds(s, t)
    BY <1>3, <2>1, IndexFacts, RemoveGood, LimitsAssumption
  <2>2. CASE ~Cache!Holds(s, t)
    <3>1. Without(s, t)
      BY <2>2 DEF Cache!Holds, Without
    <3>2. CASE Len(s) >= MaxSize
      <4>1. r = Tail(s) /\ s # <<>>
        BY <1>3, <2>2, <3>2, LimitsAssumption DEF Cache!Room
      <4> HIDE DEF r
      <4>2. Good(r, a) /\ Len(r) = Len(s) - 1 /\ Without(r, t)
        BY <3>1, <4>1, TailGood
      <4> QED
        BY <1>3, <4>2, LimitsAssumption
    <3>3. CASE Len(s) < MaxSize
      BY <1>3, <2>2, <3>1, <3>3, LimitsAssumption DEF Cache!Room
    <3> QED
      BY <1>3, <3>2, <3>3, LimitsAssumption
  <2> QED
    BY <2>1, <2>2
<1> HIDE DEF e, r
<1> QED
  BY <1>1, <1>2, <1>4, AppendGood
-----------------------------------------------------------------------------
(* The calls *)

\* What a call stands for at each stage, and how far its attempts are.
JobOK ==
  \A c \in Calls :
    /\ at[c] \in {"queued"} \cup Holding => job[c] \in Jobs
    /\ at[c] = "storing" => job[c].text \in Texts /\ job[c].vector = "vector"
    /\ at[c] = "backoff" => attempt[c] < MaxAttempts

\* The inductive invariant.
IInv == TypeOK /\ JobOK /\ LimiterConserved /\ Good(store, after)

\* The holders of permits can be counted.
LEMMA HoldersFinite == IsFiniteSet(Holders) /\ Cardinality(Holders) \in Nat
<1>1. Holders \subseteq Calls
  BY DEF Holders
<1> QED
  BY <1>1, CallsAssumption, FS_Subset, FS_CardinalityType

\* The store after each kind of step.
LEMMA StoreStep == IInv /\ [Next]_vars => Good(store, after)'
<1> SUFFICES ASSUME IInv, [Next]_vars PROVE Good(store', after')
  BY DEF Good, Cache!WellFormed, Cache!InRecencyOrder, Sound
<1>0. Good(store, after) /\ after \in [Texts -> SUBSET Texts] /\ JobOK
  BY DEF IInv, TypeOK
<1>1. ASSUME NEW c \in Calls, NEW t \in Texts, EmbedFromCache(c, t) PROVE Good(store', after')
  BY <1>0, <1>1, HitGood DEF EmbedFromCache, Use, UseOf
<1>2. ASSUME NEW c \in Calls, NEW t \in Texts, EmbedByCall(c, t) PROVE Good(store', after')
  BY <1>0, <1>2, MissGood DEF EmbedByCall
<1>3. ASSUME NEW c \in Calls, Store(c) PROVE Good(store', after')
  <2>1. job[c].text \in Texts /\ store' = Cache!AfterSet(store, job[c].text, "vector")
        /\ after' = UseOf(after, job[c].text)
    BY <1>0, <1>3 DEF Store, JobOK, Use, UseOf
  <2> QED
    BY <1>0, <2>1, SetGood
<1>4. CASE Tick
  BY <1>0, <1>4, OlderGood DEF Tick
<1>5. CASE UNCHANGED <<store, after>>
  BY <1>0, <1>5
<1>6. ASSUME NEW c \in Calls, NEW k, \/ Ask(c, k) \/ Acquire(c) \/ PostAnswered(c) \/ PostFails(c)
                                     \/ PostBreaks(c) \/ Retry(c) \/ EndStream(c)
      PROVE  UNCHANGED <<store, after>>
  BY <1>6 DEF Ask, Acquire, PostAnswered, PostFails, PostBreaks, Retry, EndStream
<1>7. UNCHANGED vars => UNCHANGED <<store, after>>
  BY DEF vars
<1> QED
  BY <1>1, <1>2, <1>3, <1>4, <1>5, <1>6, <1>7 DEF Next, Start, Proceed

\* A call that starts is served at once or joins the queue.
LEMMA StartQueues ==
  ASSUME NEW c \in Calls, Start(c)
  PROVE  UNCHANGED calls \/ (at[c] = "free" /\ \E j \in Jobs : Enqueue(c, j))
<1>1. ASSUME NEW t \in Texts, EmbedFromCache(c, t) \/ EmbedByCall(c, t)
      PROVE  UNCHANGED calls \/ (at[c] = "free" /\ Enqueue(c, [kind |-> "embed", text |-> t]))
  BY <1>1 DEF EmbedFromCache, EmbedByCall
<1>2. ASSUME NEW k, Ask(c, k)
      PROVE  at[c] = "free" /\ Enqueue(c, [kind |-> k])
  BY <1>2 DEF Ask
<1>3. /\ \A t \in Texts : [kind |-> "embed", text |-> t] \in Jobs
      /\ \A k \in {"answer", "rerank", "stream"} : [kind |-> k] \in Jobs
  BY DEF Jobs
<1> QED
  BY <1>1, <1>2, <1>3 DEF Start

\* A step on one side of the semaphore.
LEMMA StayOnSide ==
  ASSUME IInv, NEW c \in Calls, NEW x, at' = [at EXCEPT ![c] = x], UNCHANGED permits,
         at[c] \in Holding <=> x \in Holding
  PROVE  LimiterConserved' /\ permits' \in 0..Permits
<1>1. Holders' = Holders
  BY DEF IInv, TypeOK, Holders
<1> QED
  BY <1>1 DEF IInv, TypeOK, LimiterConserved

\* Acquire adds one holder and takes one permit.
LEMMA TakePermit ==
  ASSUME IInv, NEW c \in Calls, NEW x \in Holding, at[c] \notin Holding,
         at' = [at EXCEPT ![c] = x], permits > 0, permits' = permits - 1
  PROVE  LimiterConserved' /\ permits' \in 0..Permits
<1>1. Holders' = Holders \cup {c} /\ c \notin Holders
  BY DEF IInv, TypeOK, Holders
<1>2. Cardinality(Holders') = Cardinality(Holders) + 1
  BY <1>1, HoldersFinite, FS_AddElement
<1>3. permits \in 0..Permits /\ permits + Cardinality(Holders) = Permits
  BY DEF IInv, TypeOK, LimiterConserved
<1>4. permits' + Cardinality(Holders') = Permits
  BY <1>2, <1>3, HoldersFinite
<1>5. permits' \in 0..Permits
  BY <1>3, LimitsAssumption
<1> QED
  BY <1>4, <1>5 DEF LimiterConserved

\* Leaving the semaphore removes one holder and gives back one permit.
LEMMA ReturnPermit ==
  ASSUME IInv, NEW c \in Calls, NEW x, x \notin Holding, at[c] \in Holding,
         at' = [at EXCEPT ![c] = x], permits' = Permitted(permits)
  PROVE  LimiterConserved' /\ permits' \in 0..Permits
<1>1. Holders' = Holders \ {c} /\ c \in Holders
  BY DEF IInv, TypeOK, Holders
<1>2. /\ Cardinality(Holders') = Cardinality(Holders) - 1
      /\ Cardinality(Holders') \in Nat
  BY <1>1, HoldersFinite, FS_RemoveElement, FS_CardinalityType
<1>3. permits \in 0..Permits /\ permits + Cardinality(Holders) = Permits
  BY DEF IInv, TypeOK, LimiterConserved
<1>4. permits' = permits + 1
  BY DEF Permitted
<1>5. permits' + Cardinality(Holders') = Permits
  BY <1>2, <1>3, <1>4, HoldersFinite
<1>6. permits' \in 0..Permits
  BY <1>2, <1>3, <1>4, <1>5, LimitsAssumption
<1> QED
  BY <1>5, <1>6 DEF LimiterConserved

\* The three ways in which a POST ends give the permit back.
LEMMA EndPermits ==
  ASSUME IInv, NEW c \in Calls, at[c] \in Holding,
         \/ Return(c)
         \/ GiveUp(c)
         \/ Embedded(c, "vector")
  PROVE  LimiterConserved' /\ permits' \in 0..Permits
<1>1. \/ at' = [at EXCEPT ![c] = "free"]
      \/ at' = [at EXCEPT ![c] = "storing"]
  BY DEF Return, GiveUp, Embedded
<1>2. permits' = Permitted(permits)
  BY DEF Return, GiveUp, Embedded
<1>3. "free" \notin Holding /\ "storing" \notin Holding
  BY DEF Holding
<1> QED
  BY <1>1, <1>2, <1>3, ReturnPermit

\* No step loses or doubles a permit.
LEMMA PermitStep == IInv /\ [Next]_vars => LimiterConserved' /\ permits' \in 0..Permits
<1> SUFFICES ASSUME IInv, [Next]_vars PROVE LimiterConserved' /\ permits' \in 0..Permits
  OBVIOUS
<1>1. ASSUME NEW c \in Calls, NEW j, at[c] = "free", Enqueue(c, j)
      PROVE  LimiterConserved' /\ permits' \in 0..Permits
  BY <1>1, StayOnSide DEF Enqueue, Holding
<1>2. ASSUME NEW c \in Calls, Acquire(c) PROVE LimiterConserved' /\ permits' \in 0..Permits
  <2>1. \/ at' = [at EXCEPT ![c] = "streaming"]
        \/ at' = [at EXCEPT ![c] = "posting"]
    BY <1>2 DEF Acquire
  <2> QED
    BY <1>2, <2>1, TakePermit DEF Acquire, Holding
<1>3. ASSUME NEW c \in Calls, PostAnswered(c) PROVE LimiterConserved' /\ permits' \in 0..Permits
  BY <1>3, EndPermits DEF PostAnswered, Holding
<1>4. ASSUME NEW c \in Calls, PostFails(c) PROVE LimiterConserved' /\ permits' \in 0..Permits
  BY <1>4, EndPermits, StayOnSide DEF PostFails, Holding
<1>5. ASSUME NEW c \in Calls, PostBreaks(c) PROVE LimiterConserved' /\ permits' \in 0..Permits
  BY <1>5, EndPermits DEF PostBreaks, Holding
<1>6. ASSUME NEW c \in Calls, Retry(c) PROVE LimiterConserved' /\ permits' \in 0..Permits
  BY <1>6, StayOnSide DEF Retry, Holding
<1>7. ASSUME NEW c \in Calls, Store(c) PROVE LimiterConserved' /\ permits' \in 0..Permits
  BY <1>7, StayOnSide DEF Store, Holding
<1>8. ASSUME NEW c \in Calls, EndStream(c) PROVE LimiterConserved' /\ permits' \in 0..Permits
  BY <1>8, EndPermits DEF EndStream, Holding
<1>9. CASE UNCHANGED calls \/ UNCHANGED vars
  <2>1. UNCHANGED <<at, permits>>
    BY <1>9 DEF calls, vars
  <2>2. Holders' = Holders
    BY <2>1 DEF Holders
  <2> QED
    BY <2>1, <2>2 DEF IInv, TypeOK, LimiterConserved
<1>10. ASSUME NEW c \in Calls, Start(c) PROVE LimiterConserved' /\ permits' \in 0..Permits
  BY <1>1, <1>9, <1>10, StartQueues
<1> QED
  BY <1>2, <1>3, <1>4, <1>5, <1>6, <1>7, <1>8, <1>9, <1>10 DEF Next, Proceed, Tick

\* A call ends with nothing left of it, or goes on to store a vector.
LEMMA EndTyped ==
  ASSUME TypeOK, JobOK, NEW c \in Calls, at[c] \in {"posting", "streaming"},
         \/ Return(c)
         \/ GiveUp(c)
         \/ job[c].kind = "embed" /\ Embedded(c, "vector")
  PROVE  /\ at' \in [Calls -> Stages]
         /\ job' \in [Calls -> Jobs \cup StoreJobs \cup {NoJob}]
         /\ attempt' \in [Calls -> 0..MaxAttempts]
         /\ error' \in [Calls -> Caught \cup {"none"}]
         /\ UNCHANGED queue
         /\ JobOK'
<1>1. CASE Return(c)
  BY <1>1, LimitsAssumption DEF Return, TypeOK, JobOK, Stages, Holding
<1>2. CASE job[c].kind = "embed" /\ Embedded(c, "vector")
  <2>1. job[c] \in Jobs
    BY DEF JobOK, Holding
  <2>2. job[c].text \in Texts
    BY <1>2, <2>1 DEF Jobs
  <2> DEFINE v == [kind |-> "embed", text |-> job[c].text, vector |-> "vector"]
  <2>3. v \in StoreJobs /\ v.text \in Texts /\ v.vector = "vector"
    BY <2>2 DEF StoreJobs, Cache!Vectors
  <2>4. /\ at' = [at EXCEPT ![c] = "storing"] /\ job' = [job EXCEPT ![c] = v]
        /\ UNCHANGED <<attempt, error, queue>>
    BY <1>2 DEF Embedded, Storable
  <2> HIDE DEF v
  <2> QED
    BY <2>3, <2>4 DEF TypeOK, JobOK, Stages, Holding
<1>3. GiveUp(c) => Return(c)
  BY DEF GiveUp, Embedded, Storable
<1> QED
  BY <1>1, <1>2, <1>3

\* Every step stores values of the right kind, within the budget of attempts.
LEMMA TypingStep == IInv /\ [Next]_vars => TypeOK' /\ JobOK'
<1> SUFFICES ASSUME IInv, [Next]_vars PROVE TypeOK' /\ JobOK'
  OBVIOUS
<1> DEFINE Rest == /\ at' \in [Calls -> Stages]
                   /\ job' \in [Calls -> Jobs \cup StoreJobs \cup {NoJob}]
                   /\ attempt' \in [Calls -> 0..MaxAttempts]
                   /\ error' \in [Calls -> Caught \cup {"none"}]
                   /\ queue' \in Seq(Calls)
                   /\ JobOK'
<1>0. TypeOK /\ JobOK
  BY DEF IInv
<1>1. ASSUME NEW c \in Calls, NEW j \in Jobs, at[c] = "free", Enqueue(c, j) PROVE Rest
  <2>1. Append(queue, c) \in Seq(Calls)
    BY <1>0 DEF TypeOK
  <2> QED
    BY <1>0, <1>1, <2>1 DEF Enqueue, TypeOK, JobOK, Stages, Holding
<1>2. ASSUME NEW c \in Calls, Acquire(c) PROVE Rest
  <2>1. Tail(queue) \in Seq(Calls)
    BY <1>0, <1>2 DEF TypeOK, Acquire
  <2> QED
    BY <1>0, <1>2, <2>1, LimitsAssumption DEF Acquire, TypeOK, JobOK, Stages, Holding
<1>3. ASSUME NEW c \in Calls, PostAnswered(c) PROVE Rest
  BY <1>0, <1>3, EndTyped DEF PostAnswered, TypeOK
<1>4. ASSUME NEW c \in Calls, PostFails(c) PROVE Rest
  <2>1. CASE LastAttempt(attempt[c])
    BY <1>0, <1>4, <2>1, EndTyped DEF PostFails, TypeOK
  <2>2. CASE ~LastAttempt(attempt[c])
    <3>1. /\ at' = [at EXCEPT ![c] = "backoff"] /\ at[c] = "posting"
          /\ UNCHANGED <<job, attempt, queue>>
      BY <1>4, <2>2 DEF PostFails
    <3>2. error' \in [Calls -> Caught \cup {"none"}]
      BY <1>0, <1>4, <2>2 DEF PostFails, TypeOK
    <3>3. attempt[c] < MaxAttempts
      BY <1>0, <2>2, LimitsAssumption DEF TypeOK, LastAttempt
    <3>4. JobOK'
      BY <1>0, <3>1, <3>3 DEF TypeOK, JobOK, Holding
    <3> QED
      BY <1>0, <3>1, <3>2, <3>4 DEF TypeOK, Stages, Holding
  <2> QED
    BY <2>1, <2>2
<1>5. ASSUME NEW c \in Calls, PostBreaks(c) PROVE Rest
  BY <1>0, <1>5, EndTyped DEF PostBreaks, TypeOK
<1>6. ASSUME NEW c \in Calls, Retry(c) PROVE Rest
  BY <1>0, <1>6, LimitsAssumption DEF Retry, TypeOK, JobOK, Stages, Holding
<1>7. ASSUME NEW c \in Calls, Store(c) PROVE Rest
  BY <1>0, <1>7, LimitsAssumption DEF Store, TypeOK, JobOK, Stages, Holding
<1>8. ASSUME NEW c \in Calls, EndStream(c) PROVE Rest
  BY <1>0, <1>8, EndTyped DEF EndStream, TypeOK
<1>9. ASSUME UNCHANGED calls \/ UNCHANGED vars PROVE Rest
  <2>1. UNCHANGED <<at, job, attempt, error, queue>>
    BY <1>9 DEF calls, vars
  <2>2. JobOK'
    BY <1>0, <2>1 DEF JobOK
  <2> QED
    BY <1>0, <2>1, <2>2 DEF TypeOK
<1>10. ASSUME NEW c \in Calls, Start(c) PROVE Rest
  <2> HIDE DEF Rest
  <2> QED
    BY <1>1, <1>9, <1>10, StartQueues
<1>11. Rest
  <2> HIDE DEF Rest
  <2> QED
    BY <1>2, <1>3, <1>4, <1>5, <1>6, <1>7, <1>8, <1>9, <1>10 DEF Next, Proceed, Tick
<1>12. permits' \in 0..Permits
  BY PermitStep
<1>13. after' \in [Texts -> SUBSET Texts]
  <2>1. \A t \in Texts : Use(t) => after' \in [Texts -> SUBSET Texts]
    BY <1>0 DEF Use, TypeOK
  <2>2. \A c \in Calls : Store(c) => job[c].text \in Texts
    BY <1>0 DEF Store, JobOK
  <2>3. UNCHANGED after \/ \E t \in Texts : Use(t)
    <3>1. \A c \in Calls : Store(c) => \E t \in Texts : Use(t)
      BY <2>2 DEF Store
    <3>2. \A c \in Calls, t \in Texts : EmbedFromCache(c, t) => Use(t)
      BY DEF EmbedFromCache
    <3>3. CASE UNCHANGED vars
      BY <3>3 DEF vars
    <3>4. CASE Tick
      BY <3>4 DEF Tick
    <3>5. ASSUME NEW c \in Calls, Start(c) PROVE UNCHANGED after \/ \E t \in Texts : Use(t)
      BY <3>2, <3>5 DEF Start, EmbedByCall, Ask
    <3>6. ASSUME NEW c \in Calls, Proceed(c) PROVE UNCHANGED after \/ \E t \in Texts : Use(t)
      BY <3>1, <3>6 DEF Proceed, Acquire, PostAnswered, PostFails, PostBreaks, Retry, EndStream
    <3> QED
      BY <3>3, <3>4, <3>5, <3>6 DEF Next
  <2> QED
    BY <1>0, <2>1, <2>3 DEF TypeOK
<1> QED
  BY <1>11, <1>12, <1>13 DEF TypeOK
-----------------------------------------------------------------------------

\* Nobody calls, and nothing is cached, at first.
LEMMA InitIInv == Init => IInv
<1> SUFFICES ASSUME Init PROVE IInv
  OBVIOUS
<1>1. TypeOK
  BY LimitsAssumption DEF Init, TypeOK, Stages
<1>2. JobOK
  BY DEF Init, JobOK, Holding
<1>3. LimiterConserved
  <2>1. Holders = {} /\ permits = Permits
    BY DEF Init, Holders, Holding
  <2> QED
    BY <2>1, FS_EmptySet, LimitsAssumption DEF LimiterConserved
<1>4. Good(store, after)
  <2>1. store = <<>> /\ store \in Seq(Cache!Entry) /\ Len(store) = 0 /\ DOMAIN store = {}
    BY DEF Init
  <2> QED
    BY <2>1, LimitsAssumption DEF Good, Cache!WellFormed, Cache!InRecencyOrder, Sound
<1> QED
  BY <1>1, <1>2, <1>3, <1>4 DEF IInv

\* The inductive invariant of the Gemini client and its cache.
THEOREM Invariance == Spec => []IInv
<1>1. IInv /\ [Next]_vars => IInv'
  BY TypingStep, PermitStep, StoreStep DEF IInv
<1> QED
  BY InitIInv, <1>1, PTL DEF Spec

\* Types, and no more attempts than the budget.
THEOREM TypeCorrect == Spec => []TypeOK
<1>1. IInv => TypeOK
  BY DEF IInv
<1> QED
  BY <1>1, Invariance, PTL

\* No permit is lost or given back twice, on any way out of a call.
THEOREM PermitsConserved == Spec => []LimiterConserved
<1>1. IInv => LimiterConserved
  BY DEF IInv
<1> QED
  BY <1>1, Invariance, PTL

\* The cache is bounded and has one entry for a text at most.
THEOREM CacheSound == Spec => []CacheWellFormed
<1>1. IInv => CacheWellFormed
  BY DEF IInv, Good, CacheWellFormed
<1> QED
  BY <1>1, Invariance, PTL

\* The cache evicts what was not used for the longest.
THEOREM EvictsLeastRecent == Spec => []CacheInRecencyOrder
<1>1. IInv => CacheInRecencyOrder
  BY DEF IInv, Good, CacheInRecencyOrder
<1> QED
  BY <1>1, Invariance, PTL

\* Nothing but a vector of the API is ever cached.
THEOREM OnlyVectorsCached == Spec => []FailuresNotCached
<1>1. IInv => FailuresNotCached
  BY DEF IInv, Good, Sound, FailuresNotCached
<1> QED
  BY <1>1, Invariance, PTL
=============================================================================
