-------------------------- MODULE LruTimeCacheProofs --------------------------
(***************************************************************************)
(* What the operations of LruTimeCache do, for any time to live, capacity, *)
(* keys and values: lemmas for the proofs about its users.                 *)
(***************************************************************************)
EXTENDS LruTimeCache, SequenceTheorems, WellFoundedInduction, TLAPS

\* The least-number principle, for a set of numbers.
LEMMA LeastNumber ==
    ASSUME NEW S \in SUBSET Nat, S # {}
    PROVE  \E m \in S : \A n \in S : m <= n
<1> DEFINE R == OpToRel(<, Nat)
<1>1. IsWellFoundedOn(R, Nat)
  BY NatLessThanWellFounded
<1>2. \A m, n \in Nat : n < m => <<n, m>> \in R
  BY DEF OpToRel
<1> HIDE DEF R
<1>3. PICK m \in S : \A n \in S : ~ (<<n, m>> \in R)
  BY <1>1, WFMin
<1>4. ASSUME NEW n \in S PROVE m <= n
  <2>1. m \in Nat /\ n \in Nat /\ ~(n < m)
    BY <1>2, <1>3
  <2> QED BY <2>1
<1> QED BY <1>4

-----------------------------------------------------------------------------
(* Lists of entries.                                                       *)

Entry(K, V) == [key : K, val : V, time : Int]
Entries(list) == {list[i] : i \in 1..Len(list)}

\* A key has one entry, and the entries are in the order of their times, none
\* of them later than now.
ListOK(list, K, V, now) ==
    /\ list \in Seq(Entry(K, V))
    /\ \A i, j \in 1..Len(list) : list[i].key = list[j].key => i = j
    /\ \A i, j \in 1..Len(list) : i <= j => list[i].time <= list[j].time
    /\ \A i \in 1..Len(list) : list[i].time <= now

LEMMA EntryTypes ==
    ASSUME NEW K, NEW V, NEW now, NEW list, ListOK(list, K, V, now)
    PROVE  /\ Len(list) \in Nat /\ DOMAIN list = 1..Len(list)
           /\ \A i \in 1..Len(list) :
                list[i] \in Entry(K, V) /\ list[i].time \in Int /\ list[i].key \in K /\ list[i].val \in V
           /\ \A e \in Entries(list) : e \in Entry(K, V) /\ e.time \in Int /\ e.key \in K /\ e.val \in V
           /\ \A e, f \in Entries(list) : e.key = f.key => e = f
           /\ \A e \in Entries(list) : e.time <= now
<1>1. list \in Seq(Entry(K, V)) /\ Len(list) \in Nat /\ DOMAIN list = 1..Len(list)
  BY DEF ListOK
<1>2. \A i \in 1..Len(list) : list[i] \in Entry(K, V)
  BY <1>1
<1>3. \A e \in Entry(K, V) : e.time \in Int /\ e.key \in K /\ e.val \in V
  BY DEF Entry
<1>4. \A e, f \in Entries(list) : e.key = f.key => e = f
  BY DEF ListOK, Entries
<1>5. \A e \in Entries(list) : e.time <= now
  BY DEF ListOK, Entries
<1>6. \A e \in Entries(list) : e \in Entry(K, V)
  BY <1>2 DEF Entries
<1> QED BY <1>1, <1>2, <1>3, <1>4, <1>5, <1>6

\* The first fresh entry.
LEMMA FreshFound ==
    ASSUME CacheBounds, NEW K, NEW V, NEW now \in Int, NEW list, ListOK(list, K, V, now)
    PROVE  LET n == FirstFresh(list, now) IN
           /\ n \in 1..(Len(list) + 1)
           /\ \A i \in 1..(n - 1) : list[i].time + TTL <= now
           /\ n <= Len(list) => list[n].time + TTL > now
<1>1. TTL \in Int /\ Len(list) \in Nat /\ \A i \in 1..Len(list) : list[i].time \in Int
  BY EntryTypes DEF CacheBounds
<1> DEFINE S == {i \in 1..(Len(list) + 1) : i <= Len(list) => list[i].time + TTL > now}
<1>2. S \in SUBSET Nat /\ S # {}
  <2>1. Len(list) + 1 \in S
    BY <1>1
  <2> QED BY <1>1, <2>1
<1>3. PICK n \in S : \A m \in S : n <= m
  <2> HIDE DEF S
  <2> QED BY <1>2, LeastNumber
<1>4. n \in 1..(Len(list) + 1) /\ (n <= Len(list) => list[n].time + TTL > now)
  BY <1>3
<1>5. ASSUME NEW i \in 1..(n - 1) PROVE list[i].time + TTL <= now
  <2>1. i \notin S /\ i \in 1..Len(list)
    BY <1>1, <1>3, <1>4
  <2> QED BY <1>1, <2>1
<1> HIDE DEF S
<1> QED BY <1>4, <1>5 DEF FirstFresh

\* A stretch of a list.
LEMMA Stretch ==
    ASSUME NEW K, NEW V, NEW now, NEW list, ListOK(list, K, V, now), NEW m \in 1..(Len(list) + 1)
    PROVE  LET r == SubSeq(list, m, Len(list)) IN
           /\ ListOK(r, K, V, now)
           /\ Len(r) = Len(list) - m + 1
           /\ \A i \in m..Len(list) : list[i] \in Entries(r)
           /\ \A e \in Entries(r) : \E i \in m..Len(list) : e = list[i]
<1> DEFINE r == SubSeq(list, m, Len(list))
<1>1. list \in Seq(Entry(K, V)) /\ Len(list) \in Nat
  BY DEF ListOK
<1>2. /\ r \in Seq(Entry(K, V)) /\ Len(r) = Len(list) - m + 1
      /\ \A i \in 1..Len(r) : r[i] = list[m + i - 1]
  BY <1>1
<1> HIDE DEF r
<1>3. \A i \in 1..Len(r) : m + i - 1 \in m..Len(list) /\ m + i - 1 \in 1..Len(list)
  BY <1>1, <1>2
<1>4. \A i \in m..Len(list) : i - m + 1 \in 1..Len(r) /\ m + (i - m + 1) - 1 = i
  BY <1>1, <1>2
<1>5. /\ \A i \in m..Len(list) : list[i] \in Entries(r)
      /\ \A e \in Entries(r) : \E i \in m..Len(list) : e = list[i]
  <2>1. ASSUME NEW e \in Entries(r) PROVE \E i \in m..Len(list) : e = list[i]
    BY <1>2, <1>3, <2>1 DEF Entries
  <2>2. ASSUME NEW i \in m..Len(list) PROVE list[i] \in Entries(r)
    BY <1>2, <1>4 DEF Entries
  <2> QED BY <2>1, <2>2
<1>6. \A i, j \in 1..Len(r) : r[i].key = r[j].key => i = j
  <2> SUFFICES ASSUME NEW i \in 1..Len(r), NEW j \in 1..Len(r), r[i].key = r[j].key PROVE i = j
    OBVIOUS
  <2>1. m + i - 1 = m + j - 1
    BY <1>2, <1>3 DEF ListOK
  <2> QED BY <1>1, <1>2, <2>1
<1>7. \A i, j \in 1..Len(r) : i <= j => r[i].time <= r[j].time
  <2> SUFFICES ASSUME NEW i \in 1..Len(r), NEW j \in 1..Len(r), i <= j
               PROVE  r[i].time <= r[j].time
    OBVIOUS
  <2>1. m + i - 1 <= m + j - 1
    BY <1>1, <1>2
  <2> QED BY <1>2, <1>3, <2>1 DEF ListOK
<1>8. \A i \in 1..Len(r) : r[i].time <= now
  BY <1>2, <1>3 DEF ListOK
<1> QED BY <1>2, <1>5, <1>6, <1>7, <1>8 DEF ListOK, r

FreshOf(list, now) == {e \in Entries(list) : e.time + TTL > now}

\* What RemoveExpired leaves: the fresh entries.
LEMMA ExpiredGone ==
    ASSUME CacheBounds, NEW K, NEW V, NEW now \in Int, NEW list, ListOK(list, K, V, now)
    PROVE  LET r == Unexpired(list, now) IN
           /\ ListOK(r, K, V, now) /\ Len(r) <= Len(list)
           /\ Entries(r) = FreshOf(list, now)
<1> DEFINE n == FirstFresh(list, now)
           r == SubSeq(list, n, Len(list))
<1>1. /\ n \in 1..(Len(list) + 1)
      /\ \A i \in 1..(n - 1) : list[i].time + TTL <= now
      /\ n <= Len(list) => list[n].time + TTL > now
  BY FreshFound
<1>2. TTL \in Int /\ Len(list) \in Nat /\ \A i \in 1..Len(list) : list[i].time \in Int
  BY EntryTypes DEF CacheBounds
<1> HIDE DEF n
<1>3. /\ ListOK(r, K, V, now) /\ Len(r) = Len(list) - n + 1
      /\ \A i \in n..Len(list) : list[i] \in Entries(r)
      /\ \A e \in Entries(r) : \E i \in n..Len(list) : e = list[i]
  BY <1>1, Stretch
<1> HIDE DEF r
<1>4. ASSUME NEW i \in n..Len(list) PROVE i \in 1..Len(list) /\ list[i].time + TTL > now
  <2>1. i \in 1..Len(list) /\ n \in 1..Len(list) /\ n <= i
    BY <1>1, <1>2
  <2>2. list[n].time <= list[i].time
    BY <2>1 DEF ListOK
  <2> QED BY <1>1, <1>2, <2>1, <2>2
<1>5. ASSUME NEW i \in 1..Len(list), list[i].time + TTL > now PROVE i \in n..Len(list)
  <2>1. ~(i \in 1..(n - 1))
    BY <1>1, <1>2, <1>5
  <2> QED BY <1>1, <1>2, <2>1
<1>6. Entries(r) = FreshOf(list, now)
  <2>1. ASSUME NEW e \in Entries(r) PROVE e \in FreshOf(list, now)
    BY <1>3, <1>4 DEF Entries, FreshOf
  <2>2. ASSUME NEW e \in FreshOf(list, now) PROVE e \in Entries(r)
    BY <1>3, <1>5 DEF Entries, FreshOf
  <2> QED BY <2>1, <2>2
<1>7. Len(r) <= Len(list)
  BY <1>1, <1>2, <1>3
<1> QED BY <1>3, <1>6, <1>7 DEF n, r, Unexpired

\* What WithoutKey leaves: the other entries.
LEMMA KeyGone ==
    ASSUME NEW K, NEW V, NEW now, NEW list, ListOK(list, K, V, now), NEW k
    PROVE  LET r == WithoutKey(list, k) IN
           /\ ListOK(r, K, V, now) /\ Len(r) <= Len(list)
           /\ Entries(r) = {e \in Entries(list) : e.key # k}
           /\ (\E e \in Entries(list) : e.key = k) => Len(r) < Len(list)
<1>0. list \in Seq(Entry(K, V)) /\ Len(list) \in Nat
  BY DEF ListOK
<1>1. CASE \E i \in 1..Len(list) : list[i].key = k
  <2> DEFINE n == CHOOSE i \in 1..Len(list) : list[i].key = k
             a == SubSeq(list, 1, n - 1)
             b == SubSeq(list, n + 1, Len(list))
             r == a \o b
  <2>1. n \in 1..Len(list) /\ list[n].key = k
    BY <1>1
  <2>2. WithoutKey(list, k) = r
    BY <1>1 DEF WithoutKey
  <2> HIDE DEF n
  <2>3. /\ a \in Seq(Entry(K, V)) /\ Len(a) = n - 1
        /\ \A i \in 1..(n - 1) : a[i] = list[i]
    BY <1>0, <2>1
  <2>4. /\ b \in Seq(Entry(K, V)) /\ Len(b) = Len(list) - n
        /\ \A i \in 1..(Len(list) - n) : b[i] = list[n + i]
    BY <1>0, <2>1
  <2> HIDE DEF a, b
  <2>5. /\ r \in Seq(Entry(K, V)) /\ Len(r) = Len(a) + Len(b)
        /\ \A i \in 1..(Len(a) + Len(b)) : r[i] = IF i <= Len(a) THEN a[i] ELSE b[i - Len(a)]
    BY <2>3, <2>4, ConcatProperties
  <2> HIDE DEF r
  \* Where the entries of r come from.
  <2> DEFINE At(i) == IF i < n THEN i ELSE i + 1
  <2>6. Len(r) = Len(list) - 1
    BY <1>0, <2>1, <2>3, <2>4, <2>5
  <2>7. ASSUME NEW i \in 1..Len(r) PROVE r[i] = list[At(i)] /\ At(i) \in 1..Len(list) /\ At(i) # n
    <3>1. CASE i < n
      BY <1>0, <2>1, <2>3, <2>4, <2>5, <2>6, <3>1
    <3>2. CASE ~(i < n)
      <4>1. i - Len(a) \in 1..(Len(list) - n) /\ ~(i <= Len(a)) /\ n + (i - Len(a)) = i + 1
        BY <1>0, <2>1, <2>3, <2>6, <3>2
      <4>2. r[i] = list[i + 1]
        BY <2>3, <2>4, <2>5, <2>6, <4>1
      <4> QED BY <1>0, <2>1, <2>6, <3>2, <4>2
    <3> QED BY <3>1, <3>2
  <2>8. \A i, j \in 1..Len(r) : (At(i) = At(j) => i = j) /\ (i <= j => At(i) <= At(j))
    BY <1>0, <2>1, <2>6
  <2>9. \A j \in 1..Len(list) : j # n => \E i \in 1..Len(r) : At(i) = j
    <3> SUFFICES ASSUME NEW j \in 1..Len(list), j # n PROVE \E i \in 1..Len(r) : At(i) = j
      OBVIOUS
    <3>1. CASE j < n
      BY <1>0, <2>1, <2>6, <3>1
    <3>2. CASE j > n
      <4>1. j - 1 \in 1..Len(r) /\ At(j - 1) = j
        BY <1>0, <2>1, <2>6, <3>2
      <4> QED BY <4>1
    <3> QED BY <2>1, <3>1, <3>2
  <2> HIDE DEF At
  <2>10. ListOK(r, K, V, now)
    <3>1. \A i, j \in 1..Len(r) : r[i].key = r[j].key => i = j
      BY <2>7, <2>8 DEF ListOK
    <3>2. \A i, j \in 1..Len(r) : i <= j => r[i].time <= r[j].time
      BY <2>7, <2>8 DEF ListOK
    <3>3. \A i \in 1..Len(r) : r[i].time <= now
      BY <2>7 DEF ListOK
    <3> QED BY <2>5, <3>1, <3>2, <3>3 DEF ListOK
  <2>11. Entries(r) = {e \in Entries(list) : e.key # k}
    <3>1. ASSUME NEW i \in 1..Len(r) PROVE r[i] \in Entries(list) /\ r[i].key # k
      BY <2>1, <2>7 DEF ListOK, Entries
    <3>2. ASSUME NEW j \in 1..Len(list), list[j].key # k PROVE list[j] \in Entries(r)
      <4>1. PICK i \in 1..Len(r) : At(i) = j
        BY <2>1, <2>9, <3>2
      <4> QED BY <2>7, <4>1 DEF Entries
    <3> QED BY <3>1, <3>2 DEF Entries
  <2> QED BY <1>0, <2>2, <2>6, <2>10, <2>11
<1>2. CASE ~ \E i \in 1..Len(list) : list[i].key = k
  <2>1. WithoutKey(list, k) = list
    BY <1>2 DEF WithoutKey
  <2>2. Entries(list) = {e \in Entries(list) : e.key # k}
    BY <1>2 DEF Entries
  <2>3. ~ \E e \in Entries(list) : e.key = k
    BY <1>2 DEF Entries
  <2> QED BY <1>0, <2>1, <2>2, <2>3
<1> QED BY <1>1, <1>2

\* A new entry at the end, with the present time.
LEMMA EntryAdded ==
    ASSUME NEW K, NEW V, NEW now \in Int, NEW list, ListOK(list, K, V, now), NEW k \in K, NEW v \in V,
           \A e \in Entries(list) : e.key # k
    PROVE  LET new == [key |-> k, val |-> v, time |-> now]
               r == Append(list, new)
           IN  /\ ListOK(r, K, V, now) /\ Len(r) = Len(list) + 1
               /\ Entries(r) = Entries(list) \cup {new}
<1> DEFINE new == [key |-> k, val |-> v, time |-> now]
           r == Append(list, new)
<1>1. list \in Seq(Entry(K, V)) /\ Len(list) \in Nat
  BY DEF ListOK
<1>2. new \in Entry(K, V) /\ new.key = k /\ new.time = now
  BY DEF Entry
<1> HIDE DEF new
<1>3. /\ r \in Seq(Entry(K, V)) /\ Len(r) = Len(list) + 1 /\ r[Len(list) + 1] = new
      /\ \A i \in 1..Len(list) : r[i] = list[i]
  BY <1>1, <1>2, AppendProperties
<1> HIDE DEF r
<1>4. \A i \in 1..Len(r) : i \in 1..Len(list) \/ i = Len(list) + 1
  BY <1>1, <1>3
<1>5. \A i \in 1..Len(list) : list[i].key # k /\ list[i].time <= now /\ list[i].time \in Int
  BY EntryTypes DEF Entries
<1>6. \A i, j \in 1..Len(r) : r[i].key = r[j].key => i = j
  BY <1>2, <1>3, <1>4, <1>5 DEF ListOK
<1>7. \A i, j \in 1..Len(r) : i <= j => r[i].time <= r[j].time
  <2> SUFFICES ASSUME NEW i \in 1..Len(r), NEW j \in 1..Len(r), i <= j PROVE r[i].time <= r[j].time
    OBVIOUS
  <2>1. CASE j = Len(list) + 1
    BY <1>2, <1>3, <1>4, <1>5, <2>1
  <2>2. CASE j \in 1..Len(list)
    <3>1. i \in 1..Len(list)
      BY <1>1, <1>3, <2>2
    <3> QED BY <1>3, <2>2, <3>1 DEF ListOK
  <2> QED BY <1>4, <2>1, <2>2
<1>8. \A i \in 1..Len(r) : r[i].time <= now
  BY <1>2, <1>3, <1>4, <1>5
<1>9. Entries(r) = Entries(list) \cup {new}
  <2>1. ASSUME NEW i \in 1..Len(r) PROVE r[i] \in Entries(list) \cup {new}
    BY <1>3, <1>4 DEF Entries
  <2>2. ASSUME NEW i \in 1..Len(list) PROVE list[i] \in Entries(r)
    BY <1>1, <1>3 DEF Entries
  <2>3. new \in Entries(r)
    BY <1>1, <1>3 DEF Entries
  <2> QED BY <2>1, <2>2, <2>3 DEF Entries
<1> QED BY <1>3, <1>6, <1>7, <1>8, <1>9 DEF ListOK, r, new

-----------------------------------------------------------------------------
(* The cache.                                                              *)

Cache(K, V) == [list : Seq(Entry(K, V)), sleep : Int, waker : BOOLEAN]
Fresh(c, now) == FreshOf(c.list, now)
NewEntry(k, v, now) == [key |-> k, val |-> v, time |-> now]
\* What a use of k at now makes of an entry.
Touched(e, k, now) == IF e.key = k THEN NewEntry(k, e.val, now) ELSE e

\* The timer runs for at most a time to live, and no entry was left behind when
\* it was set last.
CacheOK(c, K, V, now) ==
    /\ c \in Cache(K, V)
    /\ ListOK(c.list, K, V, now)
    /\ Len(c.list) <= Capacity
    /\ c.sleep <= now + TTL
    /\ \A e \in Entries(c.list) : e.time > c.sleep - 2 * TTL

LEMMA CacheLater ==
    ASSUME CacheBounds, NEW K, NEW V, NEW now \in Int, NEW c, CacheOK(c, K, V, now),
           NEW t \in Int, now <= t
    PROVE  CacheOK(c, K, V, t)
<1>1. \A i \in 1..Len(c.list) : c.list[i].time \in Int /\ c.list[i].time <= now
  BY EntryTypes DEF CacheOK, ListOK
<1>2. \A i \in 1..Len(c.list) : c.list[i].time <= t
  BY <1>1
<1>3. c.sleep \in Int /\ TTL \in Int /\ c.sleep <= now + TTL
  BY DEF CacheOK, Cache, CacheBounds
<1>4. c.sleep <= t + TTL
  BY <1>3
<1> QED BY <1>2, <1>4 DEF CacheOK, ListOK

LEMMA CacheNew ==
    ASSUME CacheBounds, NEW K, NEW V, NEW now \in Int
    PROVE  CacheOK(NewCache(now), K, V, now) /\ Entries(NewCache(now).list) = {}
<1>1. /\ NewCache(now).list = <<>> /\ NewCache(now).sleep = now + TTL
      /\ NewCache(now).waker = FALSE
      /\ NewCache(now) \in Cache(K, V)
  BY DEF NewCache, Cache, CacheBounds
<1>2. ListOK(<<>>, K, V, now) /\ Entries(<<>>) = {} /\ Len(<<>>) = 0
  BY DEF ListOK, Entries
<1> QED BY <1>1, <1>2 DEF CacheOK, CacheBounds

\* Keys, values and the value of a key, in terms of the entries.
LEMMA CacheLookup ==
    ASSUME NEW K, NEW V, NEW now, NEW c, CacheOK(c, K, V, now)
    PROVE  /\ Keys(c) = {e.key : e \in Entries(c.list)}
           /\ Values(c) = {e.val : e \in Entries(c.list)}
           /\ \A e \in Entries(c.list) : Value(c, e.key) = e.val
           /\ \A k \in Keys(c) : \E e \in Entries(c.list) : e.key = k /\ Value(c, k) = e.val
<1>0. DOMAIN c.list = 1..Len(c.list)
  BY EntryTypes DEF CacheOK
<1>1. /\ Keys(c) = {e.key : e \in Entries(c.list)}
      /\ Values(c) = {e.val : e \in Entries(c.list)}
  BY <1>0 DEF Keys, Values, Entries
<1>2. ASSUME NEW e \in Entries(c.list) PROVE Value(c, e.key) = e.val
  <2>1. PICK i \in DOMAIN c.list : e = c.list[i]
    BY <1>0 DEF Entries
  <2> DEFINE j == CHOOSE n \in DOMAIN c.list : c.list[n].key = e.key
  <2>2. j \in DOMAIN c.list /\ c.list[j].key = e.key
    BY <2>1
  <2>3. Value(c, e.key) = c.list[j].val
    BY DEF Value
  <2> HIDE DEF j
  <2>4. i = j
    BY <1>0, <2>1, <2>2 DEF CacheOK, ListOK
  <2> QED BY <2>1, <2>3, <2>4
<1> QED BY <1>1, <1>2

\* A cache with another list.
LEMMA CacheWith ==
    ASSUME CacheBounds, NEW K, NEW V, NEW now, NEW c, CacheOK(c, K, V, now),
           NEW r, ListOK(r, K, V, now), Len(r) <= Capacity,
           \A e \in Entries(r) : e.time > c.sleep - 2 * TTL
    PROVE  LET d == [c EXCEPT !.list = r] IN
           /\ CacheOK(d, K, V, now) /\ d.list = r /\ d.sleep = c.sleep /\ d.waker = c.waker
<1> DEFINE d == [c EXCEPT !.list = r]
<1>1. r \in Seq(Entry(K, V)) /\ c \in Cache(K, V)
  BY DEF ListOK, CacheOK
<1>2. d \in Cache(K, V) /\ d.list = r /\ d.sleep = c.sleep /\ d.waker = c.waker
  BY <1>1 DEF Cache
<1> HIDE DEF d
<1> QED BY <1>2 DEF CacheOK, d

LEMMA CacheRemoveExpired ==
    ASSUME CacheBounds, NEW K, NEW V, NEW now \in Int, NEW c, CacheOK(c, K, V, now)
    PROVE  LET d == RemoveExpired(c, now) IN
           /\ CacheOK(d, K, V, now) /\ Entries(d.list) = Fresh(c, now)
           /\ d.sleep = c.sleep /\ d.waker = c.waker
<1> DEFINE r == Unexpired(c.list, now)
<1>1. RemoveExpired(c, now) = [c EXCEPT !.list = r]
  BY DEF RemoveExpired
<1>2. ListOK(r, K, V, now) /\ Len(r) <= Len(c.list) /\ Entries(r) = FreshOf(c.list, now)
  BY ExpiredGone DEF CacheOK
<1> HIDE DEF r
<1>3. /\ \A e \in Entries(r) : e.time > c.sleep - 2 * TTL
      /\ Entries(r) = Fresh(c, now)
  BY <1>2 DEF CacheOK, Fresh, FreshOf
<1>4. Len(r) <= Capacity
  <2>1. Len(r) \in Nat /\ Len(c.list) \in Nat /\ Capacity \in Nat /\ Len(c.list) <= Capacity
    BY <1>2, EntryTypes DEF CacheOK, CacheBounds
  <2> QED BY <1>2, <2>1
<1> QED BY <1>1, <1>2, <1>3, <1>4, CacheWith

LEMMA CacheRemoveKey ==
    ASSUME CacheBounds, NEW K, NEW V, NEW now \in Int, NEW c, CacheOK(c, K, V, now), NEW k
    PROVE  LET d == RemoveKey(c, k) IN
           /\ CacheOK(d, K, V, now) /\ Entries(d.list) = {e \in Entries(c.list) : e.key # k}
           /\ d.sleep = c.sleep /\ d.waker = c.waker
<1> DEFINE r == WithoutKey(c.list, k)
<1>1. RemoveKey(c, k) = [c EXCEPT !.list = r]
  BY DEF RemoveKey
<1>2. /\ ListOK(r, K, V, now) /\ Len(r) <= Len(c.list)
      /\ Entries(r) = {e \in Entries(c.list) : e.key # k}
  BY KeyGone DEF CacheOK
<1> HIDE DEF r
<1>3. \A e \in Entries(r) : e.time > c.sleep - 2 * TTL
  BY <1>2 DEF CacheOK
<1>4. Len(r) <= Capacity
  <2>1. Len(r) \in Nat /\ Len(c.list) \in Nat /\ Capacity \in Nat /\ Len(c.list) <= Capacity
    BY <1>2, EntryTypes DEF CacheOK, CacheBounds
  <2> QED BY <1>2, <2>1
<1> QED BY <1>1, <1>2, <1>3, <1>4, CacheWith

\* What is fresh now is later than any timer that can be set.
LEMMA NowIsLate ==
    ASSUME CacheBounds, NEW K, NEW V, NEW now \in Int, NEW c, CacheOK(c, K, V, now)
    PROVE  now > c.sleep - 2 * TTL
<1>1. TTL \in Nat /\ TTL > 0 /\ c.sleep \in Int /\ c.sleep <= now + TTL
  BY DEF CacheBounds, CacheOK, Cache
<1> QED BY <1>1

\* get: the fresh entries, the one asked for at the end with the present time.
LEMMA CacheGet ==
    ASSUME CacheBounds, NEW K, NEW V, NEW now \in Int, NEW c, CacheOK(c, K, V, now), NEW k
    PROVE  LET d == Get(c, k, now) IN
           /\ CacheOK(d, K, V, now) /\ d.sleep = c.sleep /\ d.waker = c.waker
           /\ \A e \in Fresh(c, now) : Touched(e, k, now) \in Entries(d.list)
           /\ \A f \in Entries(d.list) : \E e \in Fresh(c, now) : f = Touched(e, k, now)
<1> DEFINE d == RemoveExpired(c, now)
           r == WithoutKey(d.list, k)
           new == [key |-> k, val |-> Value(d, k), time |-> now]
           s == Append(r, new)
<1>1. /\ CacheOK(d, K, V, now) /\ Entries(d.list) = Fresh(c, now)
      /\ d.sleep = c.sleep /\ d.waker = c.waker
  BY CacheRemoveExpired
<1>2. Get(c, k, now) = IF k \notin Keys(d) THEN d ELSE [d EXCEPT !.list = s]
  BY DEF Get
<1> HIDE DEF d
<1>3. CASE k \notin Keys(d)
  <2>1. Get(c, k, now) = d
    BY <1>2, <1>3
  <2>2. \A e \in Fresh(c, now) : e.key # k
    BY <1>1, <1>3, CacheLookup
  <2>3. \A e \in Fresh(c, now) : Touched(e, k, now) = e
    BY <2>2 DEF Touched
  <2> QED BY <1>1, <2>1, <2>3
<1>4. CASE k \in Keys(d)
  <2>1. PICK e0 \in Entries(d.list) : e0.key = k /\ Value(d, k) = e0.val
    BY <1>1, <1>4, CacheLookup
  <2>2. /\ e0.key \in K /\ e0.val \in V /\ Len(d.list) \in Nat
        /\ \A e, f \in Entries(d.list) : e.key = f.key => e = f
    BY <1>1, EntryTypes DEF CacheOK
  <2>3. /\ ListOK(r, K, V, now) /\ Len(r) < Len(d.list)
        /\ Entries(r) = {e \in Entries(d.list) : e.key # k}
    <3>1. ListOK(d.list, K, V, now)
      BY <1>1 DEF CacheOK
    <3> QED BY <2>1, <3>1, KeyGone
  <2> HIDE DEF r
  <2>5. /\ ListOK(s, K, V, now) /\ Len(s) = Len(r) + 1
        /\ Entries(s) = Entries(r) \cup {new}
    BY <2>1, <2>2, <2>3, EntryAdded
  <2>7. Len(s) <= Capacity
    <3>1. Len(r) \in Nat /\ Len(d.list) <= Capacity /\ Capacity \in Nat
      BY <1>1, <2>3, EntryTypes DEF CacheOK, CacheBounds
    <3> QED BY <2>2, <2>3, <2>5, <3>1
  <2>8. \A e \in Entries(s) : e.time > d.sleep - 2 * TTL
    <3>1. now > d.sleep - 2 * TTL /\ new.time = now
      BY <1>1, NowIsLate
    <3>2. \A e \in Entries(r) : e.time > d.sleep - 2 * TTL
      BY <1>1, <2>3 DEF CacheOK
    <3> HIDE DEF new, s
    <3> QED BY <2>5, <3>1, <3>2
  <2> HIDE DEF s
  <2>9. LET g == [d EXCEPT !.list = s] IN
        CacheOK(g, K, V, now) /\ g.list = s /\ g.sleep = d.sleep /\ g.waker = d.waker
    BY <1>1, <2>5, <2>7, <2>8, CacheWith
  <2>10. new = NewEntry(k, e0.val, now)
    BY <2>1 DEF NewEntry
  <2> HIDE DEF new
  <2>11. \A e \in Fresh(c, now) : Touched(e, k, now) \in Entries(s)
    BY <1>1, <2>1, <2>2, <2>3, <2>5, <2>10 DEF Touched
  <2>12. \A f \in Entries(s) : \E e \in Fresh(c, now) : f = Touched(e, k, now)
    BY <1>1, <2>1, <2>3, <2>5, <2>10 DEF Touched
  <2> QED BY <1>1, <1>2, <1>4, <2>9, <2>11, <2>12
<1> QED BY <1>3, <1>4

\* insert: the other fresh entries stay, but for the one used least recently
\* if the cache is full.
LEMMA CacheInsert ==
    ASSUME CacheBounds, NEW K, NEW V, NEW now \in Int, NEW c, CacheOK(c, K, V, now),
           NEW k \in K, NEW v \in V
    PROVE  LET d == Insert(c, k, v, now)
               new == NewEntry(k, v, now)
           IN  /\ CacheOK(d, K, V, now) /\ d.sleep = c.sleep /\ d.waker = c.waker
               /\ new \in Entries(d.list)
               /\ \A f \in Entries(d.list) : f = new \/ (f \in Fresh(c, now) /\ f.key # k)
               /\ \A e \in Fresh(c, now) : e.key # k =>
                    \/ e \in Entries(d.list)
                    \/ Len(d.list) = Capacity /\ \A f \in Entries(d.list) : e.time <= f.time
<1> DEFINE x == RemoveExpired(c, now).list
           kept == WithoutKey(x, k)
           room == IF Len(kept) >= Capacity THEN Tail(kept) ELSE kept
           new == [key |-> k, val |-> v, time |-> now]
           s == Append(room, new)
<1>0. Insert(c, k, v, now) = [c EXCEPT !.list = s]
  BY DEF Insert
<1>1. ListOK(x, K, V, now) /\ Len(x) <= Capacity /\ Entries(x) = Fresh(c, now)
  BY CacheRemoveExpired DEF CacheOK
<1> HIDE DEF x
<1>2. /\ ListOK(kept, K, V, now) /\ Len(kept) <= Len(x)
      /\ Entries(kept) = {e \in Entries(x) : e.key # k}
  BY <1>1, KeyGone
<1> HIDE DEF kept
<1>3. /\ Len(x) \in Nat /\ Len(kept) \in Nat /\ Len(kept) <= Capacity
      /\ Capacity \in Nat /\ Capacity > 0
  BY <1>1, <1>2, EntryTypes DEF CacheBounds
<1>4. /\ ListOK(room, K, V, now) /\ Len(room) + 1 <= Capacity /\ Len(room) \in Nat
      /\ Entries(room) \subseteq Entries(kept)
      /\ \A e \in Entries(kept) :
           \/ e \in Entries(room)
           \/ Len(room) + 1 = Capacity /\ \A f \in Entries(room) : e.time <= f.time
  <2>1. CASE Len(kept) >= Capacity
    <3>1. kept \in Seq(Entry(K, V)) /\ kept # <<>> /\ 2 \in 1..(Len(kept) + 1)
      BY <1>2, <1>3, <2>1 DEF ListOK
    <3>2. room = SubSeq(kept, 2, Len(kept))
      BY <2>1, <3>1, TailIsSubSeq
    <3> HIDE DEF room
    <3>3. /\ ListOK(room, K, V, now) /\ Len(room) = Len(kept) - 2 + 1
          /\ \A i \in 2..Len(kept) : kept[i] \in Entries(room)
          /\ \A e \in Entries(room) : \E i \in 2..Len(kept) : e = kept[i]
      <4> DEFINE m == 2
      <4>1. m \in 1..(Len(kept) + 1) /\ room = SubSeq(kept, m, Len(kept))
        BY <3>1, <3>2
      <4> HIDE DEF m
      <4>2. LET q == SubSeq(kept, m, Len(kept)) IN
            /\ ListOK(q, K, V, now) /\ Len(q) = Len(kept) - m + 1
            /\ \A i \in m..Len(kept) : kept[i] \in Entries(q)
            /\ \A e \in Entries(q) : \E i \in m..Len(kept) : e = kept[i]
        BY <1>2, <4>1, Stretch
      <4> QED BY <4>1, <4>2 DEF m
    <3>4. Entries(room) \subseteq Entries(kept)
      <4>1. \A i \in 2..Len(kept) : i \in 1..Len(kept)
        BY <1>3
      <4>2. \A i \in 1..Len(kept) : kept[i] \in Entries(kept)
        BY DEF Entries
      <4> QED BY <3>3, <4>1, <4>2
    <3>5. ASSUME NEW i \in 1..Len(kept)
          PROVE  kept[i] \in Entries(room) \/ \A f \in Entries(room) : kept[i].time <= f.time
      <4>1. CASE i = 1
        BY <1>2, <3>3, <4>1 DEF ListOK
      <4>2. CASE i # 1
        <5>1. i \in 2..Len(kept)
          BY <1>3, <4>2
        <5> QED BY <3>3, <5>1
      <4> QED BY <4>1, <4>2
    <3>6. Len(room) + 1 = Capacity /\ Len(room) \in Nat
      BY <1>3, <2>1, <3>3
    <3>7. \A e \in Entries(kept) : \E i \in 1..Len(kept) : e = kept[i]
      BY DEF Entries
    <3> QED BY <1>3, <3>3, <3>4, <3>5, <3>6, <3>7
  <2>2. CASE ~(Len(kept) >= Capacity)
    BY <1>2, <1>3, <2>2
  <2> QED BY <2>1, <2>2
<1> HIDE DEF room
<1>5. /\ ListOK(s, K, V, now) /\ Len(s) = Len(room) + 1
      /\ Entries(s) = Entries(room) \cup {new}
  BY <1>2, <1>4, EntryAdded
<1> HIDE DEF s
<1>6. new.time = now /\ now > c.sleep - 2 * TTL
  BY NowIsLate
<1> HIDE DEF new
<1>7. \A e \in Entries(kept) : e \in Fresh(c, now) /\ e.key # k /\ e.time <= now
  BY <1>1, <1>2, EntryTypes
<1>8. \A e \in Entries(s) : e.time > c.sleep - 2 * TTL
  <2>1. \A e \in Entries(kept) : e.time > c.sleep - 2 * TTL
    BY <1>7 DEF Fresh, FreshOf, CacheOK
  <2> QED BY <1>4, <1>5, <1>6, <2>1
<1>9. LET d == [c EXCEPT !.list = s] IN
      CacheOK(d, K, V, now) /\ d.list = s /\ d.sleep = c.sleep /\ d.waker = c.waker
  BY <1>4, <1>5, <1>8, CacheWith
<1>10. \A f \in Entries(s) : f = new \/ (f \in Fresh(c, now) /\ f.key # k)
  BY <1>4, <1>5, <1>7
<1>11. ASSUME NEW e \in Fresh(c, now), e.key # k
       PROVE  \/ e \in Entries(s)
              \/ Len(s) = Capacity /\ \A f \in Entries(s) : e.time <= f.time
  <2>1. e \in Entries(kept)
    BY <1>1, <1>2, <1>11
  <2>2. e.time <= now
    BY <1>7, <2>1
  <2> QED BY <1>4, <1>5, <1>6, <2>1, <2>2
<1>12. new = NewEntry(k, v, now)
  BY DEF new, NewEntry
<1> QED BY <1>0, <1>5, <1>9, <1>10, <1>11, <1>12

\* poll_clear_expired: the timer is set and known to the task, and whatever is
\* fresh stays.
LEMMA CacheClear ==
    ASSUME CacheBounds, NEW K, NEW V, NEW now \in Int, NEW c, CacheOK(c, K, V, now)
    PROVE  LET d == poll_clear_expired(c, now) IN
           /\ CacheOK(d, K, V, now) /\ d.waker /\ d.sleep > now
           /\ Entries(d.list) \subseteq Entries(c.list)
           /\ Fresh(c, now) \subseteq Entries(d.list)
<1> DEFINE d == poll_clear_expired(c, now)
<1>0. /\ c \in Cache(K, V) /\ c.sleep \in Int /\ TTL \in Nat /\ TTL > 0
      /\ c.sleep <= now + TTL
  BY DEF CacheOK, Cache, CacheBounds
<1>1. CASE c.sleep <= now
  <2> DEFINE x == RemoveExpired(c, now).list
  <2>1. ListOK(x, K, V, now) /\ Len(x) <= Capacity /\ Entries(x) = Fresh(c, now)
    BY CacheRemoveExpired DEF CacheOK
  <2>2. d = [list |-> x, sleep |-> now + TTL, waker |-> TRUE]
    BY <1>1 DEF poll_clear_expired
  <2> HIDE DEF x, d
  <2>3. d.list = x /\ d.sleep = now + TTL /\ d.waker
    BY <2>2
  <2>4. d \in Cache(K, V)
    BY <1>0, <2>1, <2>2 DEF Cache, ListOK
  <2>5. ASSUME NEW e \in Entries(x) PROVE e.time > (now + TTL) - 2 * TTL
    <3>1. e.time \in Int /\ e.time + TTL > now
      BY <2>1, EntryTypes DEF Fresh, FreshOf
    <3> QED BY <1>0, <3>1
  <2>6. CacheOK(d, K, V, now)
    BY <1>0, <2>1, <2>3, <2>4, <2>5 DEF CacheOK
  <2>7. Entries(x) \subseteq Entries(c.list)
    BY <2>1 DEF Fresh, FreshOf
  <2>8. d.sleep > now
    BY <1>0, <2>3
  <2> QED BY <2>1, <2>3, <2>6, <2>7, <2>8 DEF d
<1>2. CASE ~(c.sleep <= now)
  <2>1. d = [c EXCEPT !.waker = TRUE]
    BY <1>2 DEF poll_clear_expired
  <2>2. d.list = c.list /\ d.sleep = c.sleep /\ d.waker /\ d \in Cache(K, V)
    BY <1>0, <2>1 DEF Cache
  <2> HIDE DEF d
  <2>3. CacheOK(d, K, V, now)
    BY <2>2 DEF CacheOK
  <2>4. Fresh(c, now) \subseteq Entries(d.list) /\ d.sleep > now
    BY <1>0, <1>2, <2>2 DEF Fresh, FreshOf
  <2> QED BY <2>2, <2>3, <2>4 DEF d
<1> QED BY <1>1, <1>2

\* A cache that is dropped.
LEMMA CacheEmptied ==
    ASSUME CacheBounds, NEW K, NEW V, NEW now \in Int, NEW c, CacheOK(c, K, V, now)
    PROVE  LET d == [c EXCEPT !.list = <<>>, !.waker = FALSE] IN
           CacheOK(d, K, V, now) /\ Entries(d.list) = {}
<1> DEFINE none == <<>>
           d == [c EXCEPT !.list = none, !.waker = FALSE]
<1>1. ListOK(none, K, V, now) /\ Entries(none) = {} /\ Len(none) = 0
  BY DEF ListOK, Entries
<1> HIDE DEF none
<1>2. none \in Seq(Entry(K, V)) /\ c \in Cache(K, V)
  BY <1>1 DEF ListOK, CacheOK
<1>3. d \in Cache(K, V) /\ d.list = none /\ d.sleep = c.sleep
  BY <1>2 DEF Cache
<1> HIDE DEF d
<1>4. CacheOK(d, K, V, now)
  BY <1>1, <1>3 DEF CacheOK, CacheBounds
<1> QED BY <1>1, <1>3, <1>4 DEF d, none

-----------------------------------------------------------------------------
(* Which values the keys have, whatever the order and the times.           *)

Holds(c) == {<<c.list[i].key, c.list[i].val>> : i \in 1..Len(c.list)}
Tidy(c, now) == CacheOK(c, Keys(c), Values(c), now)

LEMMA HoldsEntries ==
    ASSUME NEW c
    PROVE  Holds(c) = {<<e.key, e.val>> : e \in Entries(c.list)}
BY DEF Holds, Entries

\* A cache has the types of what it holds.
LEMMA HeldTypes ==
    ASSUME NEW K, NEW V, NEW now, NEW c, Tidy(c, now), Holds(c) \subseteq K \X V
    PROVE  CacheOK(c, K, V, now)
<1> DEFINE l == c.list
<1>1. ListOK(l, Keys(c), Values(c), now) /\ c \in Cache(Keys(c), Values(c))
  BY DEF Tidy, CacheOK
<1>2. /\ Len(l) \in Nat /\ l \in Seq(Entry(Keys(c), Values(c)))
      /\ \A i \in 1..Len(l) : l[i] \in Entry(Keys(c), Values(c))
  BY <1>1, EntryTypes DEF ListOK
<1>3. \A i \in 1..Len(l) : <<l[i].key, l[i].val>> \in K \X V
  BY DEF Holds
<1>4. \A i \in 1..Len(l) : l[i] \in Entry(K, V)
  BY <1>2, <1>3 DEF Entry
<1>5. l \in Seq(Entry(K, V))
  BY <1>2, <1>4
<1>6. ListOK(l, K, V, now)
  BY <1>1, <1>5 DEF ListOK
<1>7. c \in Cache(K, V)
  BY <1>1, <1>5 DEF Cache
<1> QED
  BY <1>6, <1>7 DEF Tidy, CacheOK

LEMMA TidyFrom ==
    ASSUME NEW K, NEW V, NEW now, NEW c, CacheOK(c, K, V, now)
    PROVE  Tidy(c, now)
<1> DEFINE l == c.list
<1>1. ListOK(l, K, V, now) /\ c \in Cache(K, V)
  BY DEF CacheOK
<1>2. /\ Len(l) \in Nat /\ l \in Seq(Entry(K, V)) /\ DOMAIN l = 1..Len(l)
      /\ \A i \in 1..Len(l) : l[i] \in Entry(K, V)
  BY <1>1, EntryTypes DEF ListOK
<1>3. \A i \in 1..Len(l) : l[i].key \in Keys(c) /\ l[i].val \in Values(c)
  BY <1>2 DEF Keys, Values
<1>4. \A i \in 1..Len(l) : l[i] \in Entry(Keys(c), Values(c))
  BY <1>2, <1>3 DEF Entry
<1>5. l \in Seq(Entry(Keys(c), Values(c)))
  BY <1>2, <1>4
<1>6. ListOK(l, Keys(c), Values(c), now)
  BY <1>1, <1>5 DEF ListOK
<1>7. c \in Cache(Keys(c), Values(c))
  BY <1>1, <1>5 DEF Cache
<1> QED
  BY <1>6, <1>7 DEF Tidy, CacheOK

LEMMA TidyNew ==
    ASSUME CacheBounds, NEW now \in Int
    PROVE  Tidy(NewCache(now), now) /\ Holds(NewCache(now)) = {}
<1>1. CacheOK(NewCache(now), {}, {}, now) /\ Entries(NewCache(now).list) = {}
  BY CacheNew
<1> QED
  BY <1>1, TidyFrom, HoldsEntries

LEMMA TidyLater ==
    ASSUME CacheBounds, NEW now \in Int, NEW t \in Int, now <= t, NEW c, Tidy(c, now)
    PROVE  Tidy(c, t)
BY CacheLater DEF Tidy

\* What a lookup finds is held, and a use adds nothing.
LEMMA TidyLookup ==
    ASSUME CacheBounds, NEW now \in Int, NEW c, Tidy(c, now), NEW k
    PROVE  /\ k \in Keys(c) => <<k, Value(c, k)>> \in Holds(c)
           /\ k \in Keys(RemoveExpired(c, now)) => k \in Keys(c)
<1>1. CacheOK(c, Keys(c), Values(c), now)
  BY DEF Tidy
<1>2. CacheOK(RemoveExpired(c, now), Keys(c), Values(c), now)
      /\ Entries(RemoveExpired(c, now).list) = Fresh(c, now)
  BY <1>1, CacheRemoveExpired
<1>3. Keys(RemoveExpired(c, now)) = {e.key : e \in Fresh(c, now)}
  BY <1>2, CacheLookup
<1>4. Keys(c) = {e.key : e \in Entries(c.list)}
      /\ \A j \in Keys(c) : \E e \in Entries(c.list) : e.key = j /\ Value(c, j) = e.val
  BY <1>1, CacheLookup
<1> QED
  BY <1>3, <1>4, HoldsEntries DEF Fresh, FreshOf

LEMMA TidyGet ==
    ASSUME CacheBounds, NEW now \in Int, NEW c, Tidy(c, now), NEW k
    PROVE  Tidy(Get(c, k, now), now) /\ Holds(Get(c, k, now)) \subseteq Holds(c)
<1> DEFINE d == Get(c, k, now)
<1>1. /\ CacheOK(d, Keys(c), Values(c), now)
      /\ \A f \in Entries(d.list) : \E e \in Fresh(c, now) : f = Touched(e, k, now)
  BY CacheGet DEF Tidy
<1>2. \A e \in Fresh(c, now) : /\ Touched(e, k, now).key = e.key /\ Touched(e, k, now).val = e.val
                               /\ e \in Entries(c.list)
  BY DEF Touched, NewEntry, Fresh, FreshOf
<1> QED
  BY <1>1, <1>2, TidyFrom, HoldsEntries

LEMMA TidyInsert ==
    ASSUME CacheBounds, NEW now \in Int, NEW c, Tidy(c, now), NEW k, NEW v
    PROVE  /\ Tidy(Insert(c, k, v, now), now)
           /\ Holds(Insert(c, k, v, now)) \subseteq Holds(c) \cup {<<k, v>>}
<1> DEFINE d == Insert(c, k, v, now)
           K == Keys(c) \cup {k}
           V == Values(c) \cup {v}
<1>1. CacheOK(c, Keys(c), Values(c), now)
  BY DEF Tidy
<1>2. \A e \in Entries(c.list) : e.key \in Keys(c) /\ e.val \in Values(c)
  BY <1>1, CacheLookup
<1>3. CacheOK(c, K, V, now)
  BY <1>2, HeldTypes, HoldsEntries
<1>4. /\ CacheOK(d, K, V, now)
      /\ \A f \in Entries(d.list) : f = NewEntry(k, v, now) \/ (f \in Fresh(c, now) /\ f.key # k)
  BY <1>3, CacheInsert
<1>5. \A f \in Entries(d.list) : (f.key = k /\ f.val = v) \/ f \in Entries(c.list)
  BY <1>4 DEF NewEntry, Fresh, FreshOf
<1> QED
  BY <1>4, <1>5, TidyFrom, HoldsEntries
=============================================================================
