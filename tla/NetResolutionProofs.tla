------------------------ MODULE NetResolutionProofs ------------------------
(***************************************************************************)
(* Proofs about NetResolution: the rule net's cache never changes which    *)
(* rule decides, the sniffer recovers a name only from answers, and        *)
(* packets and connections arrive where they were sent.                    *)
(***************************************************************************)
EXTENDS NetResolution, TLAPS

-----------------------------------------------------------------------------
(* The two instances of the cache, and what is proved of each.             *)

SnifferFacts == INSTANCE LruTimeCacheProofs WITH TTL <- SnifferTTL, Capacity <- SnifferCapacity
RuleFacts == INSTANCE LruTimeCacheProofs WITH TTL <- 1, Capacity <- RuleCacheSize

LEMMA SnifferOperators ==
    ASSUME NEW c, NEW k, NEW v, NEW t
    PROVE  /\ Sniff!NewCache(t) = SnifferFacts!NewCache(t)
           /\ Sniff!Keys(c) = SnifferFacts!Keys(c)
           /\ Sniff!Value(c, k) = SnifferFacts!Value(c, k)
           /\ Sniff!RemoveExpired(c, t) = SnifferFacts!RemoveExpired(c, t)
           /\ Sniff!Get(c, k, t) = SnifferFacts!Get(c, k, t)
           /\ Sniff!Insert(c, k, v, t) = SnifferFacts!Insert(c, k, v, t)
<1>1. \A l : Sniff!FirstFresh(l, t) = SnifferFacts!FirstFresh(l, t)
  BY DEF Sniff!FirstFresh, SnifferFacts!FirstFresh
<1>2. \A l : Sniff!Unexpired(l, t) = SnifferFacts!Unexpired(l, t)
  BY <1>1 DEF Sniff!Unexpired, SnifferFacts!Unexpired
<1>3. \A l : Sniff!WithoutKey(l, k) = SnifferFacts!WithoutKey(l, k)
  BY DEF Sniff!WithoutKey, SnifferFacts!WithoutKey
<1>4. \A d : Sniff!RemoveExpired(d, t) = SnifferFacts!RemoveExpired(d, t)
  BY <1>2 DEF Sniff!RemoveExpired, SnifferFacts!RemoveExpired
<1>5. \A d : Sniff!Value(d, k) = SnifferFacts!Value(d, k)
  BY DEF Sniff!Value, SnifferFacts!Value
<1>6. \A d : Sniff!Keys(d) = SnifferFacts!Keys(d)
  BY DEF Sniff!Keys, SnifferFacts!Keys
<1>7. Sniff!Get(c, k, t) = SnifferFacts!Get(c, k, t)
  BY <1>3, <1>4, <1>5, <1>6 DEF Sniff!Get, SnifferFacts!Get
<1>8. Sniff!Insert(c, k, v, t) = SnifferFacts!Insert(c, k, v, t)
  BY <1>3, <1>4 DEF Sniff!Insert, SnifferFacts!Insert
<1>9. Sniff!NewCache(t) = SnifferFacts!NewCache(t)
  BY DEF Sniff!NewCache, SnifferFacts!NewCache
<1> QED
  BY <1>4, <1>5, <1>6, <1>7, <1>8, <1>9

LEMMA RuleOperators ==
    ASSUME NEW c, NEW k, NEW v, NEW t
    PROVE  /\ RuleCache!NewCache(t) = RuleFacts!NewCache(t)
           /\ RuleCache!Keys(c) = RuleFacts!Keys(c)
           /\ RuleCache!Value(c, k) = RuleFacts!Value(c, k)
           /\ RuleCache!Get(c, k, t) = RuleFacts!Get(c, k, t)
           /\ RuleCache!Insert(c, k, v, t) = RuleFacts!Insert(c, k, v, t)
<1>1. \A l : RuleCache!FirstFresh(l, t) = RuleFacts!FirstFresh(l, t)
  BY DEF RuleCache!FirstFresh, RuleFacts!FirstFresh
<1>2. \A l : RuleCache!Unexpired(l, t) = RuleFacts!Unexpired(l, t)
  BY <1>1 DEF RuleCache!Unexpired, RuleFacts!Unexpired
<1>3. \A l : RuleCache!WithoutKey(l, k) = RuleFacts!WithoutKey(l, k)
  BY DEF RuleCache!WithoutKey, RuleFacts!WithoutKey
<1>4. \A d : RuleCache!RemoveExpired(d, t) = RuleFacts!RemoveExpired(d, t)
  BY <1>2 DEF RuleCache!RemoveExpired, RuleFacts!RemoveExpired
<1>5. \A d : RuleCache!Value(d, k) = RuleFacts!Value(d, k)
  BY DEF RuleCache!Value, RuleFacts!Value
<1>6. \A d : RuleCache!Keys(d) = RuleFacts!Keys(d)
  BY DEF RuleCache!Keys, RuleFacts!Keys
<1>7. RuleCache!Get(c, k, t) = RuleFacts!Get(c, k, t)
  BY <1>3, <1>4, <1>5, <1>6 DEF RuleCache!Get, RuleFacts!Get
<1>8. RuleCache!Insert(c, k, v, t) = RuleFacts!Insert(c, k, v, t)
  BY <1>3, <1>4 DEF RuleCache!Insert, RuleFacts!Insert
<1>9. RuleCache!NewCache(t) = RuleFacts!NewCache(t)
  BY DEF RuleCache!NewCache, RuleFacts!NewCache
<1> QED
  BY <1>5, <1>6, <1>7, <1>8, <1>9

LEMMA Bounds == SnifferFacts!CacheBounds /\ RuleFacts!CacheBounds
BY NetAssumption DEF SnifferFacts!CacheBounds, RuleFacts!CacheBounds

\* The sniffer's caches: what they hold after each operation.
LEMMA SnifferCaches ==
    ASSUME NEW t \in Int, NEW c, SnifferFacts!Tidy(c, t), NEW k, NEW v
    PROVE  /\ k \in Sniff!Keys(Sniff!RemoveExpired(c, t)) =>
                <<k, Sniff!Value(c, k)>> \in SnifferFacts!Holds(c)
           /\ SnifferFacts!Tidy(Sniff!Get(c, k, t), t)
           /\ SnifferFacts!Holds(Sniff!Get(c, k, t)) \subseteq SnifferFacts!Holds(c)
           /\ SnifferFacts!Tidy(Sniff!Insert(c, k, v, t), t)
           /\ SnifferFacts!Holds(Sniff!Insert(c, k, v, t))
                \subseteq SnifferFacts!Holds(c) \cup {<<k, v>>}
<1>1. Sniff!Keys(Sniff!RemoveExpired(c, t)) = SnifferFacts!Keys(SnifferFacts!RemoveExpired(c, t))
  BY SnifferOperators
<1>2. /\ Sniff!Value(c, k) = SnifferFacts!Value(c, k)
      /\ Sniff!Get(c, k, t) = SnifferFacts!Get(c, k, t)
      /\ Sniff!Insert(c, k, v, t) = SnifferFacts!Insert(c, k, v, t)
  BY SnifferOperators
<1>3. /\ k \in SnifferFacts!Keys(c) => <<k, SnifferFacts!Value(c, k)>> \in SnifferFacts!Holds(c)
      /\ k \in SnifferFacts!Keys(SnifferFacts!RemoveExpired(c, t)) => k \in SnifferFacts!Keys(c)
  BY Bounds, SnifferFacts!TidyLookup
<1>4. /\ SnifferFacts!Tidy(SnifferFacts!Get(c, k, t), t)
      /\ SnifferFacts!Holds(SnifferFacts!Get(c, k, t)) \subseteq SnifferFacts!Holds(c)
  BY Bounds, SnifferFacts!TidyGet
<1>5. /\ SnifferFacts!Tidy(SnifferFacts!Insert(c, k, v, t), t)
      /\ SnifferFacts!Holds(SnifferFacts!Insert(c, k, v, t))
           \subseteq SnifferFacts!Holds(c) \cup {<<k, v>>}
  BY Bounds, SnifferFacts!TidyInsert
<1> QED
  BY <1>1, <1>2, <1>3, <1>4, <1>5

\* The same of the rule net's, whose entries do not expire.
LEMMA RuleCaches ==
    ASSUME NEW c, RuleFacts!Tidy(c, 0), NEW k, NEW v
    PROVE  /\ k \in RuleCache!Keys(c) => <<k, RuleCache!Value(c, k)>> \in RuleFacts!Holds(c)
           /\ RuleFacts!Tidy(RuleCache!Get(c, k, 0), 0)
           /\ RuleFacts!Holds(RuleCache!Get(c, k, 0)) \subseteq RuleFacts!Holds(c)
           /\ RuleFacts!Tidy(RuleCache!Insert(c, k, v, 0), 0)
           /\ RuleFacts!Holds(RuleCache!Insert(c, k, v, 0))
                \subseteq RuleFacts!Holds(c) \cup {<<k, v>>}
<1>1. RuleCache!Keys(c) = RuleFacts!Keys(c)
  BY RuleOperators
<1>2. /\ RuleCache!Value(c, k) = RuleFacts!Value(c, k)
      /\ RuleCache!Get(c, k, 0) = RuleFacts!Get(c, k, 0)
      /\ RuleCache!Insert(c, k, v, 0) = RuleFacts!Insert(c, k, v, 0)
  BY RuleOperators
<1>3. k \in RuleFacts!Keys(c) => <<k, RuleFacts!Value(c, k)>> \in RuleFacts!Holds(c)
  BY Bounds, RuleFacts!TidyLookup, 0 \in Int
<1>4. /\ RuleFacts!Tidy(RuleFacts!Get(c, k, 0), 0)
      /\ RuleFacts!Holds(RuleFacts!Get(c, k, 0)) \subseteq RuleFacts!Holds(c)
  BY Bounds, RuleFacts!TidyGet, 0 \in Int
<1>5. /\ RuleFacts!Tidy(RuleFacts!Insert(c, k, v, 0), 0)
      /\ RuleFacts!Holds(RuleFacts!Insert(c, k, v, 0)) \subseteq RuleFacts!Holds(c) \cup {<<k, v>>}
  BY Bounds, RuleFacts!TidyInsert, 0 \in Int
<1> QED
  BY <1>1, <1>2, <1>3, <1>4, <1>5

-----------------------------------------------------------------------------
(* Recursion up to a number.                                               *)

IteratesFrom(f, N, A, a, g) ==
    f \in [0..N -> A] /\ f[0] = a /\ \A n \in 1..N : f[n] = g[<<n, f[n - 1]>>]

LEMMA FiniteRecursion ==
    ASSUME NEW N \in Nat, NEW A, NEW a \in A, NEW g \in [(1..N) \X A -> A]
    PROVE  \E f : IteratesFrom(f, N, A, a, g)
<1> DEFINE Upto(m) == \E f \in [0..m -> A] : f[0] = a /\ \A n \in 1..m : f[n] = g[<<n, f[n - 1]>>]
           S == {m \in 0..N : ~Upto(m)}
<1>1. SUFFICES ASSUME S # {} PROVE FALSE
  <2> HIDE DEF Upto
  <2>1. S = {} => Upto(N)
    OBVIOUS
  <2> QED
    BY <2>1, <1>1 DEF Upto, IteratesFrom
<1>2. PICK m \in S : \A n \in S : m <= n
  <2>1. S \in SUBSET Nat
    OBVIOUS
  <2> QED
    BY <1>1, <2>1, SnifferFacts!LeastNumber
<1>3. Upto(0)
  <2> DEFINE f == [i \in 0..0 |-> a]
  <2>1. f \in [0..0 -> A] /\ f[0] = a /\ \A n \in 1..0 : f[n] = g[<<n, f[n - 1]>>]
    OBVIOUS
  <2> QED
    BY <2>1
<1>4. m # 0 /\ m \in 0..N /\ m - 1 \in 0..N /\ Upto(m - 1)
  <2> HIDE DEF Upto
  <2> QED
    BY <1>2, <1>3
<1>5. PICK f \in [0..(m - 1) -> A] : f[0] = a /\ \A n \in 1..(m - 1) : f[n] = g[<<n, f[n - 1]>>]
  BY <1>4
<1> DEFINE h == [i \in 0..m |-> IF i < m THEN f[i] ELSE g[<<m, f[m - 1]>>]]
<1>6. g[<<m, f[m - 1]>>] \in A
  BY <1>4, <1>5
<1>7. h \in [0..m -> A] /\ h[0] = a
  BY <1>4, <1>5, <1>6
<1>8. \A n \in 1..m : h[n] = g[<<n, h[n - 1]>>]
  <2> SUFFICES ASSUME NEW n \in 1..m PROVE h[n] = g[<<n, h[n - 1]>>]
    OBVIOUS
  <2>1. h[n - 1] = f[n - 1]
    BY <1>4
  <2>2. CASE n < m
    BY <2>1, <2>2, <1>4, <1>5
  <2>3. CASE n = m
    BY <2>1, <2>3, <1>4
  <2> QED
    BY <2>2, <2>3, <1>4
<1>9. Upto(m)
  BY <1>7, <1>8
<1> QED
  BY <1>2, <1>9

\* The walk of the sniffer, as the sequence of names it passes.
LEMMA WalkPasses ==
    ASSUME NEW V, NEW start \in V, \A d \in V : Known(d) => Sniff!Value(cname_map, d) \in V
    PROVE  \E f \in [0..CnameLimit -> V] :
             /\ f[0] = start
             /\ f[CnameLimit] = Walk(start)
             /\ \A n \in 1..CnameLimit :
                  f[n] = f[n - 1] \/ (Known(f[n - 1]) /\ f[n] = Sniff!Value(cname_map, f[n - 1]))
<1> DEFINE step(d) == IF Known(d) THEN Sniff!Value(cname_map, d) ELSE d
           g == [x \in (1..CnameLimit) \X V |-> step(x[2])]
           Def(f) == f = [n \in 0..CnameLimit |-> IF n = 0 THEN start ELSE step(f[n - 1])]
<1>1. CnameLimit \in Nat
  BY NetAssumption
<1>2. g \in [(1..CnameLimit) \X V -> V]
  OBVIOUS
<1>3. PICK f : IteratesFrom(f, CnameLimit, V, start, g)
  <2> HIDE DEF g
  <2> QED
    BY <1>1, <1>2, FiniteRecursion
<1>4. Def(f)
  <2>1. \A n \in 1..CnameLimit : n - 1 \in 0..CnameLimit /\ f[n - 1] \in V
    BY <1>1, <1>3 DEF IteratesFrom
  <2>2. \A n \in 1..CnameLimit : f[n] = step(f[n - 1])
    BY <2>1, <1>3 DEF IteratesFrom
  <2> HIDE DEF step
  <2> QED
    BY <1>1, <1>3, <2>2 DEF IteratesFrom
<1> DEFINE w == CHOOSE x : Def(x)
<1>5. Walk(start) = w[CnameLimit]
  BY DEF Walk
<1>6. Def(w)
  <2> HIDE DEF Def
  <2> QED
    BY <1>4
<1>7. /\ w = [n \in 0..CnameLimit |-> w[n]] /\ w[0] = start
      /\ \A n \in 1..CnameLimit : w[n] = step(w[n - 1])
  <2> HIDE DEF step, w
  <2> QED
    BY <1>1, <1>6
<1>8. \A n \in 0..CnameLimit : w[n] \in V
  <2> HIDE DEF w
  <2> DEFINE S == {n \in 0..CnameLimit : w[n] \notin V}
  <2>1. SUFFICES ASSUME S # {} PROVE FALSE
    OBVIOUS
  <2>2. PICK m \in S : \A n \in S : m <= n
    <3>1. S \in SUBSET Nat
      OBVIOUS
    <3> QED
      BY <2>1, <3>1, SnifferFacts!LeastNumber
  <2>3. m \in 1..CnameLimit /\ m - 1 \in 0..CnameLimit /\ m - 1 \notin S
    BY <1>1, <1>7, <2>2
  <2> QED
    BY <1>7, <2>2, <2>3
<1>9. w \in [0..CnameLimit -> V]
  <2> HIDE DEF w
  <2> QED
    BY <1>7, <1>8
<1> HIDE DEF w
<1> QED
  BY <1>5, <1>7, <1>9

\* What a packet with the given answers adds to the two tables.
IpsOf(p, answers) ==
    {<<answers[i].ip, p.queries[1]>> : i \in {j \in 1..Len(answers) : answers[j].type = "ip"}}
AliasesOf(p, answers) ==
    {<<answers[i].name, p.queries[1]>> : i \in {j \in 1..Len(answers) : answers[j].type = "cname"}}

\* The tables are in order and hold no more than the given pairs.
Within(x, P, Q) ==
    /\ SnifferFacts!Tidy(x[1], now) /\ SnifferFacts!Holds(x[1]) \subseteq P
    /\ SnifferFacts!Tidy(x[2], now) /\ SnifferFacts!Holds(x[2]) \subseteq Q

Tables(x, P, Q) == \E c, d : x = <<c, d>> /\ Within(x, P, Q)

LEMMA OneRecorded ==
    ASSUME NEW p, NEW answers, NEW i \in 1..Len(answers), now \in Int, NEW P, NEW Q, NEW x,
           Tables(x, P, Q), IpsOf(p, answers) \subseteq P, AliasesOf(p, answers) \subseteq Q
    PROVE  Tables(RecordAnswer(p, answers[i], x), P, Q)
<1>0. PICK c, d : x = <<c, d>> /\ Within(x, P, Q)
  BY DEF Tables
<1> DEFINE a == answers[i]
           q == p.queries[1]
           ip == Sniff!Insert(c, a.ip, q, now)
           alias == Sniff!Insert(d, a.name, q, now)
<1>1. SnifferFacts!Tidy(c, now) /\ SnifferFacts!Holds(c) \subseteq P
      /\ SnifferFacts!Tidy(d, now) /\ SnifferFacts!Holds(d) \subseteq Q
  BY <1>0 DEF Within
<1>2. CASE a.type = "ip"
  <2>1. RecordAnswer(p, a, x) = <<ip, d>>
    BY <1>0, <1>2 DEF RecordAnswer
  <2>2. SnifferFacts!Tidy(ip, now) /\ SnifferFacts!Holds(ip) \subseteq SnifferFacts!Holds(c) \cup {<<a.ip, q>>}
    BY <1>1, SnifferCaches
  <2>3. <<a.ip, q>> \in P
    BY <1>2 DEF IpsOf
  <2> HIDE DEF ip, q
  <2>4. Within(<<ip, d>>, P, Q)
    BY <1>1, <2>2, <2>3 DEF Within
  <2> QED
    BY <2>1, <2>4 DEF Tables
<1>3. CASE a.type = "cname"
  <2>1. RecordAnswer(p, a, x) = <<c, alias>>
    BY <1>0, <1>3 DEF RecordAnswer
  <2>2. /\ SnifferFacts!Tidy(alias, now)
        /\ SnifferFacts!Holds(alias) \subseteq SnifferFacts!Holds(d) \cup {<<a.name, q>>}
    BY <1>1, SnifferCaches
  <2>3. <<a.name, q>> \in Q
    BY <1>3 DEF AliasesOf
  <2> HIDE DEF alias, q
  <2>4. Within(<<c, alias>>, P, Q)
    BY <1>1, <2>2, <2>3 DEF Within
  <2> QED
    BY <2>1, <2>4 DEF Tables
<1>4. CASE a.type # "ip" /\ a.type # "cname"
  BY <1>4 DEF RecordAnswer, Tables
<1> QED
  BY <1>2, <1>3, <1>4

LEMMA AllRecorded ==
    ASSUME NEW p, NEW answers, Len(answers) \in Nat, now \in Int, NEW P, NEW Q,
           Within(<<records, cname_map>>, P, Q),
           IpsOf(p, answers) \subseteq P, AliasesOf(p, answers) \subseteq Q
    PROVE  Within(RecordAll(p, answers), P, Q)
<1> DEFINE N == Len(answers)
           Caches(R) == SnifferFacts!Cache({y[1] : y \in R}, {y[2] : y \in R})
           A == {x \in Caches(P) \X Caches(Q) : Within(x, P, Q)}
           first == <<records, cname_map>>
           step(i, x) == RecordAnswer(p, answers[i], x)
           g == [y \in (1..N) \X A |-> step(y[1], y[2])]
           Def(f) == f = [i \in 0..N |-> IF i = 0 THEN first ELSE step(i, f[i - 1])]
           w == CHOOSE f : Def(f)
<1>1. \A c, d : Within(<<c, d>>, P, Q) => <<c, d>> \in A
  <2>1. ASSUME NEW c, SnifferFacts!Tidy(c, now), NEW R, SnifferFacts!Holds(c) \subseteq R
        PROVE  c \in Caches(R)
    <3> DEFINE K == {y[1] : y \in R}
               V == {y[2] : y \in R}
    <3>1. SnifferFacts!Holds(c) \subseteq K \X V
      BY <2>1 DEF SnifferFacts!Holds
    <3> HIDE DEF K, V
    <3>2. SnifferFacts!CacheOK(c, K, V, now)
      BY <2>1, <3>1, SnifferFacts!HeldTypes
    <3>3. c \in SnifferFacts!Cache(K, V)
      BY <3>2 DEF SnifferFacts!CacheOK
    <3> QED
      BY <3>3 DEF K, V
  <2>2. \A c, d : Within(<<c, d>>, P, Q) => c \in Caches(P) /\ d \in Caches(Q)
    <3> HIDE DEF Caches
    <3> QED
      BY <2>1 DEF Within
  <2> HIDE DEF Caches
  <2> QED
    BY <2>2
<1>2. \A x \in A, i \in 1..N : step(i, x) \in A
  <2> SUFFICES ASSUME NEW x \in A, NEW i \in 1..N PROVE step(i, x) \in A
    OBVIOUS
  <2>1. Tables(x, P, Q)
    <3> HIDE DEF Caches
    <3> QED
      BY DEF Tables
  <2>2. i \in 1..Len(answers)
    OBVIOUS
  <2>3. Tables(step(i, x), P, Q)
    <3> HIDE DEF A, g, Caches
    <3> QED
      BY <2>1, <2>2, OneRecorded
  <2> HIDE DEF A, step
  <2> QED
    BY <2>3, <1>1 DEF Tables
<1>3. first \in A
  <2> HIDE DEF A
  <2> QED
    BY <1>1
<1>4. g \in [(1..N) \X A -> A]
  <2> HIDE DEF A, step
  <2> QED
    BY <1>2
<1>5. PICK f : IteratesFrom(f, N, A, first, g)
  <2> HIDE DEF g, A, first, N
  <2>1. N \in Nat
    BY DEF N
  <2> QED
    BY <1>3, <1>4, <2>1, FiniteRecursion
<1>6. Def(f)
  <2> HIDE DEF A, step, first
  <2>1. \A i \in 1..N : i - 1 \in 0..N /\ f[i - 1] \in A
    BY <1>5 DEF IteratesFrom
  <2>2. \A i \in 1..N : f[i] = step(i, f[i - 1])
    BY <2>1, <1>5 DEF IteratesFrom
  <2> QED
    BY <1>5, <2>2 DEF IteratesFrom
<1>7. Def(w)
  <2> HIDE DEF Def
  <2> QED
    BY <1>6
<1>8. RecordAll(p, answers) = w[N]
  BY DEF RecordAll
<1>9. w[0] = first /\ \A i \in 1..N : w[i] = step(i, w[i - 1])
  <2> HIDE DEF step, first, w
  <2> QED
    BY <1>7
<1>10. \A i \in 0..N : w[i] \in A
  <2> HIDE DEF w, A, step, first
  <2> DEFINE S == {i \in 0..N : w[i] \notin A}
  <2>1. SUFFICES ASSUME S # {} PROVE FALSE
    OBVIOUS
  <2>2. PICK m \in S : \A i \in S : m <= i
    <3>1. S \in SUBSET Nat
      OBVIOUS
    <3> QED
      BY <2>1, <3>1, SnifferFacts!LeastNumber
  <2>3. m \in 1..N /\ m - 1 \in 0..N /\ m - 1 \notin S
    BY <1>3, <1>9, <2>2
  <2> QED
    BY <1>2, <1>9, <2>2, <2>3
<1>11. w[N] \in A
  <2> HIDE DEF w, A
  <2> QED
    BY <1>10
<1> HIDE DEF w
<1> QED
  BY <1>8, <1>11

-----------------------------------------------------------------------------
(* The inductive invariant.                                                *)

\* A request has its fields.
IsReq(q) ==
    q \in [pc : {q.pc}, kind : {q.kind}, src : {q.src}, asked : {q.asked}, addr : {q.addr},
           destDomain : {q.destDomain}, destSock : {q.destSock}, rule : {q.rule}, plan : {q.plan},
           try : {q.try}, out : {q.out}, udp : {q.udp}, again : {q.again}, to : {q.to}, sent : {q.sent}]

\* The context of a TCP request: RunningServerNet noted what the client asked
\* for, and either that is still the address or the sniffer has put a name in
\* the place of an IP address, in the context too.
AsAsked(q) ==
    /\ q.addr = q.asked
    /\ q.destDomain = IF q.asked.type = "domain" THEN DomainToText(q.asked.domain, q.asked.port) ELSE <<>>
Renamed(q) ==
    /\ q.asked.type = "sock" /\ q.addr = Domain(q.addr.domain, q.addr.port)
    /\ IsSequence(q.addr.domain)
    /\ q.destDomain = DomainToText(q.addr.domain, q.addr.port)
TcpContext(q) ==
    /\ q.kind = "tcp" /\ q.asked \in Asked
    /\ q.destSock = IF q.asked.type = "sock" THEN q.asked ELSE NoAddr
    /\ AsAsked(q) \/ (Renamed(q) /\ LeadsTo(q.asked.ip, q.addr.domain))
UdpContext(q) == q.kind = "udp" /\ q.destDomain = <<>> /\ q.destSock = NoAddr
UdpAsked(q) == UdpContext(q) /\ q.addr = q.asked /\ q.asked \in Asked

FirstRule(mc, i) == Matching(mc) # {} /\ i = Least(Matching(mc))
Decided(q) == FirstRule(from_context_address(q), q.rule)

\* What is known of a request at each of its steps.
Stage(q) ==
    \/ q.pc = "new" /\ q = NewReq
    \/ q.pc = "sniffer" /\ TcpContext(q) /\ q.addr = q.asked /\ q.out = None
    \/ q.pc = "rule" /\ TcpContext(q) /\ q.out \in {None, "missed"}
    \/ q.pc \in {"resolve", "dial"} /\ TcpContext(q) /\ q.out = None /\ Decided(q)
    \/ q.pc = "udp" /\ UdpContext(q) /\ q.out = None
    \/ q.pc = "udprule" /\ UdpAsked(q) /\ q.out \in {None, "missed"}
    \/ q.pc = "udpbind" /\ UdpAsked(q) /\ q.out = None /\ Decided(q)
    \/ q.pc = "end" /\ q.kind = None /\ q.out # "NotMatched"
    \/ /\ q.pc = "end" /\ q.out = "NotMatched" /\ (TcpContext(q) \/ UdpAsked(q))
       /\ Matching(from_context_address(q)) = {}

Typed ==
    /\ now \in Nat
    /\ rule \in RuleLists
    /\ seen \subseteq Packets
    /\ req = [r \in Requests |-> req[r]]
    /\ \A r \in Requests : IsReq(req[r])

\* The caches are in order, the sniffer's hold what was answered, and the rule
\* net's the first rule for each context.
SnifferHolds ==
    /\ SnifferFacts!Tidy(records, now) /\ SnifferFacts!Tidy(cname_map, now)
    /\ \A p \in seen : Len(p.queries) = 1
    /\ \A x \in SnifferFacts!Holds(records) : AnsweredWith(x[1], x[2])
    /\ \A x \in SnifferFacts!Holds(cname_map) : AliasedTo(x[1], x[2])
RulesHold ==
    /\ RuleFacts!Tidy(cache, 0)
    /\ \A x \in RuleFacts!Holds(cache) : FirstRule(x[1], x[2])

Stages == \A r \in Requests : Stage(req[r])

IInv == Typed /\ SnifferHolds /\ RulesHold /\ Stages

-----------------------------------------------------------------------------
(* The rules and the context.                                              *)

LEMMA SequenceFacts ==
    ASSUME NEW s, IsSequence(s)
    PROVE  Len(s) \in Nat /\ DOMAIN s = 1..Len(s)
BY DEF IsSequence

\* The name comes back from its form in the context.
LEMMA TextBack ==
    ASSUME NEW d, NEW p, IsSequence(d)
    PROVE  DomainToText(d, p) # <<>> /\ DomainFromText(DomainToText(d, p)) = Domain(d, p)
<1> DEFINE S == Range(d) \cup {":", p}
           t == d \o <<":", p>>
<1>1. d \in Seq(S) /\ <<":", p>> \in Seq(S)
  BY DEF IsSequence
<1> HIDE DEF S
<1>2. t \in Seq(S) /\ Len(t) = Len(d) + 2 /\ Len(d) \in Nat
  BY <1>1
<1>3. t[Len(t)] = p
  BY <1>1, <1>2
<1>4. SubSeq(t, 1, Len(t) - 2) = d
  BY <1>1, <1>2
<1>5. DomainToText(d, p) = t
  BY DEF DomainToText
<1> HIDE DEF t
<1>6. t # <<>>
  BY <1>2
<1>7. Last(t) = p /\ HostPart(t) = d
  BY <1>3, <1>4 DEF HostPart, Last
<1> QED
  BY <1>5, <1>6, <1>7 DEF DomainFromText

LEMMA AskedForms ==
    ASSUME NEW a \in Asked
    PROVE  \/ a.type = "sock" /\ a = Sock(a.ip, a.port)
           \/ a.type = "domain" /\ a = Domain(a.domain, a.port) /\ IsSequence(a.domain)
BY NetAssumption

\* to_normalized leaves an address alone or makes an IP address of a name.
LEMMA Normalized ==
    ASSUME NEW a
    PROVE  /\ a.type = "sock" => to_normalized(a) = a
           /\ a.type = "domain" /\ a = Domain(a.domain, a.port) =>
                to_normalized(a) = a \/ to_normalized(a).type = "sock"
<1>1. CASE a.type = "domain" /\ a = Domain(a.domain, a.port)
  <2>1. to_normalized(a) = host_to_address(a.domain, a.port)
    BY <1>1 DEF to_normalized
  <2>2. \/ host_to_address(a.domain, a.port) = Domain(a.domain, a.port)
        \/ host_to_address(a.domain, a.port).type = "sock"
    BY DEF host_to_address, Sock
  <2> QED
    BY <1>1, <2>1, <2>2
<1>2. CASE a.type = "sock"
  BY <1>2 DEF to_normalized
<1> QED
  BY <1>1, <1>2

\* What the matchers find in the context is what the request has to go by.
LEMMA ContextSays ==
    ASSUME NEW q, TcpContext(q) \/ UdpAsked(q)
    PROVE  /\ get_domain(from_context_address(q)) = DomainOf(q)
           /\ get_socket_addr(from_context_address(q)) = IpOf(q)
           /\ from_context_address(q).src = q.src
           /\ DomainOf(q) = NoAddr \/ DomainOf(q).type = "domain"
           /\ IpOf(q) = NoAddr \/ IpOf(q).type = "sock"
<1> DEFINE mc == from_context_address(q)
           n == to_normalized(q.addr)
           Says == /\ get_domain(mc) = DomainOf(q) /\ get_socket_addr(mc) = IpOf(q) /\ mc.src = q.src
                   /\ DomainOf(q) = NoAddr \/ DomainOf(q).type = "domain"
                   /\ IpOf(q) = NoAddr \/ IpOf(q).type = "sock"
<1> SUFFICES Says
  OBVIOUS
<1>1. /\ mc.address = n /\ mc.src = q.src /\ mc.destSock = q.destSock
      /\ mc.destDomain = IF q.destDomain = <<>> THEN NoAddr ELSE DomainFromText(q.destDomain)
  BY DEF from_context_address
<1>2. NoAddr.type = "none"
  BY DEF NoAddr
<1>3. CASE UdpAsked(q)
  <2>1. /\ q.kind = "udp" /\ mc.destDomain = NoAddr /\ mc.destSock = NoAddr
        /\ q.addr \in Asked
    BY <1>1, <1>3 DEF UdpAsked, UdpContext
  <2>2. n = q.addr \/ n.type = "sock"
    BY <2>1, AskedForms, Normalized
  <2>3. q.addr.type \in {"sock", "domain"}
    BY <2>1, AskedForms
  <2> HIDE DEF mc
  <2> QED
    BY <1>1, <1>2, <2>1, <2>2, <2>3 DEF get_domain, get_socket_addr, DomainOf, IpOf
<1>4. CASE TcpContext(q)
  <2>1. /\ q.kind = "tcp" /\ q.asked \in Asked
        /\ mc.destSock = IF q.asked.type = "sock" THEN q.asked ELSE NoAddr
        /\ AsAsked(q) \/ Renamed(q)
    BY <1>1, <1>4 DEF TcpContext
  <2>2. \/ q.addr.type = "sock" /\ q.addr = q.asked /\ mc.destDomain = NoAddr
        \/ q.addr.type = "domain" /\ mc.destDomain = q.addr /\ q.addr = Domain(q.addr.domain, q.addr.port)
    <3>1. CASE AsAsked(q) /\ q.asked.type = "sock"
      BY <1>1, <3>1 DEF AsAsked
    <3>2. CASE AsAsked(q) /\ q.asked.type = "domain"
      <4>1. IsSequence(q.addr.domain) /\ q.addr = Domain(q.addr.domain, q.addr.port)
        BY <2>1, <3>2, AskedForms DEF AsAsked
      <4>2. q.destDomain = DomainToText(q.addr.domain, q.addr.port)
        BY <3>2 DEF AsAsked
      <4>3. mc.destDomain = Domain(q.addr.domain, q.addr.port)
        BY <1>1, <4>1, <4>2, TextBack
      <4> QED
        BY <3>2, <4>1, <4>3 DEF AsAsked
    <3>3. CASE Renamed(q)
      <4>1. mc.destDomain = Domain(q.addr.domain, q.addr.port)
        BY <1>1, <3>3, TextBack DEF Renamed
      <4>2. q.addr = Domain(q.addr.domain, q.addr.port)
        BY <3>3 DEF Renamed
      <4>3. q.addr.type = "domain"
        BY <4>2 DEF Domain
      <4> QED
        BY <4>1, <4>2, <4>3
    <3> QED
      BY <2>1, <3>1, <3>2, <3>3, AskedForms
  <2>3. n = q.addr \/ n.type = "sock"
    BY <2>2, Normalized
  <2> HIDE DEF mc
  <2> QED
    BY <1>1, <1>2, <2>1, <2>2, <2>3 DEF get_domain, get_socket_addr, DomainOf, IpOf
<1> QED
  BY <1>3, <1>4

LEMMA AppliesIsMatch ==
    ASSUME NEW q, TcpContext(q) \/ UdpAsked(q), NEW m, m.type \in RuleTypes
    PROVE  match_rule(m, from_context_address(q)) <=> Applies(m, q)
<1> DEFINE mc == from_context_address(q)
           mr == [address |-> IF DomainOf(q) # NoAddr THEN DomainOf(q) ELSE IpOf(q),
                  src |-> q.src, destSock |-> IpOf(q), destDomain |-> DomainOf(q)]
<1>1. /\ get_domain(mc) = DomainOf(q) /\ get_socket_addr(mc) = IpOf(q) /\ mc.src = q.src
      /\ DomainOf(q) = NoAddr \/ DomainOf(q).type = "domain"
      /\ IpOf(q) = NoAddr \/ IpOf(q).type = "sock"
  BY ContextSays
<1>2. get_domain(mr) = DomainOf(q) /\ get_socket_addr(mr) = IpOf(q) /\ mr.src = q.src
  BY <1>1 DEF get_domain, get_socket_addr, NoAddr
<1> HIDE DEF mc, mr
<1>3. /\ DomainMatches(m, mc) <=> DomainMatches(m, mr)
      /\ IpCidrMatches(m, mc) <=> IpCidrMatches(m, mr)
      /\ SrcIpCidrMatches(m, mc) <=> SrcIpCidrMatches(m, mr)
      /\ GeoIpMatches(m, mc) <=> GeoIpMatches(m, mr)
  BY <1>1, <1>2 DEF DomainMatches, IpCidrMatches, SrcIpCidrMatches, GeoIpMatches
<1>4. match_rule(m, mc) <=> match_rule(m, mr)
  BY <1>3 DEF match_rule, RuleTypes
<1> QED
  BY <1>4 DEF Applies, mc, mr

\* Least picks the first.
LEMMA LeastIsFirst ==
    ASSUME rule \in RuleLists, NEW mc, NEW i, FirstRule(mc, i)
    PROVE  /\ i \in DOMAIN rule /\ match_rule(rule[i], mc)
           /\ \A j \in 1..(i - 1) : j \in DOMAIN rule /\ ~match_rule(rule[j], mc)
<1>1. DOMAIN rule = 1..Len(rule) /\ Len(rule) \in Nat
  BY NetAssumption, SequenceFacts
<1>2. Matching(mc) \in SUBSET Nat /\ Matching(mc) # {}
  BY <1>1 DEF FirstRule, Matching
<1>3. \E k \in Matching(mc) : \A j \in Matching(mc) : k <= j
  BY <1>2, SnifferFacts!LeastNumber
<1>4. i \in Matching(mc) /\ \A j \in Matching(mc) : i <= j
  BY <1>3 DEF FirstRule, Least
<1>5. i \in DOMAIN rule /\ match_rule(rule[i], mc)
  BY <1>4 DEF Matching
<1>6. ASSUME NEW j \in 1..(i - 1) PROVE j \in DOMAIN rule /\ ~match_rule(rule[j], mc)
  <2>1. j \in DOMAIN rule /\ j < i
    BY <1>1, <1>5
  <2>2. j \notin Matching(mc)
    BY <1>1, <1>4, <1>5, <2>1
  <2> QED
    BY <2>1, <2>2 DEF Matching
<1> QED
  BY <1>5, <1>6

-----------------------------------------------------------------------------
(* What steps leave as it is.                                              *)

\* The rules do not change and the answers seen only become more.
LEMMA Kept ==
    ASSUME NEW q, Stage(q), rule' = rule, seen \subseteq seen'
    PROVE  Stage(q)'
<1>1. \A mc : Matching(mc)' = Matching(mc)
  BY DEF Matching
<1>2. \A mc, i : FirstRule(mc, i) => FirstRule(mc, i)'
  BY <1>1 DEF FirstRule
<1>3. ASSUME NEW ip, NEW name, LeadsTo(ip, name) PROVE LeadsTo(ip, name)'
  <2> DEFINE V == {p.queries[1] : p \in seen}
             W == {p.queries[1] : p \in seen'}
  <2>1. PICK chain \in [0..CnameLimit -> V] :
          /\ AnsweredWith(ip, chain[0])
          /\ \A n \in 1..CnameLimit : chain[n] = chain[n - 1] \/ AliasedTo(chain[n - 1], chain[n])
          /\ chain[CnameLimit] = name
    BY <1>3 DEF LeadsTo
  <2>2. V \subseteq W
    OBVIOUS
  <2>3. chain \in [0..CnameLimit -> W]
    <3> HIDE DEF V, W
    <3> QED
      BY <2>1, <2>2
  <2>4. \A x, y : AnsweredWith(x, y) => AnsweredWith(x, y)'
    BY DEF AnsweredWith
  <2>5. \A x, y : AliasedTo(x, y) => AliasedTo(x, y)'
    BY DEF AliasedTo
  <2> QED
    BY <2>1, <2>3, <2>4, <2>5 DEF LeadsTo
<1>4. TcpContext(q) => TcpContext(q)'
  BY <1>3 DEF TcpContext, AsAsked, Renamed
<1>5. /\ UdpContext(q) => UdpContext(q)'
      /\ UdpAsked(q) => UdpAsked(q)'
  BY DEF UdpContext, UdpAsked
<1>6. Decided(q) => Decided(q)'
  BY <1>2 DEF Decided
<1>7. Matching(from_context_address(q)) = {} => Matching(from_context_address(q))' = {}
  BY <1>1
<1> QED
  BY <1>4, <1>5, <1>6, <1>7 DEF Stage

LEMMA ReqStep ==
    ASSUME Typed, Stages, NEW r \in Requests, NEW n, Set(r, n), IsReq(n), Stage(n),
           UNCHANGED <<now, rule, seen>>
    PROVE  Typed' /\ Stages'
<1>1. req = [s \in Requests |-> req[s]] /\ req' = [req EXCEPT ![r] = n]
  BY DEF Typed, Set
<1>2. /\ req' = [s \in Requests |-> req'[s]]
      /\ \A s \in Requests : req'[s] = n \/ req'[s] = req[s]
  BY <1>1
<1>3. \A s \in Requests : IsReq(req'[s])
  BY <1>2 DEF Typed
<1>4. Typed'
  BY <1>2, <1>3 DEF Typed
<1>5. \A s \in Requests : Stage(req[s])'
  <2> SUFFICES ASSUME NEW s \in Requests PROVE Stage(req[s])'
    OBVIOUS
  <2> DEFINE k == req'[s]
  <2>1. Stage(k)
    BY <1>2 DEF Stages
  <2> HIDE DEF k
  <2>2. \A x : Stage(x) => Stage(x)'
    BY Kept
  <2> QED
    BY <2>1, <2>2 DEF k
<1> QED
  BY <1>4, <1>5 DEF Stages

LEMMA SnifferKept ==
    ASSUME SnifferHolds, UNCHANGED <<records, cname_map, now, seen>>
    PROVE  SnifferHolds'
BY DEF SnifferHolds, AnsweredWith, AliasedTo

LEMMA RulesKept ==
    ASSUME RulesHold, rule' = rule, cache' = cache
    PROVE  RulesHold'
<1>1. \A mc, i : FirstRule(mc, i) => FirstRule(mc, i)'
  BY DEF FirstRule, Matching
<1> QED
  BY <1>1 DEF RulesHold

\* A step of a request that touches no cache.
LEMMA QuietStep ==
    ASSUME IInv, NEW r \in Requests, NEW n, Set(r, n), IsReq(n), Stage(n),
           UNCHANGED <<records, cname_map, rule, cache, now, seen>>
    PROVE  IInv'
<1>1. Typed' /\ Stages'
  BY ReqStep DEF IInv
<1>2. SnifferHolds'
  BY SnifferKept DEF IInv
<1>3. RulesHold'
  BY RulesKept DEF IInv
<1> QED
  BY <1>1, <1>2, <1>3 DEF IInv

\* What the stages depend on.
LEMMA SameContext ==
    ASSUME NEW q, NEW n, n.kind = q.kind, n.src = q.src, n.asked = q.asked, n.addr = q.addr,
           n.destDomain = q.destDomain, n.destSock = q.destSock
    PROVE  /\ from_context_address(n) = from_context_address(q)
           /\ TcpContext(q) => TcpContext(n)
           /\ UdpAsked(q) => UdpAsked(n)
           /\ UdpContext(q) => UdpContext(n)
           /\ Decided(q) /\ n.rule = q.rule => Decided(n)
<1>1. from_context_address(n) = from_context_address(q)
  BY DEF from_context_address
<1>2. TcpContext(q) => TcpContext(n)
  BY DEF TcpContext, AsAsked, Renamed
<1>3. (UdpAsked(q) => UdpAsked(n)) /\ (UdpContext(q) => UdpContext(n))
  BY DEF UdpAsked, UdpContext
<1> QED
  BY <1>1, <1>2, <1>3 DEF Decided

LEMMA EndStage ==
    ASSUME NEW out, out # "NotMatched"
    PROVE  IsReq(End(out)) /\ Stage(End(out)) /\ End(out).pc = "end" /\ End(out).kind = None
<1>1. IsReq(NewReq) /\ NewReq.kind = None
  BY DEF IsReq, NewReq
<1> DEFINE q == NewReq
<1> HIDE DEF q
<1>2. IsReq(q) /\ q.kind = None
  BY <1>1 DEF q
<1> DEFINE n == [q EXCEPT !.pc = "end", !.out = out]
<1>3. IsReq(n) /\ n.pc = "end" /\ n.kind = None /\ n.out = out
  BY <1>2 DEF IsReq
<1>4. End(out) = n
  BY DEF End, q
<1> HIDE DEF n
<1> QED
  BY <1>3, <1>4 DEF Stage

-----------------------------------------------------------------------------
(* The steps of a request.                                                 *)

LEMMA StageFacts ==
    ASSUME IInv, NEW r \in Requests
    PROVE  LET q == req[r] IN
           /\ IsReq(q) /\ Stage(q)
           /\ q.pc = "new" => q = NewReq
           /\ q.pc = "sniffer" => TcpContext(q) /\ q.addr = q.asked /\ q.out = None
           /\ q.pc = "rule" => TcpContext(q) /\ q.out \in {None, "missed"}
           /\ q.pc \in {"resolve", "dial"} => TcpContext(q) /\ q.out = None /\ Decided(q)
           /\ q.pc = "udp" => UdpContext(q) /\ q.out = None
           /\ q.pc = "udprule" => UdpAsked(q) /\ q.out \in {None, "missed"}
           /\ q.pc = "udpbind" => UdpAsked(q) /\ q.out = None /\ Decided(q)
<1>1. IsReq(req[r]) /\ Stage(req[r])
  BY DEF IInv, Typed, Stages
<1> QED
  BY <1>1 DEF Stage

LEMMA NewFields ==
    /\ NewReq.destDomain = <<>> /\ NewReq.destSock = NoAddr /\ NewReq.out = None
BY DEF NewReq

LEMMA ConnectStep ==
    ASSUME IInv, NEW r \in Requests, Connect(r)
    PROVE  IInv'
<1> DEFINE q == req[r]
<1>1. PICK src \in Sources, a \in Asked :
        Set(r, [q EXCEPT
                  !.pc = "sniffer", !.kind = "tcp", !.src = src, !.asked = a, !.addr = a,
                  !.destDomain = IF a.type = "domain" THEN DomainToText(a.domain, a.port) ELSE @,
                  !.destSock = IF a.type = "sock" THEN a ELSE @])
  BY DEF Connect
<1>2. q.pc = "new" /\ UNCHANGED <<records, cname_map, rule, cache, now, seen>>
  BY DEF Connect
<1>3. IsReq(q) /\ q = NewReq
  BY <1>2, StageFacts
<1>4. q.destDomain = <<>> /\ q.destSock = NoAddr /\ q.out = None
  BY <1>3, NewFields
<1> DEFINE n == [q EXCEPT
                  !.pc = "sniffer", !.kind = "tcp", !.src = src, !.asked = a, !.addr = a,
                  !.destDomain = IF a.type = "domain" THEN DomainToText(a.domain, a.port) ELSE @,
                  !.destSock = IF a.type = "sock" THEN a ELSE @]
<1> HIDE DEF q
<1>5. /\ IsReq(n) /\ n.pc = "sniffer" /\ n.kind = "tcp" /\ n.asked = a /\ n.addr = a
      /\ n.destDomain = (IF a.type = "domain" THEN DomainToText(a.domain, a.port) ELSE q.destDomain)
      /\ n.destSock = (IF a.type = "sock" THEN a ELSE q.destSock)
      /\ n.out = q.out
  BY <1>3 DEF IsReq
<1>6. Set(r, n)
  BY <1>1
<1> HIDE DEF n
<1>7. TcpContext(n)
  BY <1>4, <1>5 DEF TcpContext, AsAsked
<1>8. Stage(n)
  BY <1>4, <1>5, <1>7 DEF Stage
<1> QED
  BY <1>2, <1>5, <1>6, <1>8, QuietStep

LEMMA BindUdpStep ==
    ASSUME IInv, NEW r \in Requests, BindUdp(r)
    PROVE  IInv'
<1> DEFINE q == req[r]
<1>1. PICK src \in Sources \cup {None} : Set(r, [q EXCEPT !.pc = "udp", !.kind = "udp", !.src = src])
  BY DEF BindUdp
<1>2. q.pc = "new" /\ UNCHANGED <<records, cname_map, rule, cache, now, seen>>
  BY DEF BindUdp
<1>3. IsReq(q) /\ q = NewReq
  BY <1>2, StageFacts
<1>4. q.destDomain = <<>> /\ q.destSock = NoAddr /\ q.out = None
  BY <1>3, NewFields
<1> DEFINE n == [q EXCEPT !.pc = "udp", !.kind = "udp", !.src = src]
<1> HIDE DEF q
<1>5. /\ IsReq(n) /\ n.pc = "udp" /\ n.kind = "udp" /\ n.destDomain = q.destDomain
      /\ n.destSock = q.destSock /\ n.out = q.out
  BY <1>3 DEF IsReq
<1>6. Set(r, n)
  BY <1>1
<1> HIDE DEF n
<1>7. Stage(n)
  BY <1>4, <1>5 DEF Stage, UdpContext
<1> QED
  BY <1>2, <1>5, <1>6, <1>7, QuietStep

\* The name the walk ends at was led to by answers.
LEMMA WalkLeads ==
    ASSUME Typed, SnifferHolds, NEW ip, ip \in Sniff!Keys(Sniff!RemoveExpired(records, now))
    PROVE  LET name == Walk(Sniff!Value(records, ip)) IN LeadsTo(ip, name) /\ IsSequence(name)
<1> DEFINE V == {p.queries[1] : p \in seen}
           start == Sniff!Value(records, ip)
           name == Walk(start)
<1>1. now \in Int /\ SnifferFacts!Tidy(records, now) /\ SnifferFacts!Tidy(cname_map, now)
  BY DEF Typed, SnifferHolds
<1>2. <<ip, Sniff!Value(records, ip)>> \in SnifferFacts!Holds(records)
  BY <1>1, SnifferCaches
<1>3. AnsweredWith(ip, start)
  <2> HIDE DEF start
  <2> QED
    BY <1>2 DEF SnifferHolds, start
<1>4. start \in V
  <2> HIDE DEF start
  <2> QED
    BY <1>3 DEF AnsweredWith
<1>5. ASSUME NEW d, Known(d) PROVE <<d, Sniff!Value(cname_map, d)>> \in SnifferFacts!Holds(cname_map)
  <2>1. d \in Sniff!Keys(Sniff!RemoveExpired(cname_map, now))
    BY <1>5 DEF Known
  <2> QED
    BY <1>1, <2>1, SnifferCaches
<1>6. \A d : Known(d) => AliasedTo(d, Sniff!Value(cname_map, d))
  <2> SUFFICES ASSUME NEW d, Known(d) PROVE AliasedTo(d, Sniff!Value(cname_map, d))
    OBVIOUS
  <2> DEFINE v == Sniff!Value(cname_map, d)
  <2>1. <<d, v>> \in SnifferFacts!Holds(cname_map)
    BY <1>5
  <2> HIDE DEF v
  <2>2. AliasedTo(d, v)
    BY <2>1 DEF SnifferHolds
  <2> QED
    BY <2>2 DEF v
<1>7. \A d \in V : Known(d) => Sniff!Value(cname_map, d) \in V
  BY <1>6 DEF AliasedTo
<1>8. PICK f \in [0..CnameLimit -> V] :
             /\ f[0] = start
             /\ f[CnameLimit] = Walk(start)
             /\ \A n \in 1..CnameLimit :
                  f[n] = f[n - 1] \/ (Known(f[n - 1]) /\ f[n] = Sniff!Value(cname_map, f[n - 1]))
  <2> HIDE DEF V, start
  <2> QED
    BY <1>4, <1>7, WalkPasses
<1>9. LeadsTo(ip, name)
  <2> HIDE DEF start
  <2>1. \A n \in 1..CnameLimit : f[n] = f[n - 1] \/ AliasedTo(f[n - 1], f[n])
    BY <1>6, <1>8
  <2> QED
    BY <1>3, <1>8, <2>1 DEF LeadsTo
<1>10. name \in V
  <2> HIDE DEF start, V
  <2>1. CnameLimit \in 0..CnameLimit
    BY NetAssumption
  <2> QED
    BY <1>8, <2>1
<1>11. ASSUME NEW p \in seen PROVE IsSequence(p.queries[1])
  <2>1. p \in Packets /\ Len(p.queries) = 1
    BY DEF Typed, SnifferHolds
  <2>2. 1 \in DOMAIN p.queries
    BY <2>1, NetAssumption, SequenceFacts
  <2> QED
    BY <2>1, <2>2, NetAssumption
<1>12. IsSequence(name)
  <2> HIDE DEF name
  <2> QED
    BY <1>10, <1>11
<1> QED
  BY <1>9, <1>12

LEMMA RecoverStep ==
    ASSUME IInv, NEW r \in Requests, Recover(r)
    PROVE  IInv'
<1> DEFINE q == req[r]
           a == q.addr
           hit == a.type = "sock" /\ a.ip \in Sniff!Keys(Sniff!RemoveExpired(records, now))
           name == Walk(Sniff!Value(records, a.ip))
           recovered == [q EXCEPT !.pc = "rule", !.addr = Domain(name, a.port),
                                  !.destDomain = DomainToText(name, a.port)]
           left == [q EXCEPT !.pc = "rule"]
           n == IF hit THEN recovered ELSE left
<1>1. /\ q.pc = "sniffer" /\ UNCHANGED <<cname_map, rule, cache, now, seen>>
      /\ records' = IF a.type = "sock" THEN Sniff!Get(records, a.ip, now) ELSE records
      /\ Set(r, n)
  BY DEF Recover
<1>2. IsReq(q) /\ TcpContext(q) /\ q.addr = q.asked /\ q.out = None
  BY <1>1, StageFacts
<1>3. Typed /\ Stages /\ SnifferHolds /\ RulesHold
  BY DEF IInv
<1>4. IsReq(n) /\ Stage(n)
  <2>1. CASE ~hit
    <3> HIDE DEF q
    <3>1. /\ IsReq(left) /\ left.pc = "rule" /\ left.out = q.out /\ left.kind = q.kind /\ left.src = q.src
          /\ left.asked = q.asked /\ left.addr = q.addr /\ left.destDomain = q.destDomain
          /\ left.destSock = q.destSock
      BY <1>2 DEF IsReq
    <3> HIDE DEF left
    <3>2. TcpContext(left)
      BY <1>2, <3>1, SameContext
    <3>3. Stage(left)
      BY <1>2, <3>1, <3>2 DEF Stage
    <3> QED
      BY <2>1, <3>1, <3>3
  <2>2. CASE hit
    <3>1. LeadsTo(a.ip, name) /\ IsSequence(name)
      BY <1>3, <2>2, WalkLeads
    <3>2. a.type = "sock"
      BY <2>2
    <3>3. q.kind = "tcp" /\ q.asked \in Asked /\ q.asked = a /\ q.destSock = a
      BY <1>2, <3>2 DEF TcpContext
    <3> DEFINE d == Domain(name, a.port)
    <3>4. d.domain = name /\ d.port = a.port
      BY DEF Domain
    <3> HIDE DEF q, name, d
    <3>5. /\ IsReq(recovered) /\ recovered.pc = "rule" /\ recovered.out = q.out
          /\ recovered.kind = q.kind /\ recovered.asked = q.asked
          /\ recovered.addr = Domain(name, a.port)
          /\ recovered.destDomain = DomainToText(name, a.port)
          /\ recovered.destSock = q.destSock
      BY <1>2 DEF IsReq
    <3>6. n = recovered
      BY <2>2
    <3> HIDE DEF recovered
    <3>7. Renamed(recovered)
      BY <3>1, <3>2, <3>3, <3>4, <3>5 DEF Renamed, d
    <3>8. LeadsTo(recovered.asked.ip, recovered.addr.domain)
      BY <3>1, <3>3, <3>4, <3>5 DEF d
    <3>9. TcpContext(recovered)
      BY <3>2, <3>3, <3>5, <3>7, <3>8 DEF TcpContext
    <3>10. Stage(recovered)
      BY <1>2, <3>5, <3>9 DEF Stage
    <3> HIDE DEF n
    <3> QED
      BY <3>5, <3>6, <3>10
  <2> QED
    BY <2>1, <2>2
<1>5. Typed' /\ Stages'
  <2> HIDE DEF n
  <2> QED
    BY <1>1, <1>3, <1>4, ReqStep
<1>6. SnifferHolds'
  <2>1. now \in Int /\ SnifferFacts!Tidy(records, now)
    BY <1>3 DEF Typed, SnifferHolds
  <2>2. /\ SnifferFacts!Tidy(Sniff!Get(records, a.ip, now), now)
        /\ SnifferFacts!Holds(Sniff!Get(records, a.ip, now)) \subseteq SnifferFacts!Holds(records)
    BY <2>1, SnifferCaches
  <2>3. SnifferFacts!Tidy(records', now) /\ SnifferFacts!Holds(records') \subseteq SnifferFacts!Holds(records)
    <3> HIDE DEF a, n
    <3> QED
      BY <1>1, <2>1, <2>2
  <2> HIDE DEF n, a, q
  <2> QED
    BY <1>1, <1>3, <2>3 DEF SnifferHolds, AnsweredWith, AliasedTo
<1>7. RulesHold'
  BY <1>1, <1>3, RulesKept
<1> QED
  BY <1>5, <1>6, <1>7 DEF IInv

\* What the rules make of a request.
LEMMA MatchedStage ==
    ASSUME NEW q, IsReq(q), q.pc \in {"rule", "udprule"}, q.out = None, NEW i,
           FirstRule(from_context_address(q), i),
           q.pc = "rule" => TcpContext(q), q.pc = "udprule" => UdpAsked(q)
    PROVE  IsReq(Matched(q, i)) /\ Stage(Matched(q, i))
<1> DEFINE n == [q EXCEPT !.rule = i, !.pc = IF @ = "udprule" THEN "udpbind" ELSE "resolve"]
<1>1. /\ IsReq(n) /\ n.pc = (IF q.pc = "udprule" THEN "udpbind" ELSE "resolve")
      /\ n.out = q.out /\ n.kind = q.kind /\ n.src = q.src /\ n.rule = i
      /\ n.asked = q.asked /\ n.addr = q.addr /\ n.destDomain = q.destDomain
      /\ n.destSock = q.destSock
  BY DEF IsReq
<1>2. Matched(q, i) = n
  BY DEF Matched
<1> HIDE DEF n
<1>3. /\ from_context_address(n) = from_context_address(q)
      /\ TcpContext(q) => TcpContext(n)
      /\ UdpAsked(q) => UdpAsked(n)
  BY <1>1, SameContext
<1>4. Decided(n)
  BY <1>1, <1>3 DEF Decided
<1>5. Stage(n)
  BY <1>1, <1>3, <1>4 DEF Stage
<1> QED
  BY <1>1, <1>2, <1>5

LEMMA HitCacheStep ==
    ASSUME IInv, NEW r \in Requests, HitCache(r)
    PROVE  IInv'
<1> DEFINE q == req[r]
           mc == from_context_address(q)
           v == RuleCache!Value(cache, mc)
           missed == [q EXCEPT !.out = "missed"]
           n == IF mc \in RuleCache!Keys(cache) THEN Matched(q, v) ELSE missed
<1>1. /\ q.pc \in {"rule", "udprule"} /\ q.out # "missed"
      /\ UNCHANGED <<records, cname_map, rule, now, seen>>
      /\ cache' = RuleCache!Get(cache, mc, 0)
      /\ Set(r, n)
  BY DEF HitCache
<1>2. /\ IsReq(q) /\ (q.pc = "rule" => TcpContext(q)) /\ (q.pc = "udprule" => UdpAsked(q)) /\ q.out = None
  BY <1>1, StageFacts
<1>3. Typed /\ Stages /\ SnifferHolds /\ RulesHold
  BY DEF IInv
<1>4. RuleFacts!Tidy(cache, 0)
  BY <1>3 DEF RulesHold
<1>5. IsReq(n) /\ Stage(n)
  <2>1. CASE mc \in RuleCache!Keys(cache)
    <3>1. <<mc, v>> \in RuleFacts!Holds(cache)
      BY <1>4, <2>1, RuleCaches
    <3>2. FirstRule(mc, v)
      <4> HIDE DEF mc, v
      <4> QED
        BY <1>3, <3>1 DEF RulesHold
    <3>3. IsReq(Matched(q, v)) /\ Stage(Matched(q, v))
      <4> HIDE DEF v, q
      <4> QED
        BY <1>1, <1>2, <3>2, MatchedStage
    <3> QED
      BY <2>1, <3>3
  <2>2. CASE mc \notin RuleCache!Keys(cache)
    <3> HIDE DEF q
    <3>1. /\ IsReq(missed) /\ missed.pc = q.pc /\ missed.out = "missed" /\ missed.kind = q.kind
          /\ missed.src = q.src /\ missed.asked = q.asked /\ missed.addr = q.addr
          /\ missed.destDomain = q.destDomain /\ missed.destSock = q.destSock
      BY <1>2 DEF IsReq
    <3> HIDE DEF missed
    <3>2. (TcpContext(q) => TcpContext(missed)) /\ (UdpAsked(q) => UdpAsked(missed))
      BY <3>1, SameContext
    <3>3. Stage(missed)
      BY <1>1, <1>2, <3>1, <3>2 DEF Stage
    <3> QED
      BY <2>2, <3>1, <3>3
  <2> QED
    BY <2>1, <2>2
<1>6. Typed' /\ Stages'
  <2> HIDE DEF n
  <2> QED
    BY <1>1, <1>3, <1>5, ReqStep
<1>7. SnifferHolds'
  BY <1>1, <1>3, SnifferKept
<1>8. RuleFacts!Tidy(cache', 0) /\ RuleFacts!Holds(cache') \subseteq RuleFacts!Holds(cache)
  BY <1>1, <1>4, RuleCaches
<1>9. RulesHold'
  <2> HIDE DEF n, mc
  <2>1. \A x, i : FirstRule(x, i) => FirstRule(x, i)'
    BY <1>1 DEF FirstRule, Matching
  <2> QED
    BY <1>3, <1>8, <2>1 DEF RulesHold
<1> QED
  BY <1>6, <1>7, <1>9 DEF IInv

LEMMA MatchRulesStep ==
    ASSUME IInv, NEW r \in Requests, MatchRules(r)
    PROVE  IInv'
<1> DEFINE p == req[r]
           q == [p EXCEPT !.out = None]
           mc == from_context_address(p)
           i == Least(Matching(mc))
           refused == [q EXCEPT !.pc = "end", !.out = "NotMatched"]
<1>1. /\ p.pc \in {"rule", "udprule"} /\ UNCHANGED <<records, cname_map, rule, now, seen>>
      /\ IF Matching(mc) = {} THEN Set(r, refused) /\ UNCHANGED cache
         ELSE Set(r, Matched(q, i)) /\ cache' = RuleCache!Insert(cache, mc, i, 0)
  BY DEF MatchRules
<1>2. IsReq(p) /\ (p.pc = "rule" => TcpContext(p)) /\ (p.pc = "udprule" => UdpAsked(p))
  BY <1>1, StageFacts
<1>3. Typed /\ Stages /\ SnifferHolds /\ RulesHold
  BY DEF IInv
<1>4. /\ IsReq(q) /\ q.pc = p.pc /\ q.out = None /\ q.kind = p.kind /\ q.src = p.src /\ q.asked = p.asked
      /\ q.addr = p.addr /\ q.destDomain = p.destDomain /\ q.destSock = p.destSock
  <2> HIDE DEF p
  <2> QED
    BY <1>2 DEF IsReq
<1>5. /\ from_context_address(q) = mc
      /\ (TcpContext(p) => TcpContext(q)) /\ (UdpAsked(p) => UdpAsked(q))
  <2> HIDE DEF p, q
  <2> QED
    BY <1>4, SameContext
<1> HIDE DEF p, q, mc
<1>6. CASE Matching(mc) = {}
  <2>1. /\ IsReq(refused) /\ refused.pc = "end" /\ refused.out = "NotMatched" /\ refused.kind = q.kind
        /\ refused.src = q.src /\ refused.asked = q.asked /\ refused.addr = q.addr
        /\ refused.destDomain = q.destDomain /\ refused.destSock = q.destSock
    BY <1>4 DEF IsReq
  <2>2. Set(r, refused) /\ UNCHANGED cache
    BY <1>1, <1>6
  <2> HIDE DEF refused
  <2>3. /\ from_context_address(refused) = mc
        /\ (TcpContext(q) => TcpContext(refused)) /\ (UdpAsked(q) => UdpAsked(refused))
    BY <1>5, <2>1, SameContext
  <2>4. Stage(refused)
    BY <1>1, <1>2, <1>5, <1>6, <2>1, <2>3 DEF Stage
  <2> QED
    BY <1>1, <2>1, <2>2, <2>4, QuietStep
<1>7. CASE Matching(mc) # {}
  <2>1. FirstRule(mc, i)
    BY <1>7 DEF FirstRule
  <2>2. Set(r, Matched(q, i)) /\ cache' = RuleCache!Insert(cache, mc, i, 0)
    BY <1>1, <1>7
  <2> HIDE DEF i
  <2>3. IsReq(Matched(q, i)) /\ Stage(Matched(q, i))
    BY <1>1, <1>2, <1>4, <1>5, <2>1, MatchedStage
  <2>4. Typed' /\ Stages'
    BY <1>1, <1>3, <2>2, <2>3, ReqStep
  <2>5. SnifferHolds'
    BY <1>1, <1>3, SnifferKept
  <2>6. RuleFacts!Tidy(cache, 0)
    BY <1>3 DEF RulesHold
  <2>7. RuleFacts!Tidy(cache', 0) /\ RuleFacts!Holds(cache') \subseteq RuleFacts!Holds(cache) \cup {<<mc, i>>}
    BY <2>2, <2>6, RuleCaches
  <2>8. RulesHold'
    <3>1. \A x, j : FirstRule(x, j) => FirstRule(x, j)'
      BY <1>1 DEF FirstRule, Matching
    <3>2. \A x \in RuleFacts!Holds(cache') : FirstRule(x[1], x[2])
      BY <1>3, <2>1, <2>7 DEF RulesHold
    <3> QED
      BY <2>7, <3>1, <3>2 DEF RulesHold
  <2> QED
    BY <2>4, <2>5, <2>8 DEF IInv
<1> QED
  BY <1>6, <1>7

\* A step within a stage: the context and the rule stay.
LEMMA WithinStage ==
    ASSUME IInv, NEW r \in Requests, NEW n, IsReq(n),
           n.kind = req[r].kind, n.src = req[r].src, n.asked = req[r].asked, n.addr = req[r].addr,
           n.destDomain = req[r].destDomain, n.destSock = req[r].destSock, n.rule = req[r].rule,
           n.out = req[r].out,
           \/ req[r].pc \in {"resolve", "dial"} /\ n.pc \in {"resolve", "dial"}
           \/ req[r].pc \in {"udp", "udpbind"} /\ n.pc = "udp"
    PROVE  Stage(n)
<1> DEFINE q == req[r]
<1>1. /\ q.pc \in {"resolve", "dial"} => TcpContext(q) /\ q.out = None /\ Decided(q)
      /\ q.pc \in {"udp", "udpbind"} => UdpContext(q) /\ q.out = None
  BY StageFacts DEF UdpAsked
<1>2. /\ TcpContext(q) => TcpContext(n)
      /\ UdpContext(q) => UdpContext(n)
      /\ Decided(q) => Decided(n)
  BY SameContext
<1> HIDE DEF q
<1> QED
  BY <1>1, <1>2 DEF Stage, q

LEMMA TargetStep ==
    ASSUME IInv, NEW r \in Requests, ToTarget(r)
    PROVE  IInv'
<1>1. CASE Blackhole(r)
  BY <1>1, EndStage, QuietStep DEF Blackhole
<1>2. CASE NotProvided(r)
  BY <1>2, EndStage, QuietStep DEF NotProvided
<1>3. CASE Resolve(r)
  <2> DEFINE q == req[r]
             n == [q EXCEPT !.pc = "dial", !.plan = Plan(r), !.try = [i \in DOMAIN Plan(r) |-> "sleep"]]
  <2>1. /\ q.pc = "resolve" /\ UNCHANGED <<records, cname_map, rule, cache, now, seen>>
        /\ Set(r, n) \/ Set(r, End("LookupFailed"))
    BY <1>3 DEF Resolve
  <2>2. CASE Set(r, n)
    <3>1. IsReq(q)
      BY StageFacts
    <3> DEFINE sleep == [i \in DOMAIN Plan(r) |-> "sleep"]
    <3>2. /\ IsReq(n) /\ n.pc = "dial" /\ n.kind = q.kind /\ n.src = q.src /\ n.asked = q.asked
          /\ n.addr = q.addr /\ n.destDomain = q.destDomain /\ n.destSock = q.destSock
          /\ n.rule = q.rule /\ n.out = q.out
      <4> HIDE DEF q, sleep
      <4> QED
        BY <3>1 DEF IsReq
    <3> HIDE DEF n
    <3>3. Stage(n)
      BY <2>1, <3>2, WithinStage
    <3> QED
      BY <2>1, <2>2, <3>2, <3>3, QuietStep
  <2>3. CASE Set(r, End("LookupFailed"))
    BY <2>1, <2>3, EndStage, QuietStep
  <2> QED
    BY <2>1, <2>2, <2>3
<1> QED
  BY <1>1, <1>2, <1>3 DEF ToTarget

\* An attempt changes its state.
LEMMA TryStage ==
    ASSUME IInv, NEW r \in Requests, req[r].pc = "dial", NEW i, NEW x
    PROVE  LET n == [req[r] EXCEPT !.try[i] = x] IN
           IsReq(n) /\ Stage(n) /\ n.addr = req[r].addr
<1> DEFINE q == req[r]
           t == [q.try EXCEPT ![i] = x]
           m == [q EXCEPT !.try = t]
           n == [q EXCEPT !.try[i] = x]
<1>1. IsReq(q)
  BY StageFacts
<1>2. n = m
  OBVIOUS
<1>3. /\ IsReq(m) /\ m.pc = q.pc /\ m.kind = q.kind /\ m.src = q.src /\ m.asked = q.asked
      /\ m.addr = q.addr /\ m.destDomain = q.destDomain /\ m.destSock = q.destSock
      /\ m.rule = q.rule /\ m.out = q.out
  <2> HIDE DEF q, t
  <2> QED
    BY <1>1 DEF IsReq
<1> HIDE DEF m
<1>4. Stage(m)
  BY <1>3, WithinStage
<1> QED
  BY <1>2, <1>3, <1>4

LEMMA AttemptedStage ==
    ASSUME IInv, NEW r \in Requests, req[r].pc = "dial", NEW i, NEW ok
    PROVE  IsReq(Attempted(r, i, ok)) /\ Stage(Attempted(r, i, ok))
<1> DEFINE q == [req[r] EXCEPT !.try[i] = "failed"]
           e == End("connected")
           a == q.addr
           to == q.plan[i]
           n == [e EXCEPT !.addr = a, !.to = to]
<1>1. IsReq(q) /\ Stage(q)
  BY TryStage
<1>2. IsReq(e) /\ e.pc = "end" /\ e.kind = None /\ e.out = "connected"
  <2>1. e.out = "connected"
    BY DEF End, NewReq
  <2> QED
    BY <2>1, EndStage
<1> HIDE DEF e, q, a, to
<1>3. IsReq(n) /\ n.pc = "end" /\ n.kind = None /\ n.out = "connected"
  BY <1>2 DEF IsReq
<1> HIDE DEF n
<1>4. IsReq(n) /\ Stage(n)
  BY <1>3 DEF Stage
<1>5. IsReq(End("error")) /\ Stage(End("error"))
  BY EndStage
<1>6. Attempted(r, i, ok) \in {n, End("error"), q}
  BY DEF Attempted, n, e, q, a, to
<1> QED
  BY <1>1, <1>4, <1>5, <1>6

LEMMA DialStep ==
    ASSUME IInv, NEW r \in Requests, Dial(r) \/ TimedOut(r)
    PROVE  IInv'
<1>1. req[r].pc = "dial" /\ UNCHANGED <<records, cname_map, rule, cache, now, seen>>
  BY DEF Dial, TimedOut, StartAttempt, Answered
<1>2. \/ \E i : Set(r, [req[r] EXCEPT !.try[i] = "connecting"])
      \/ \E i, ok : Set(r, Attempted(r, i, ok))
  BY DEF Dial, TimedOut, StartAttempt, Answered
<1>3. CASE \E i : Set(r, [req[r] EXCEPT !.try[i] = "connecting"])
  <2>1. PICK i : Set(r, [req[r] EXCEPT !.try[i] = "connecting"])
    BY <1>3
  <2> DEFINE n == [req[r] EXCEPT !.try[i] = "connecting"]
  <2>2. IsReq(n) /\ Stage(n)
    BY <1>1, TryStage
  <2> HIDE DEF n
  <2>3. Set(r, n)
    BY <2>1 DEF n
  <2> QED
    BY <1>1, <2>2, <2>3, QuietStep
<1>4. CASE \E i, ok : Set(r, Attempted(r, i, ok))
  BY <1>1, <1>4, AttemptedStage, QuietStep
<1> QED
  BY <1>2, <1>3, <1>4

-----------------------------------------------------------------------------
(* UDP.                                                                    *)

LEMMA UdpStageStep ==
    ASSUME IInv, NEW r \in Requests, UdpStep(r)
    PROVE  IInv'
<1> DEFINE q == req[r]
<1>0. IsReq(q)
  BY StageFacts
<1>1. CASE SendTo(r)
  <2>1. PICK a \in Asked :
          Set(r, [q EXCEPT !.addr = a, !.asked = a,
                           !.pc = IF q.udp = "unbound" THEN "udprule" ELSE "udp"])
    BY <1>1 DEF SendTo
  <2>2. q.pc = "udp" /\ UNCHANGED <<records, cname_map, rule, cache, now, seen>>
    BY <1>1 DEF SendTo, UdpUnchanged
  <2>3. UdpContext(q) /\ q.out = None
    BY <2>2, StageFacts
  <2> DEFINE n == [q EXCEPT !.addr = a, !.asked = a,
                            !.pc = IF q.udp = "unbound" THEN "udprule" ELSE "udp"]
  <2> HIDE DEF q
  <2>4. /\ IsReq(n) /\ n.pc \in {"udprule", "udp"} /\ n.out = q.out /\ n.kind = q.kind
        /\ n.addr = a /\ n.asked = a /\ n.destDomain = q.destDomain /\ n.destSock = q.destSock
    BY <1>0 DEF IsReq
  <2>5. Set(r, n)
    BY <2>1
  <2> HIDE DEF n
  <2>6. Stage(n)
    BY <2>3, <2>4 DEF Stage, UdpContext, UdpAsked
  <2> QED
    BY <2>2, <2>4, <2>5, <2>6, QuietStep
<1>2. CASE UdpBind(r)
  <2> DEFINE n == [q EXCEPT !.pc = "udp", !.udp = "Idle", !.again = TRUE]
  <2>1. /\ q.pc = "udpbind" /\ UNCHANGED <<records, cname_map, rule, cache, now, seen>>
        /\ Set(r, n) \/ Set(r, End("error"))
    BY <1>2 DEF UdpBind, UdpUnchanged
  <2>2. /\ IsReq(n) /\ n.pc = "udp" /\ n.kind = q.kind /\ n.src = q.src /\ n.asked = q.asked
        /\ n.addr = q.addr /\ n.destDomain = q.destDomain /\ n.destSock = q.destSock
        /\ n.rule = q.rule /\ n.out = q.out
    <3> HIDE DEF q
    <3> QED
      BY <1>0 DEF IsReq
  <2> HIDE DEF n
  <2>3. Stage(n)
    BY <2>1, <2>2, WithinStage
  <2> QED
    BY <2>1, <2>2, <2>3, EndStage, QuietStep
<1>3. CASE UdpBlackhole(r)
  BY <1>3, EndStage, QuietStep DEF UdpBlackhole, UdpUnchanged
<1>4. CASE PollIdle(r)
  <2> DEFINE ip == q.addr.ip
             m == [q EXCEPT !.udp = "Sending", !.to = ip]
             n == [q EXCEPT !.udp = "LookupHost"]
  <2>1. /\ q.pc = "udp" /\ UNCHANGED <<records, cname_map, rule, cache, now, seen>>
        /\ Set(r, m) \/ Set(r, n)
    BY <1>4 DEF PollIdle, UdpUnchanged
  <2>2. \A k \in {m, n} :
        /\ IsReq(k) /\ k.pc = q.pc /\ k.kind = q.kind /\ k.src = q.src /\ k.asked = q.asked
        /\ k.addr = q.addr /\ k.destDomain = q.destDomain /\ k.destSock = q.destSock
        /\ k.rule = q.rule /\ k.out = q.out
    <3> HIDE DEF q, ip
    <3> QED
      BY <1>0 DEF IsReq
  <2> HIDE DEF m, n
  <2>3. \A k \in {m, n} : Stage(k)
    BY <2>1, <2>2, WithinStage
  <2> QED
    BY <2>1, <2>2, <2>3, QuietStep
<1>5. CASE PollLookup(r)
  <2>1. q.pc = "udp" /\ UNCHANGED <<records, cname_map, rule, cache, now, seen>>
    BY <1>5 DEF PollLookup, UdpUnchanged
  <2>2. (\E ip : Set(r, [q EXCEPT !.udp = "Sending", !.to = ip])) \/ Set(r, End("error"))
    BY <1>5 DEF PollLookup
  <2>3. ASSUME NEW ip, Set(r, [q EXCEPT !.udp = "Sending", !.to = ip]) PROVE IInv'
    <3> DEFINE n == [q EXCEPT !.udp = "Sending", !.to = ip]
    <3>1. /\ IsReq(n) /\ n.pc = q.pc /\ n.kind = q.kind /\ n.src = q.src /\ n.asked = q.asked
          /\ n.addr = q.addr /\ n.destDomain = q.destDomain /\ n.destSock = q.destSock
          /\ n.rule = q.rule /\ n.out = q.out
      <4> HIDE DEF q
      <4> QED
        BY <1>0 DEF IsReq
    <3>2. Set(r, n)
      BY <2>3
    <3> HIDE DEF n
    <3>3. Stage(n)
      BY <2>1, <3>1, WithinStage
    <3> QED
      BY <2>1, <3>1, <3>2, <3>3, QuietStep
  <2> QED
    BY <2>1, <2>2, <2>3, EndStage, QuietStep
<1>6. CASE PollSending(r)
  <2>1. /\ q.pc = "udp" /\ UNCHANGED <<records, cname_map, rule, cache, now, seen>>
        /\ Set(r, Sent(q)) \/ Set(r, End("error"))
    BY <1>6 DEF PollSending, UdpUnchanged
  <2>2. UdpContext(q) /\ q.out = None
    BY <2>1, StageFacts
  <2> DEFINE addr == IF q.again THEN q.addr ELSE NoAddr
             sent == q.sent \cup {<<q.asked, q.to>>}
             n == [q EXCEPT !.addr = addr, !.again = FALSE, !.sent = sent, !.udp = "Idle"]
  <2>3. Sent(q) = n
    BY DEF Sent
  <2> HIDE DEF q, addr, sent
  <2>4. /\ IsReq(n) /\ n.pc = q.pc /\ n.out = q.out /\ n.kind = q.kind
        /\ n.destDomain = q.destDomain /\ n.destSock = q.destSock
    BY <1>0 DEF IsReq
  <2> HIDE DEF n
  <2>5. Stage(n)
    BY <2>1, <2>2, <2>4 DEF Stage, UdpContext
  <2> QED
    BY <2>1, <2>3, <2>4, <2>5, EndStage, QuietStep
<1> QED
  BY <1>1, <1>2, <1>3, <1>4, <1>5, <1>6 DEF UdpStep

-----------------------------------------------------------------------------
(* The sniffer, time, and the invariant.                                   *)

LEMMA ReplyStep ==
    ASSUME IInv, NEW p \in Packets, Reply(p)
    PROVE  IInv'
<1> DEFINE heard == p.port = "53" /\ Len(p.queries) = 1
           after == IF heard THEN RecordAll(p, p.answers) ELSE <<records, cname_map>>
<1>1. /\ UNCHANGED <<rule, cache, req, now>>
      /\ records' = after[1] /\ cname_map' = after[2]
      /\ seen' = IF heard THEN seen \cup {p} ELSE seen
  BY DEF Reply
<1>2. Typed /\ SnifferHolds /\ RulesHold /\ Stages
  BY DEF IInv
<1>3. seen \subseteq seen' /\ seen' \subseteq Packets
  BY <1>1, <1>2 DEF Typed
<1>4. Typed'
  BY <1>1, <1>2, <1>3 DEF Typed
<1>5. Stages'
  <2>1. \A x : Stage(x) => Stage(x)'
    BY <1>1, <1>3, Kept
  <2> QED
    BY <1>1, <1>2, <2>1 DEF Stages
<1>6. RulesHold'
  BY <1>1, <1>2, RulesKept
<1>7. SnifferHolds'
  <2>1. CASE ~heard
    BY <1>1, <1>2, <2>1, SnifferKept
  <2>2. CASE heard
    <3> DEFINE P == SnifferFacts!Holds(records) \cup IpsOf(p, p.answers)
               Q == SnifferFacts!Holds(cname_map) \cup AliasesOf(p, p.answers)
               all == RecordAll(p, p.answers)
    <3>1. now \in Int /\ SnifferFacts!Tidy(records, now) /\ SnifferFacts!Tidy(cname_map, now)
      BY <1>2 DEF Typed, SnifferHolds
    <3>2. Len(p.answers) \in Nat /\ DOMAIN p.answers = 1..Len(p.answers)
      BY NetAssumption, SequenceFacts
    <3>3. Within(<<records, cname_map>>, P, Q) /\ IpsOf(p, p.answers) \subseteq P
          /\ AliasesOf(p, p.answers) \subseteq Q
      BY <3>1 DEF Within
    <3> HIDE DEF P, Q
    <3>4. Within(all, P, Q)
      BY <3>1, <3>2, <3>3, AllRecorded
    <3>5. records' = all[1] /\ cname_map' = all[2] /\ seen' = seen \cup {p} /\ now' = now
      BY <1>1, <2>2
    <3> HIDE DEF all
    <3>6. /\ SnifferFacts!Tidy(records', now') /\ SnifferFacts!Holds(records') \subseteq P
          /\ SnifferFacts!Tidy(cname_map', now') /\ SnifferFacts!Holds(cname_map') \subseteq Q
      BY <3>4, <3>5 DEF Within
    <3>7. \A x \in SnifferFacts!Holds(records') : AnsweredWith(x[1], x[2])'
      <4> SUFFICES ASSUME NEW x \in SnifferFacts!Holds(records') PROVE AnsweredWith(x[1], x[2])'
        OBVIOUS
      <4>1. CASE x \in SnifferFacts!Holds(records)
        <5>1. AnsweredWith(x[1], x[2])
          BY <1>2, <4>1 DEF SnifferHolds
        <5> QED
          BY <3>5, <5>1 DEF AnsweredWith
      <4>2. CASE x \in IpsOf(p, p.answers)
        BY <3>2, <3>5, <4>2 DEF IpsOf, AnsweredWith
      <4> QED
        BY <3>6, <4>1, <4>2 DEF P
    <3>8. \A x \in SnifferFacts!Holds(cname_map') : AliasedTo(x[1], x[2])'
      <4> SUFFICES ASSUME NEW x \in SnifferFacts!Holds(cname_map') PROVE AliasedTo(x[1], x[2])'
        OBVIOUS
      <4>1. CASE x \in SnifferFacts!Holds(cname_map)
        <5>1. AliasedTo(x[1], x[2])
          BY <1>2, <4>1 DEF SnifferHolds
        <5> QED
          BY <3>5, <5>1 DEF AliasedTo
      <4>2. CASE x \in AliasesOf(p, p.answers)
        BY <3>2, <3>5, <4>2 DEF AliasesOf, AliasedTo
      <4> QED
        BY <3>6, <4>1, <4>2 DEF Q
    <3>9. \A x \in seen' : Len(x.queries) = 1
      BY <1>2, <2>2, <3>5 DEF SnifferHolds
    <3> QED
      BY <3>6, <3>7, <3>8, <3>9 DEF SnifferHolds
  <2> QED
    BY <2>1, <2>2
<1> QED
  BY <1>4, <1>5, <1>6, <1>7 DEF IInv

LEMMA TickStep ==
    ASSUME IInv, Tick
    PROVE  IInv'
<1>1. now' = now + 1 /\ UNCHANGED <<records, cname_map, rule, cache, req, seen>>
  BY DEF Tick
<1>2. Typed /\ SnifferHolds /\ RulesHold /\ Stages
  BY DEF IInv
<1>3. Typed'
  BY <1>1, <1>2 DEF Typed
<1>4. Stages'
  <2>1. \A x : Stage(x) => Stage(x)'
    BY <1>1, Kept
  <2> QED
    BY <1>1, <1>2, <2>1 DEF Stages
<1>5. RulesHold'
  BY <1>1, <1>2, RulesKept
<1>6. SnifferFacts!Tidy(records', now') /\ SnifferFacts!Tidy(cname_map', now')
  <2>1. now \in Int /\ now' \in Int /\ now <= now'
    BY <1>1, <1>2 DEF Typed
  <2>2. SnifferFacts!Tidy(records, now) /\ SnifferFacts!Tidy(cname_map, now)
    BY <1>2 DEF SnifferHolds
  <2> DEFINE t == now'
  <2> HIDE DEF t
  <2>3. t \in Int /\ now <= t
    BY <2>1 DEF t
  <2>4. SnifferFacts!Tidy(records, t) /\ SnifferFacts!Tidy(cname_map, t)
    BY <2>1, <2>2, <2>3, Bounds, SnifferFacts!TidyLater
  <2> QED
    BY <1>1, <2>4 DEF t
<1>7. SnifferHolds'
  BY <1>1, <1>2, <1>6 DEF SnifferHolds, AnsweredWith, AliasedTo
<1> QED
  BY <1>3, <1>4, <1>5, <1>7 DEF IInv

LEMMA InitIInv == Init => IInv
<1> SUFFICES ASSUME Init PROVE IInv
  OBVIOUS
<1>1. IsReq(NewReq) /\ Stage(NewReq)
  <2>1. IsReq(NewReq) /\ NewReq.pc = "new"
    BY DEF IsReq, NewReq
  <2> QED
    BY <2>1 DEF Stage
<1>2. req = [r \in Requests |-> NewReq]
  BY DEF Init
<1>3. Typed /\ Stages
  <2> DEFINE n == NewReq
  <2> HIDE DEF n
  <2>1. \A r \in Requests : req[r] = n
    BY <1>2 DEF n
  <2>2. IsReq(n) /\ Stage(n)
    BY <1>1 DEF n
  <2>3. req = [r \in Requests |-> req[r]]
    BY <1>2
  <2>4. Typed
    BY <2>1, <2>2, <2>3 DEF Typed, Init
  <2> QED
    BY <2>1, <2>2, <2>4 DEF Stages
<1>4. SnifferHolds
  <2>1. records = SnifferFacts!NewCache(0) /\ cname_map = SnifferFacts!NewCache(0) /\ now = 0 /\ seen = {}
    BY SnifferOperators DEF Init
  <2>2. SnifferFacts!Tidy(SnifferFacts!NewCache(0), 0) /\ SnifferFacts!Holds(SnifferFacts!NewCache(0)) = {}
    BY Bounds, SnifferFacts!TidyNew, 0 \in Int
  <2> QED
    BY <2>1, <2>2 DEF SnifferHolds
<1>5. RulesHold
  <2>1. cache = RuleFacts!NewCache(0)
    BY RuleOperators DEF Init
  <2>2. RuleFacts!Tidy(RuleFacts!NewCache(0), 0) /\ RuleFacts!Holds(RuleFacts!NewCache(0)) = {}
    BY Bounds, RuleFacts!TidyNew, 0 \in Int
  <2> QED
    BY <2>1, <2>2 DEF RulesHold
<1> QED
  BY <1>3, <1>4, <1>5 DEF IInv

LEMMA StutterIInv ==
    ASSUME IInv, UNCHANGED vars
    PROVE  IInv'
<1>1. Typed /\ SnifferHolds /\ RulesHold /\ Stages
  BY DEF IInv
<1>2. Typed'
  BY <1>1 DEF Typed, vars
<1>3. SnifferHolds'
  BY <1>1, SnifferKept DEF vars
<1>4. RulesHold'
  BY <1>1, RulesKept DEF vars
<1>5. Stages'
  <2>1. \A x : Stage(x) => Stage(x)'
    BY Kept DEF vars
  <2> QED
    BY <1>1, <2>1 DEF Stages, vars
<1> QED
  BY <1>2, <1>3, <1>4, <1>5 DEF IInv

LEMMA NextIInv == IInv /\ [Next]_vars => IInv'
<1> SUFFICES ASSUME IInv, [Next]_vars PROVE IInv'
  OBVIOUS
<1>1. ASSUME NEW r \in Requests, Route(r) PROVE IInv'
  BY <1>1, ConnectStep, BindUdpStep, RecoverStep, HitCacheStep, MatchRulesStep DEF Route
<1>2. CASE UNCHANGED vars
  BY <1>2, StutterIInv
<1> QED
  BY <1>1, <1>2, TargetStep, DialStep, UdpStageStep, ReplyStep, TickStep DEF Next

-----------------------------------------------------------------------------
(* Where connections and packets arrive.                                   *)

Arrives(a, ip) == ip \in ToSet(resolve(a, Hosts))

\* A packet keeps its target until it is out, and the next one starts from
\* Idle; what a connection may still dial are addresses of its name.
Bound(q) ==
    /\ q.addr = NoAddr \/ (q.addr = q.asked /\ q.asked \in Asked)
    /\ q.addr = NoAddr => q.udp \in {"unbound", "Idle"}
    /\ q.udp = "LookupHost" => q.addr.type = "domain"
    /\ q.udp = "Sending" => Arrives(q.asked, q.to)
Arrival(q) ==
    /\ \A s \in q.sent : Arrives(s[1], s[2])
    /\ q.pc = "udp" => Bound(q)
    /\ q.pc = "dial" => \A i \in DOMAIN q.plan : Arrives(q.addr, q.plan[i])
    /\ q.out = "connected" => Arrives(q.addr, q.to)
Arrivals == \A r \in Requests : Arrival(req[r])

\* A recursion that steps within a set stays there.
LEMMA StaysWithin ==
    ASSUME NEW N \in Nat, NEW A, NEW a \in A, NEW g \in [(1..N) \X A -> A], NEW w,
           w[0] = a, \A n \in 1..N : w[n - 1] \in A => w[n] = g[<<n, w[n - 1]>>]
    PROVE  w[N] \in A
<1> DEFINE S == {i \in 0..N : w[i] \notin A}
<1>1. SUFFICES ASSUME S # {} PROVE FALSE
  OBVIOUS
<1>2. PICK m \in S : \A i \in S : m <= i
  <2>1. S \in SUBSET Nat
    OBVIOUS
  <2> QED
    BY <1>1, <2>1, SnifferFacts!LeastNumber
<1>3. m \in 1..N /\ m - 1 \in 0..N /\ m - 1 \notin S
  BY <1>2
<1>4. w[m - 1] \in A
  BY <1>3
<1> QED
  BY <1>2, <1>3, <1>4

\* Of a sequence of addresses only some remain, and none is added.
LEMMA FamilyWithin ==
    ASSUME NEW R, NEW ips \in Seq(R), NEW F
    PROVE  OfFamily(ips, F) \in Seq(R)
<1> DEFINE N == Len(ips)
           step(i, x) == IF ips[i] \in F THEN Append(x, ips[i]) ELSE x
           g == [y \in (1..N) \X Seq(R) |-> step(y[1], y[2])]
           Def(f) == f = [i \in 0..N |-> IF i = 0 THEN <<>> ELSE step(i, f[i - 1])]
           w == CHOOSE f : Def(f)
<1>1. \A i \in 1..N, x \in Seq(R) : step(i, x) \in Seq(R)
  OBVIOUS
<1>2. N \in Nat /\ <<>> \in Seq(R)
  OBVIOUS
<1>3. g \in [(1..N) \X Seq(R) -> Seq(R)]
  <2> HIDE DEF N, step
  <2> QED
    BY <1>1
<1>4. PICK f : IteratesFrom(f, N, Seq(R), <<>>, g)
  <2> HIDE DEF g, N
  <2> QED
    BY <1>2, <1>3, FiniteRecursion
<1>5. Def(f)
  <2> HIDE DEF step, N
  <2>1. \A i \in 1..N : i - 1 \in 0..N /\ f[i - 1] \in Seq(R)
    BY <1>2, <1>4 DEF IteratesFrom
  <2>2. \A i \in 1..N : f[i] = step(i, f[i - 1])
    BY <2>1, <1>4 DEF IteratesFrom
  <2> QED
    BY <1>2, <1>4, <2>2 DEF IteratesFrom
<1>6. Def(w)
  <2> HIDE DEF Def
  <2> QED
    BY <1>5
<1>7. OfFamily(ips, F) = w[N]
  BY DEF OfFamily
<1>8. w[0] = <<>> /\ \A n \in 1..N : w[n - 1] \in Seq(R) => w[n] = g[<<n, w[n - 1]>>]
  <2> HIDE DEF step, w, N
  <2>1. w[0] = <<>> /\ \A n \in 1..N : w[n] = step(n, w[n - 1])
    BY <1>2, <1>6
  <2>2. \A n \in 1..N : w[n - 1] \in Seq(R) => g[<<n, w[n - 1]>>] = step(n, w[n - 1])
    OBVIOUS
  <2> HIDE DEF g
  <2> QED
    BY <2>1, <2>2
<1>9. w[N] \in Seq(R)
  <2> HIDE DEF w, g, N
  <2> QED
    BY <1>2, <1>3, <1>8, StaysWithin
<1> QED
  BY <1>7, <1>9

\* Two sequences in turn have the elements of both.
LEMMA AlternateWithin ==
    ASSUME NEW R, NEW s \in Seq(R), NEW t \in Seq(R)
    PROVE  Alternate(s, t) \in Seq(R)
<1> DEFINE N == Len(s) + Len(t)
           at(u, i) == IF i \in DOMAIN u THEN <<u[i]>> ELSE <<>>
           step(i, x) == x \o at(s, i) \o at(t, i)
           g == [y \in (1..N) \X Seq(R) |-> step(y[1], y[2])]
           Def(f) == f = [i \in 0..N |-> IF i = 0 THEN <<>> ELSE step(i, f[i - 1])]
           w == CHOOSE f : Def(f)
<1>1. \A i \in 1..N, x \in Seq(R) : step(i, x) \in Seq(R)
  <2>1. \A u \in Seq(R), i \in Nat : at(u, i) \in Seq(R)
    OBVIOUS
  <2> HIDE DEF at
  <2> QED
    BY <2>1
<1>2. N \in Nat /\ <<>> \in Seq(R)
  OBVIOUS
<1>3. g \in [(1..N) \X Seq(R) -> Seq(R)]
  <2> HIDE DEF N, step
  <2> QED
    BY <1>1
<1>4. PICK f : IteratesFrom(f, N, Seq(R), <<>>, g)
  <2> HIDE DEF g, N
  <2> QED
    BY <1>2, <1>3, FiniteRecursion
<1>5. Def(f)
  <2> HIDE DEF step, N
  <2>1. \A i \in 1..N : i - 1 \in 0..N /\ f[i - 1] \in Seq(R)
    BY <1>2, <1>4 DEF IteratesFrom
  <2>2. \A i \in 1..N : f[i] = step(i, f[i - 1])
    BY <2>1, <1>4 DEF IteratesFrom
  <2> QED
    BY <1>2, <1>4, <2>2 DEF IteratesFrom
<1>6. Def(w)
  <2> HIDE DEF Def
  <2> QED
    BY <1>5
<1>7. Alternate(s, t) = w[N]
  BY DEF Alternate
<1>8. w[0] = <<>> /\ \A n \in 1..N : w[n - 1] \in Seq(R) => w[n] = g[<<n, w[n - 1]>>]
  <2> HIDE DEF step, w, N
  <2>1. w[0] = <<>> /\ \A n \in 1..N : w[n] = step(n, w[n - 1])
    BY <1>2, <1>6
  <2>2. \A n \in 1..N : w[n - 1] \in Seq(R) => g[<<n, w[n - 1]>>] = step(n, w[n - 1])
    OBVIOUS
  <2> HIDE DEF g
  <2> QED
    BY <2>1, <2>2
<1>9. w[N] \in Seq(R)
  <2> HIDE DEF w, g, N
  <2> QED
    BY <1>2, <1>3, <1>8, StaysWithin
<1> QED
  BY <1>7, <1>9

\* What resolve gives for an address a request can have.
LEMMA Resolved ==
    ASSUME NEW a, a.type \in {"sock", "domain"}
    PROVE  IsSequence(resolve(a, Hosts))
<1>1. CASE to_normalized(a).type = "sock"
  <2> DEFINE ip == to_normalized(a).ip
  <2>1. resolve(a, Hosts) = <<ip>>
    BY <1>1 DEF resolve
  <2> HIDE DEF ip
  <2>2. Range(<<ip>>) = {ip}
    BY DEF Range
  <2>3. <<ip>> \in Seq({ip})
    OBVIOUS
  <2> QED
    BY <2>1, <2>2, <2>3 DEF IsSequence
<1>2. CASE to_normalized(a).type # "sock" /\ a.domain \in DOMAIN Hosts
  BY <1>2, NetAssumption DEF resolve
<1>3. CASE to_normalized(a).type # "sock" /\ a.domain \notin DOMAIN Hosts
  <2>1. resolve(a, Hosts) = <<>>
    BY <1>3 DEF resolve
  <2>2. <<>> \in Seq(Range(<<>>))
    OBVIOUS
  <2> QED
    BY <2>1, <2>2 DEF IsSequence
<1> QED
  BY <1>1, <1>2, <1>3

\* Whatever is dialled is an address of the target.
LEMMA PlanArrives ==
    ASSUME NEW r, req[r].addr.type \in {"sock", "domain"}
    PROVE  \A i \in DOMAIN Plan(r) : Arrives(req[r].addr, Plan(r)[i])
<1> DEFINE a == req[r].addr
           all == resolve(a, Hosts)
           some == resolve(a, LookupFamilies(Target(r)))
           R == ToSet(all)
<1>1. all \in Seq(R)
  <2>1. R = Range(all)
    BY DEF ToSet, Range
  <2>2. all \in Seq(Range(all))
    BY Resolved DEF IsSequence
  <2> QED
    BY <2>1, <2>2
<1>2. HappyOrder(all) \in Seq(R)
  <2> HIDE DEF all, R
  <2>1. OfFamily(all, V6) \in Seq(R) /\ OfFamily(all, V4) \in Seq(R)
    BY <1>1, FamilyWithin
  <2> QED
    BY <2>1, AlternateWithin DEF HappyOrder
<1>3. some \in Seq(R)
  <2> DEFINE F == Families(Target(r))
             H == LookupFamilies(Target(r))
  <2>1. DOMAIN H = DOMAIN Hosts /\ \A d \in DOMAIN Hosts : H[d] = OfFamily(Hosts[d], F)
    BY DEF LookupFamilies
  <2> HIDE DEF F, H
  <2>2. CASE to_normalized(a).type # "sock" /\ a.domain \in DOMAIN Hosts
    <3>1. some = OfFamily(Hosts[a.domain], F) /\ all = Hosts[a.domain]
      BY <2>1, <2>2 DEF resolve, H
    <3> HIDE DEF all, R, some
    <3> QED
      BY <1>1, <3>1, FamilyWithin
  <2>3. CASE ~(to_normalized(a).type # "sock" /\ a.domain \in DOMAIN Hosts)
    <3>1. some = all
      BY <2>1, <2>3 DEF resolve, H
    <3> HIDE DEF all, R, some
    <3> QED
      BY <1>1, <3>1
  <2> QED
    BY <2>2, <2>3
<1>4. Plan(r) \in {HappyOrder(all), some}
  BY DEF Plan
<1>5. Plan(r) \in Seq(R)
  <2> HIDE DEF all, R, some
  <2> QED
    BY <1>2, <1>3, <1>4
<1>6. \A i \in DOMAIN Plan(r) : Plan(r)[i] \in R
  <2> HIDE DEF R
  <2> QED
    BY <1>5
<1> QED
  BY <1>6 DEF Arrives

\* The local socket's lookup gives an address of the target.
LEMMA LookupArrives ==
    ASSUME NEW a, a.type = "domain"
    PROVE  LET ips == IF ParsesAsIp(a.domain) THEN <<ParseIp(a.domain)>> ELSE LookupHost(a.domain)
           IN  ips # <<>> => Arrives(a, ips[1])
<1> DEFINE d == a.domain
           host == host_to_address(d, a.port)
<1>0. to_normalized(a) = host
  BY DEF to_normalized
<1>1. CASE ParsesAsIp(d)
  <2>1. strip_brackets(d) = d
    BY <1>1, NetAssumption DEF ParsesAsIp
  <2>2. host = Sock(ParseIp(d), a.port)
    BY <1>1, <2>1 DEF host_to_address
  <2>3. resolve(a, Hosts) = <<ParseIp(d)>>
    BY <1>0, <2>2 DEF resolve, Sock
  <2> QED
    BY <1>1, <2>3 DEF Arrives, ToSet
<1>2. CASE ~ParsesAsIp(d) /\ d \in DOMAIN Hosts
  <2>1. ~ParsesAsIp(strip_brackets(d)) /\ IsSequence(Hosts[d])
    BY <1>2, NetAssumption
  <2>2. host.type = "domain"
    BY <2>1 DEF host_to_address, Domain
  <2>3. resolve(a, Hosts) = Hosts[d] /\ LookupHost(d) = Hosts[d]
    BY <1>0, <1>2, <2>2 DEF resolve, LookupHost
  <2>4. Hosts[d] # <<>> => 1 \in DOMAIN Hosts[d]
    BY <2>1 DEF IsSequence
  <2> QED
    BY <1>2, <2>3, <2>4 DEF Arrives, ToSet
<1>3. CASE ~ParsesAsIp(d) /\ d \notin DOMAIN Hosts
  BY <1>3 DEF LookupHost
<1> QED
  BY <1>1, <1>2, <1>3

LEMMA ArrivalStep ==
    ASSUME IInv, Arrivals, NEW r \in Requests, NEW n, Set(r, n), Arrival(n)
    PROVE  Arrivals'
<1>1. req = [s \in Requests |-> req[s]] /\ req' = [req EXCEPT ![r] = n]
  BY DEF IInv, Typed, Set
<1>2. \A s \in Requests : req'[s] = n \/ req'[s] = req[s]
  BY <1>1
<1>3. \A s \in Requests : Arrival(req'[s])
  BY <1>2 DEF Arrivals
<1> QED
  BY <1>3 DEF Arrivals, Arrival, Bound, Arrives

\* A request that has nothing bound, dialled or connected.
LEMMA Underway ==
    ASSUME NEW q, Arrival(q), NEW n, n.sent = q.sent, n.pc \notin {"udp", "dial"},
           n.out # "connected"
    PROVE  Arrival(n)
BY DEF Arrival

LEMMA EndArrival ==
    ASSUME NEW out, out # "connected"
    PROVE  Arrival(End(out))
<1>1. End(out).sent = {} /\ End(out).pc = "end" /\ End(out).out = out
  BY DEF End, NewReq
<1> QED
  BY <1>1 DEF Arrival

LEMMA NewArrival == Arrival(NewReq)
<1>1. NewReq.sent = {} /\ NewReq.pc = "new" /\ NewReq.out = None
  BY DEF NewReq
<1> QED
  BY <1>1 DEF Arrival, None

LEMMA RouteArrives ==
    ASSUME IInv, Arrivals, NEW r \in Requests, Route(r)
    PROVE  Arrivals'
<1> DEFINE q == req[r]
<1>0. IsReq(q) /\ Arrival(q)
  BY StageFacts DEF Arrivals
<1>1. ASSUME NEW n, Set(r, n), n.sent = q.sent, n.pc \notin {"udp", "dial"}, n.out # "connected"
      PROVE  Arrivals'
  BY <1>0, <1>1, Underway, ArrivalStep
<1>2. CASE Connect(r)
  <2>1. PICK src \in Sources, a \in Asked :
          Set(r, [q EXCEPT
                    !.pc = "sniffer", !.kind = "tcp", !.src = src, !.asked = a, !.addr = a,
                    !.destDomain = IF a.type = "domain" THEN DomainToText(a.domain, a.port) ELSE @,
                    !.destSock = IF a.type = "sock" THEN a ELSE @])
    BY <1>2 DEF Connect
  <2> DEFINE n == [q EXCEPT
                    !.pc = "sniffer", !.kind = "tcp", !.src = src, !.asked = a, !.addr = a,
                    !.destDomain = IF a.type = "domain" THEN DomainToText(a.domain, a.port) ELSE @,
                    !.destSock = IF a.type = "sock" THEN a ELSE @]
  <2>2. q.out = None
    BY <1>2, StageFacts, NewFields DEF Connect
  <2>3. n.sent = q.sent /\ n.pc = "sniffer" /\ n.out = q.out
    <3> HIDE DEF q
    <3> QED
      BY <1>0 DEF IsReq
  <2>4. Set(r, n)
    BY <2>1
  <2> HIDE DEF n
  <2> QED
    BY <1>1, <2>2, <2>3, <2>4 DEF None
<1>3. CASE BindUdp(r)
  <2>1. PICK src \in Sources \cup {None} : Set(r, [q EXCEPT !.pc = "udp", !.kind = "udp", !.src = src])
    BY <1>3 DEF BindUdp
  <2> DEFINE n == [q EXCEPT !.pc = "udp", !.kind = "udp", !.src = src]
  <2>2. q = NewReq
    BY <1>3, StageFacts DEF BindUdp
  <2>3. q.out = None /\ q.addr = NoAddr /\ q.udp = "unbound" /\ q.sent = {}
    BY <2>2 DEF NewReq
  <2>4. n.sent = q.sent /\ n.pc = "udp" /\ n.out = q.out /\ n.addr = q.addr /\ n.udp = q.udp
    <3> HIDE DEF q
    <3> QED
      BY <1>0 DEF IsReq
  <2>5. Set(r, n)
    BY <2>1
  <2> HIDE DEF n
  <2>6. Arrival(n)
    BY <2>3, <2>4 DEF Arrival, Bound, None
  <2> QED
    BY <2>5, <2>6, ArrivalStep
<1>4. CASE Recover(r)
  <2> DEFINE a == q.addr
             name == Walk(Sniff!Value(records, a.ip))
             d == Domain(name, a.port)
             text == DomainToText(name, a.port)
             recovered == [q EXCEPT !.pc = "rule", !.addr = d, !.destDomain = text]
             left == [q EXCEPT !.pc = "rule"]
  <2>1. q.pc = "sniffer" /\ (Set(r, recovered) \/ Set(r, left))
    BY <1>4 DEF Recover
  <2>2. q.out = None
    BY <2>1, StageFacts
  <2>3. \A n \in {recovered, left} : n.sent = q.sent /\ n.pc = "rule" /\ n.out = q.out
    <3> HIDE DEF q, d, text
    <3> QED
      BY <1>0 DEF IsReq
  <2> HIDE DEF recovered, left, q
  <2> QED
    BY <1>1, <2>1, <2>2, <2>3 DEF None
<1>5. CASE HitCache(r)
  <2> DEFINE v == RuleCache!Value(cache, from_context_address(q))
             missed == [q EXCEPT !.out = "missed"]
             m == Matched(q, v)
  <2>1. q.pc \in {"rule", "udprule"} /\ (Set(r, m) \/ Set(r, missed))
    BY <1>5 DEF HitCache
  <2>2. q.out \in {None, "missed"}
    BY <2>1, StageFacts
  <2>3. /\ m.sent = q.sent /\ m.pc \in {"udpbind", "resolve"} /\ m.out = q.out
        /\ missed.sent = q.sent /\ missed.pc = q.pc /\ missed.out = "missed"
    <3> HIDE DEF q, v
    <3> QED
      BY <1>0 DEF IsReq, Matched
  <2> HIDE DEF m, missed, q
  <2> QED
    BY <1>1, <2>1, <2>2, <2>3 DEF None
<1>6. CASE MatchRules(r)
  <2> DEFINE i == Least(Matching(from_context_address(q)))
             k == [q EXCEPT !.out = None]
             refused == [k EXCEPT !.pc = "end", !.out = "NotMatched"]
             m == Matched(k, i)
  <2>1. q.pc \in {"rule", "udprule"} /\ (Set(r, m) \/ Set(r, refused))
    BY <1>6 DEF MatchRules
  <2>2. IsReq(k) /\ k.sent = q.sent /\ k.out = None
    <3> HIDE DEF q
    <3> QED
      BY <1>0 DEF IsReq
  <2>3. /\ m.sent = k.sent /\ m.pc \in {"udpbind", "resolve"} /\ m.out = k.out
        /\ refused.sent = k.sent /\ refused.pc = "end" /\ refused.out = "NotMatched"
    <3> HIDE DEF k, i
    <3> QED
      BY <2>2 DEF IsReq, Matched
  <2> HIDE DEF m, refused, k, q
  <2> QED
    BY <1>1, <2>1, <2>2, <2>3 DEF None
<1> QED
  BY <1>2, <1>3, <1>4, <1>5, <1>6 DEF Route

LEMMA TargetArrives ==
    ASSUME IInv, Arrivals, NEW r \in Requests, ToTarget(r)
    PROVE  Arrivals'
<1> DEFINE q == req[r]
           plan == Plan(r)
           sleep == [i \in DOMAIN Plan(r) |-> "sleep"]
           n == [q EXCEPT !.pc = "dial", !.plan = plan, !.try = sleep]
<1>1. \/ \E out : out # "connected" /\ Set(r, End(out))
      \/ q.pc = "resolve" /\ Set(r, n)
  BY DEF ToTarget, Blackhole, NotProvided, Resolve
<1>2. ASSUME NEW out, out # "connected", Set(r, End(out)) PROVE Arrivals'
  BY <1>2, EndArrival, ArrivalStep
<1>3. CASE q.pc = "resolve" /\ Set(r, n)
  <2>1. IsReq(q) /\ TcpContext(q) /\ q.out = None /\ Arrival(q)
    BY <1>3, StageFacts DEF Arrivals
  <2>2. q.addr.type \in {"sock", "domain"}
    BY <2>1, AskedForms DEF TcpContext, AsAsked, Renamed, Domain
  <2>3. \A i \in DOMAIN plan : Arrives(q.addr, plan[i])
    BY <2>2, PlanArrives
  <2>4. n.pc = "dial" /\ n.plan = plan /\ n.addr = q.addr /\ n.sent = q.sent /\ n.out = q.out
    <3> HIDE DEF q, plan, sleep
    <3> QED
      BY <2>1 DEF IsReq
  <2> HIDE DEF n, plan, q
  <2>5. Arrival(n)
    BY <2>1, <2>3, <2>4 DEF Arrival, None
  <2> QED
    BY <1>3, <2>5, ArrivalStep
<1> QED
  BY <1>1, <1>2, <1>3

LEMMA DialArrives ==
    ASSUME IInv, Arrivals, NEW r \in Requests, Dial(r) \/ TimedOut(r)
    PROVE  Arrivals'
<1> DEFINE q == req[r]
           tried(i, x) == [q EXCEPT !.try = [q.try EXCEPT ![i] = x]]
           e == End("connected")
           arrived(i) == [e EXCEPT !.addr = q.addr, !.to = q.plan[i]]
<1>1. IsReq(q) /\ Arrival(q) /\ q.pc = "dial"
  BY StageFacts DEF Arrivals, Dial, TimedOut, StartAttempt, Answered
<1>2. PICK i \in DOMAIN q.plan :
        \/ Set(r, tried(i, "connecting"))
        \/ \E ok : Set(r, Attempted(r, i, ok))
  BY DEF Dial, TimedOut, StartAttempt, Answered
<1>3. ASSUME NEW x
      PROVE  LET k == tried(i, x) IN
             /\ k.pc = q.pc /\ k.plan = q.plan /\ k.addr = q.addr /\ k.sent = q.sent /\ k.out = q.out
             /\ Arrival(k)
  <2> DEFINE t == [q.try EXCEPT ![i] = x]
             k == [q EXCEPT !.try = t]
  <2>1. k.pc = q.pc /\ k.plan = q.plan /\ k.addr = q.addr /\ k.sent = q.sent /\ k.out = q.out /\ k.to = q.to
    <3> HIDE DEF q, t
    <3> QED
      BY <1>1 DEF IsReq
  <2>2. Arrival(k)
    <3> HIDE DEF k, q
    <3> QED
      BY <1>1, <2>1 DEF Arrival
  <2> QED
    BY <2>1, <2>2
<1>4. Arrival(arrived(i))
  <2> DEFINE a == q.addr
             to == q.plan[i]
             k == [e EXCEPT !.addr = a, !.to = to]
  <2>1. IsReq(e) /\ e.pc = "end" /\ e.sent = {}
    <3>1. e.sent = {}
      BY DEF End, NewReq
    <3> QED
      BY <3>1, EndStage
  <2>2. Arrives(a, to)
    BY <1>1, <1>2 DEF Arrival
  <2> HIDE DEF e, a, to
  <2>3. k.pc = "end" /\ k.addr = a /\ k.to = to /\ k.sent = {}
    BY <2>1 DEF IsReq
  <2> HIDE DEF k
  <2>4. Arrival(k)
    BY <2>2, <2>3 DEF Arrival
  <2> QED
    BY <2>4 DEF k, a, to
<1>5. \A ok : Attempted(r, i, ok) \in {arrived(i), End("error"), tried(i, "failed")}
  <2> DEFINE k == [q EXCEPT !.try[i] = "failed"]
  <2>1. k = tried(i, "failed")
    OBVIOUS
  <2>2. k.addr = q.addr /\ k.plan = q.plan
    BY <1>3, <2>1
  <2>3. \A ok : Attempted(r, i, ok) \in {[e EXCEPT !.addr = k.addr, !.to = k.plan[i]], End("error"), k}
    BY DEF Attempted
  <2> HIDE DEF k, e
  <2> QED
    BY <2>1, <2>2, <2>3
<1>6. Arrival(End("error"))
  BY EndArrival
<1> HIDE DEF tried, arrived
<1>7. Arrival(tried(i, "connecting")) /\ Arrival(tried(i, "failed"))
  BY <1>3
<1>8. \E n : Set(r, n) /\ Arrival(n)
  BY <1>2, <1>4, <1>5, <1>6, <1>7
<1> QED
  BY <1>8, ArrivalStep

LEMMA UdpArrives ==
    ASSUME IInv, Arrivals, NEW r \in Requests, UdpStep(r)
    PROVE  Arrivals'
<1> DEFINE q == req[r]
<1>0. IsReq(q) /\ Arrival(q)
  BY StageFacts DEF Arrivals
<1>1. ASSUME NEW out, out # "connected", Set(r, End(out)) PROVE Arrivals'
  BY <1>1, EndArrival, ArrivalStep
<1>2. ASSUME NEW n, Set(r, n), n.sent = q.sent, n.pc = "udp", Bound(n), n.out = None
      PROVE  Arrivals'
  <2>1. Arrival(n)
    BY <1>0, <1>2 DEF Arrival, None
  <2> QED
    BY <1>2, <2>1, ArrivalStep
<1>3. q.pc = "udp" => Bound(q) /\ q.out = None
  BY <1>0, StageFacts DEF Arrival
<1>4. CASE SendTo(r)
  <2>1. PICK a \in Asked :
          Set(r, [q EXCEPT !.addr = a, !.asked = a,
                           !.pc = IF q.udp = "unbound" THEN "udprule" ELSE "udp"])
    BY <1>4 DEF SendTo
  <2> DEFINE n == [q EXCEPT !.addr = a, !.asked = a,
                            !.pc = IF q.udp = "unbound" THEN "udprule" ELSE "udp"]
  <2>2. q.pc = "udp" /\ q.addr = NoAddr
    BY <1>4 DEF SendTo
  <2>3. q.udp \in {"unbound", "Idle"} /\ q.out = None
    BY <1>3, <2>2 DEF Bound
  <2>4. a # NoAddr
    BY AskedForms DEF NoAddr
  <2>5. /\ n.pc = (IF q.udp = "unbound" THEN "udprule" ELSE "udp") /\ n.sent = q.sent /\ n.out = q.out
        /\ n.udp = q.udp /\ n.addr = a /\ n.asked = a
    <3> HIDE DEF q
    <3> QED
      BY <1>0 DEF IsReq
  <2>6. Set(r, n)
    BY <2>1
  <2> HIDE DEF n, q
  <2>7. CASE q.udp = "unbound"
    <3>1. Arrival(n)
      BY <1>0, <2>3, <2>5, <2>7, Underway DEF None
    <3> QED
      BY <2>6, <3>1, ArrivalStep
  <2>8. CASE q.udp = "Idle"
    <3>1. Bound(n)
      BY <2>4, <2>5, <2>8 DEF Bound
    <3> QED
      BY <1>2, <2>3, <2>5, <2>6, <2>8, <3>1
  <2> QED
    BY <2>3, <2>7, <2>8
<1>5. CASE UdpBind(r)
  <2> DEFINE n == [q EXCEPT !.pc = "udp", !.udp = "Idle", !.again = TRUE]
  <2>1. q.pc = "udpbind" /\ (Set(r, n) \/ Set(r, End("error")))
    BY <1>5 DEF UdpBind
  <2>2. UdpAsked(q) /\ q.out = None
    BY <2>1, StageFacts
  <2>3. /\ n.pc = "udp" /\ n.sent = q.sent /\ n.out = q.out /\ n.udp = "Idle"
        /\ n.addr = q.addr /\ n.asked = q.asked
    <3> HIDE DEF q
    <3> QED
      BY <1>0 DEF IsReq
  <2> HIDE DEF n, q
  <2>4. Bound(n)
    BY <2>2, <2>3 DEF Bound, UdpAsked
  <2> QED
    BY <1>1, <1>2, <2>1, <2>2, <2>3, <2>4
<1>6. CASE UdpBlackhole(r)
  BY <1>1, <1>6 DEF UdpBlackhole
<1>7. CASE PollIdle(r)
  <2> DEFINE ip == q.addr.ip
             m == [q EXCEPT !.udp = "Sending", !.to = ip]
             n == [q EXCEPT !.udp = "LookupHost"]
  <2>1. /\ q.pc = "udp" /\ q.addr # NoAddr
        /\ \/ q.addr.type = "sock" /\ Set(r, m)
           \/ q.addr.type # "sock" /\ Set(r, n)
    BY <1>7 DEF PollIdle
  <2>2. q.addr = q.asked /\ q.asked \in Asked /\ q.out = None
    BY <1>3, <2>1 DEF Bound
  <2>3. /\ m.pc = q.pc /\ m.sent = q.sent /\ m.out = q.out /\ m.udp = "Sending"
        /\ m.addr = q.addr /\ m.asked = q.asked /\ m.to = ip
        /\ n.pc = q.pc /\ n.sent = q.sent /\ n.out = q.out /\ n.udp = "LookupHost"
        /\ n.addr = q.addr /\ n.asked = q.asked
    <3> HIDE DEF q, ip
    <3> QED
      BY <1>0 DEF IsReq
  <2> HIDE DEF m, n
  <2>4. CASE q.addr.type = "sock"
    <3>1. to_normalized(q.asked) = q.asked
      BY <2>2, <2>4 DEF to_normalized
    <3>2. resolve(q.asked, Hosts) = <<ip>>
      BY <2>2, <2>4, <3>1 DEF resolve
    <3>3. Arrives(q.asked, ip)
      BY <3>2 DEF Arrives, ToSet
    <3> HIDE DEF q, ip
    <3>4. Bound(m)
      BY <2>1, <2>2, <2>3, <3>3 DEF Bound
    <3> QED
      BY <1>2, <2>1, <2>2, <2>3, <2>4, <3>4
  <2>5. CASE q.addr.type # "sock"
    <3>1. q.addr.type = "domain"
      BY <2>2, <2>5, AskedForms
    <3> HIDE DEF q, ip
    <3>2. Bound(n)
      BY <2>1, <2>2, <2>3, <3>1 DEF Bound
    <3> QED
      BY <1>2, <2>1, <2>2, <2>3, <2>5, <3>2
  <2> QED
    BY <2>4, <2>5
<1>8. CASE PollLookup(r)
  <2> DEFINE ips == IF ParsesAsIp(q.addr.domain) THEN <<ParseIp(q.addr.domain)>>
                    ELSE LookupHost(q.addr.domain)
             ip == ips[1]
             n == [q EXCEPT !.udp = "Sending", !.to = ip]
  <2>1. /\ q.pc = "udp" /\ q.udp = "LookupHost"
        /\ (ips # <<>> /\ Set(r, n)) \/ Set(r, End("error"))
    BY <1>8 DEF PollLookup
  <2>2. q.addr.type = "domain" /\ q.addr = q.asked /\ q.asked \in Asked /\ q.out = None
    BY <1>3, <2>1 DEF Bound, NoAddr
  <2>3. ips # <<>> => Arrives(q.asked, ip)
    BY <2>2, LookupArrives
  <2>4. /\ n.pc = q.pc /\ n.sent = q.sent /\ n.out = q.out /\ n.udp = "Sending"
        /\ n.addr = q.addr /\ n.asked = q.asked /\ n.to = ip
    <3> HIDE DEF q, ip
    <3> QED
      BY <1>0 DEF IsReq
  <2>5. NoAddr.type # "domain"
    BY DEF NoAddr
  <2> HIDE DEF n, ips, ip, q
  <2>6. ips # <<>> => Bound(n)
    BY <2>2, <2>3, <2>4, <2>5 DEF Bound
  <2> QED
    BY <1>1, <1>2, <2>1, <2>2, <2>4, <2>6
<1>9. CASE PollSending(r)
  <2> DEFINE addr == IF q.again THEN q.addr ELSE NoAddr
             sent == q.sent \cup {<<q.asked, q.to>>}
             n == [q EXCEPT !.addr = addr, !.again = FALSE, !.sent = sent, !.udp = "Idle"]
  <2>1. /\ q.pc = "udp" /\ q.udp = "Sending" /\ q.addr # NoAddr
        /\ Set(r, n) \/ Set(r, End("error"))
    BY <1>9 DEF PollSending, Sent
  <2>2. /\ Arrives(q.asked, q.to) /\ q.addr = q.asked /\ q.asked \in Asked /\ q.out = None
        /\ \A s \in q.sent : Arrives(s[1], s[2])
    BY <1>0, <1>3, <2>1 DEF Bound, Arrival
  <2>3. \A s \in sent : Arrives(s[1], s[2])
    BY <2>2
  <2>4. addr \in {NoAddr, q.addr}
    OBVIOUS
  <2> HIDE DEF addr, sent, q
  <2>5. /\ n.pc = q.pc /\ n.sent = sent /\ n.out = q.out /\ n.udp = "Idle"
        /\ n.addr = addr /\ n.asked = q.asked
    BY <1>0 DEF IsReq
  <2> HIDE DEF n
  <2>6. Arrival(n)
    BY <2>1, <2>2, <2>3, <2>4, <2>5 DEF Arrival, Bound, None
  <2> QED
    BY <1>1, <2>1, <2>6, ArrivalStep
<1> QED
  BY <1>4, <1>5, <1>6, <1>7, <1>8, <1>9 DEF UdpStep

LEMMA NextArrivals == IInv /\ Arrivals /\ [Next]_vars => Arrivals'
<1> SUFFICES ASSUME IInv, Arrivals, [Next]_vars PROVE Arrivals'
  OBVIOUS
<1>1. ASSUME req' = req PROVE Arrivals'
  BY <1>1 DEF Arrivals, Arrival, Bound, Arrives
<1>2. ASSUME NEW p \in Packets, Reply(p) PROVE Arrivals'
  BY <1>1, <1>2 DEF Reply
<1>3. CASE Tick \/ UNCHANGED vars
  BY <1>1, <1>3 DEF Tick, vars
<1> QED
  BY <1>2, <1>3, RouteArrives, TargetArrives, DialArrives, UdpArrives DEF Next

-----------------------------------------------------------------------------
(* The theorems.                                                           *)

LEMMA Invariant == Spec => []IInv
BY InitIInv, NextIInv, PTL DEF Spec

LEMMA RoutedHere ==
    ASSUME rule \in RuleLists, NEW q, Stage(q)
    PROVE  /\ q.pc \in {"resolve", "dial", "udpbind"} =>
                /\ Applies(rule[q.rule], q)
                /\ \A i \in 1..(q.rule - 1) : ~Applies(rule[i], q)
           /\ q.out = "NotMatched" => \A i \in DOMAIN rule : ~Applies(rule[i], q)
<1> DEFINE mc == from_context_address(q)
<1>1. \A i \in DOMAIN rule : rule[i].type \in RuleTypes
  BY NetAssumption
<1>2. ASSUME q.pc \in {"resolve", "dial", "udpbind"}
      PROVE  Applies(rule[q.rule], q) /\ \A i \in 1..(q.rule - 1) : ~Applies(rule[i], q)
  <2>1. (TcpContext(q) \/ UdpAsked(q)) /\ FirstRule(mc, q.rule)
    BY <1>2 DEF Stage, Decided
  <2>2. /\ q.rule \in DOMAIN rule /\ match_rule(rule[q.rule], mc)
        /\ \A j \in 1..(q.rule - 1) : j \in DOMAIN rule /\ ~match_rule(rule[j], mc)
    BY <2>1, LeastIsFirst
  <2>3. \A i \in DOMAIN rule : match_rule(rule[i], mc) <=> Applies(rule[i], q)
    BY <1>1, <2>1, AppliesIsMatch
  <2> HIDE DEF mc
  <2> QED
    BY <2>2, <2>3
<1>3. ASSUME q.out = "NotMatched" PROVE \A i \in DOMAIN rule : ~Applies(rule[i], q)
  <2>1. (TcpContext(q) \/ UdpAsked(q)) /\ Matching(mc) = {}
    <3>1. NewReq.out # "NotMatched"
      BY NewFields DEF None
    <3> QED
      BY <1>3, <3>1 DEF Stage, None
  <2>2. \A i \in DOMAIN rule : match_rule(rule[i], mc) <=> Applies(rule[i], q)
    BY <1>1, <2>1, AppliesIsMatch
  <2> HIDE DEF mc
  <2> QED
    BY <2>1, <2>2 DEF Matching
<1> QED
  BY <1>2, <1>3

\* However the cache of RuleNet is filled, emptied or shared by requests, the
\* target is the one of the first rule that applies to the request itself, and
\* a request is refused only if no rule applies.
THEOREM FirstMatchDecides == Spec => []RoutedByFirstMatch
<1>1. IInv => RoutedByFirstMatch
  <2> SUFFICES ASSUME IInv PROVE RoutedByFirstMatch
    OBVIOUS
  <2>1. rule \in RuleLists /\ \A r \in Requests : Stage(req[r])
    BY DEF IInv, Typed, Stages
  <2> QED
    BY <2>1, RoutedHere DEF RoutedByFirstMatch
<1> QED
  BY <1>1, Invariant, PTL

\* DNSSnifferNet gives a connection to an IP address a name only along a chain
\* of recorded answers, whatever was overwritten, evicted or has expired.
THEOREM NamesWereAnswered == Spec => []RecoveredWasAnswered
<1>1. IInv => RecoveredWasAnswered
  <2> SUFFICES ASSUME IInv, NEW r \in Requests, req[r].kind = "tcp", req[r].asked.type = "sock",
                      req[r].addr.type = "domain"
               PROVE  LeadsTo(req[r].asked.ip, req[r].addr.domain)
    BY DEF RecoveredWasAnswered
  <2> DEFINE q == req[r]
  <2>1. Stage(q) /\ q.kind = "tcp"
    BY StageFacts
  <2>2. NewReq.kind = None
    BY DEF NewReq
  <2>3. TcpContext(q)
    BY <2>1, <2>2 DEF Stage, UdpAsked, UdpContext, None
  <2>4. q.addr # q.asked
    OBVIOUS
  <2> QED
    BY <2>3, <2>4 DEF TcpContext, AsAsked
<1> QED
  BY <1>1, Invariant, PTL

\* Whatever was asked for before, each packet of the local net's socket goes to
\* an address of its own target, and a connection of the local or resolve net
\* ends at an address of the name it was resolved from.
THEOREM TargetsReached == Spec => []ArrivesAtTarget
<1>1. Init => Arrivals
  <2> SUFFICES ASSUME Init PROVE Arrivals
    OBVIOUS
  <2> DEFINE n == NewReq
  <2>1. Arrival(n)
    BY NewArrival
  <2> HIDE DEF n
  <2>2. \A r \in Requests : req[r] = n
    BY DEF Init, n
  <2> QED
    BY <2>1, <2>2 DEF Arrivals
<1>2. Arrivals => ArrivesAtTarget
  BY DEF Arrivals, Arrival, Arrives, ArrivesAtTarget
<1> QED
  BY <1>1, <1>2, Invariant, NextArrivals, PTL DEF Spec
=============================================================================
