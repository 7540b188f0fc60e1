---------------------------- MODULE LruTimeCache ----------------------------
(***************************************************************************)
(* LruCache of src/rd-std/src/util/lru_cache.rs as a value, with the crate *)
(* lru_time_cache inside: entries in the order of their last use, each     *)
(* with its time, and the Sleep that clears expired entries.               *)
(***************************************************************************)
EXTENDS Integers, Sequences

CONSTANTS TTL,          \* time to live of an entry
          Capacity      \* entries at most

\* What the callers give: a Duration and a usize, neither of them zero.
CacheBounds == TTL \in Nat \ {0} /\ Capacity \in Nat \ {0}

NewCache(now) == [list |-> <<>>, sleep |-> now + TTL, waker |-> FALSE]

Keys(c) == {c.list[i].key : i \in DOMAIN c.list}
Value(c, k) == c.list[CHOOSE i \in DOMAIN c.list : c.list[i].key = k].val
Values(c) == {c.list[i].val : i \in DOMAIN c.list}

\* The entries are in the order of their times, so those that have expired come
\* first: all before the first that is fresh.
FirstFresh(list, now) ==
    CHOOSE n \in 1..(Len(list) + 1) :
      /\ \A i \in 1..(n - 1) : list[i].time + TTL <= now
      /\ n <= Len(list) => list[n].time + TTL > now
Unexpired(list, now) == SubSeq(list, FirstFresh(list, now), Len(list))
RemoveExpired(c, now) == [c EXCEPT !.list = Unexpired(@, now)]

\* The list without the entry of k, if it has one.
WithoutKey(list, k) ==
    IF \E i \in 1..Len(list) : list[i].key = k
      THEN LET n == CHOOSE i \in 1..Len(list) : list[i].key = k
           IN  SubSeq(list, 1, n - 1) \o SubSeq(list, n + 1, Len(list))
      ELSE list
RemoveKey(c, k) == [c EXCEPT !.list = WithoutKey(@, k)]

\* A bug for the checks: a use leaves the entry's time as it is.
GetKeepsTime(c, k, now) == RemoveExpired(c, now)

\* get, get_mut and entry: expired entries go, the one asked for moves to the
\* end with the present time.
Get(c, k, now) ==
    LET d == RemoveExpired(c, now)
    IN  IF k \notin Keys(d) THEN d
        ELSE [d EXCEPT !.list = Append(WithoutKey(d.list, k),
                                  [key |-> k, val |-> Value(d, k), time |-> now])]

\* insert: the least recently used entry makes room.
Insert(c, k, v, now) ==
    LET kept == WithoutKey(RemoveExpired(c, now).list, k)
        room == IF Len(kept) >= Capacity THEN Tail(kept) ELSE kept
    IN  [c EXCEPT !.list = Append(room, [key |-> k, val |-> v, time |-> now])]

\* A bug for the checks: the sleep that was reset is not polled again, and
\* nothing wakes the task when it is over.
ClearNotPolledAgain(c, now) ==
    IF c.sleep <= now
      THEN [list |-> RemoveExpired(c, now).list, sleep |-> now + TTL, waker |-> FALSE]
      ELSE [c EXCEPT !.waker = TRUE]

\* The loop ends with a sleep that is pending and knows the waker.
poll_clear_expired(c, now) ==
    IF c.sleep <= now
      THEN [list |-> RemoveExpired(c, now).list, sleep |-> now + TTL, waker |-> TRUE]
      ELSE [c EXCEPT !.waker = TRUE]

\* The timer wakes the task.
Rings(c, now) == c.waker /\ c.sleep <= now
=============================================================================
