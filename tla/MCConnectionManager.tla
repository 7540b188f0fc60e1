------------------------- MODULE MCConnectionManager -------------------------
(* ConnectionManager for TLC: the accounting property needs sums.          *)
EXTENDS ConnectionManager, TLC, SequencesExt

Symmetry == Permutations(Conns)

\* Units of direction d that events of u on the channel carry.
OnChannel(u, d) ==
    LET t == IF d = "down" THEN "Read" ELSE "Write"
    IN  FoldSeq(LAMBDA e, acc :
                  acc + (IF e.uuid = u /\ e.type = t THEN e.n ELSE 0),
                0, chan)

Waiting(u, d) == OnChannel(u, d) + unsent[u][d]

\* No unit is lost or counted twice: what went through a listed connection is
\* what its entry says plus what waits in its counters and on the channel, and
\* likewise for the totals over all connections.  It needs every report to
\* reach input_event between New and CloseConnection of its connection, else
\* the report is ignored.
BytesAccounted ==
    \A d \in Dirs :
      /\ \A u \in listed : moved[u][d] = count[u][d] + Waiting(u, d)
      /\ MapThenSumSet(LAMBDA u : moved[u][d] - Waiting(u, d), Conns) = total[d]
=============================================================================
