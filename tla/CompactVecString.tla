---------------------------- MODULE CompactVecString ----------------------------
(***************************************************************************)
(* CompactVecString of src/rd-interface/src/config/compact_vec_string.rs:  *)
(* a list of strings kept in one buffer with the start of each.  A string  *)
(* is a sequence of tokens; the path of a config field, the name generated *)
(* for a nested net and the net_list of a Context are kept this way.       *)
(***************************************************************************)
EXTENDS Integers, Sequences, SequencesExt

EmptyStrings == [underlying |-> <<>>, index |-> <<>>]

push(c, s) == [underlying |-> c.underlying \o s,
               index |-> Append(c.index, Len(c.underlying))]

\* A bug for the checks: a string ends where the buffer does.
GetToEnd(c, i) == SubSeq(c.underlying, c.index[i] + 1, Len(c.underlying))

\* The i-th string (from 1) reaches to the start of the next or to the end.
get(c, i) ==
    LET end == IF i < Len(c.index) THEN c.index[i + 1] ELSE Len(c.underlying)
    IN  SubSeq(c.underlying, c.index[i] + 1, end)

\* iter
Strings(c) == [i \in 1..Len(c.index) |-> get(c, i)]

extend(c, ss) == FoldLeft(push, c, ss)
from_iter(ss) == extend(EmptyStrings, ss)

\* join, the delimiter left out: a delimiter in a string separates tokens too.
join(c) == FlattenSeq(Strings(c))
=============================================================================
