------------------------------- MODULE RaftLog -------------------------------
(***************************************************************************)
(* raft-core/src/log.rs: the in-memory log of a node, as pure operators.   *)
(*                                                                         *)
(* A log is the vector `entries` of the code: a non-empty sequence of      *)
(* [index, term, command] records whose first element is the sentinel (or  *)
(* snapshot base).  Every entry carries its own index, as in the code; the *)
(* arithmetic of term_at and of the truncations relies on the invariant    *)
(* the code comments on (entries[i].index = entries[0].index + i) and does *)
(* not re-establish it.                                                    *)
(***************************************************************************)
EXTENDS Integers, Sequences, FiniteSetsExt

CONSTANTS None,     \* Option::None
          Noop      \* the empty command vector

sentinel(i, t) == [index |-> i, term |-> t, command |-> Noop]

SnapshotMeta(i, t) == [last_included_index |-> i, last_included_term |-> t]

new_log == << sentinel(0, 0) >>

\* Mutants of restore_log: the base is not rebuilt, or rebuilt at zero.
restore_log_without_base(meta, entries) == entries
restore_log_at_zero(meta, entries) == << sentinel(0, 0) >> \o entries

restore_log(meta, entries) ==
    << sentinel(meta.last_included_index, meta.last_included_term) >> \o entries

last_index(l) == l[Len(l)].index

last_term(l) == l[Len(l)].term

first_index(l) == l[1].index

\* checked_sub and Vec::get: None below the base and past the end.
term_at(l, i) ==
    IF first_index(l) <= i /\ i - first_index(l) < Len(l)
    THEN l[i - first_index(l) + 1].term
    ELSE None

entry_at(l, i) ==
    IF first_index(l) <= i /\ i - first_index(l) < Len(l)
    THEN l[i - first_index(l) + 1]
    ELSE None

\* Vec::truncate: a length past the end leaves the vector alone.
truncate(l, len) == SubSeq(l, 1, IF len < Len(l) THEN len ELSE Len(l))

\* RaftLog::truncate_and_append; its assert is truncate_ok.
truncate_ok(l, from) == from > first_index(l)

truncate_and_append(l, from, entries) ==
    truncate(l, from - first_index(l)) \o entries

\* An empty slice when start lies past the end, everything after the
\* sentinel when start lies at or below the base.
entries_from(l, start) ==
    IF start <= first_index(l)
    THEN Tail(l)
    ELSE SubSeq(l, start - first_index(l) + 1, Len(l))

\* Mutants of compact: the entry at i is kept behind the sentinel that stands
\* for it; entries that are not committed yet go as well.
compact_keeping_base(l, i, t) ==
    IF i <= first_index(l) THEN l
    ELSE << sentinel(i, t) >> \o SubSeq(l, i - first_index(l) + 1, Len(l))
compact_everything(l, i, t) ==
    IF i <= first_index(l) THEN l ELSE << sentinel(i, t) >>

\* The entry at i becomes the new sentinel; past the end, nothing is kept.
compact(l, i, t) ==
    IF i <= first_index(l) THEN l
    ELSE << sentinel(i, t) >> \o SubSeq(l, i - first_index(l) + 2, Len(l))

\* RaftLog::install_snapshot forgets the whole log, also what follows i.
install_snapshot(i, t) == << sentinel(i, t) >>

------------------------------------------------------------------------------
\* The comment at log.rs:10.
Contiguous(l) == \A k \in 1..Len(l) : l[k].index = l[1].index + k - 1

\* What is left of a log whose entries up to its base are history.
EntriesAfter(l, base) == {l[k] : k \in {j \in 2..Len(l) : l[j].index > base}}
==============================================================================
