------------------------------ MODULE StableDisk ------------------------------
(***************************************************************************)
(* raft-sim/src/storage.rs: the simulated disk of one node, as operators   *)
(* on a record                                                             *)
(*   [current_term, voted_for, log_entries, snapshot]                      *)
(* where snapshot is None or a SnapshotMeta (the snapshot bytes are opaque *)
(* to every reader and are left out).                                      *)
(***************************************************************************)
EXTENDS RaftLog

new_disk == [current_term |-> 0, voted_for |-> None,
             log_entries |-> new_log, snapshot |-> None]

\* Mutant: the term is written, the vote is not.
write_term_only(d, t, v) == [d EXCEPT !.current_term = t, !.voted_for = None]

write_hard_state(d, t, v) == [d EXCEPT !.current_term = t, !.voted_for = v]

\* append_entries walks over the entries it is given, which are consecutive in
\* every call.  The ones below the base and the ones the disk already holds
\* with the same term change nothing; the first other one cuts the disk at its
\* place, and from there on every entry is pushed.  (The loop of the code, entry
\* by entry, is in module DiskLoop, which is compared with this form.)
new_on_disk(l, entries) ==
    {k \in 1..Len(entries) :
        LET offset == entries[k].index - first_index(l)
        IN  offset >= 0 /\ (offset >= Len(l) \/ l[offset + 1].term # entries[k].term)}

append_to(l, entries) ==
    LET new == new_on_disk(l, entries)
        k   == Min(new)
    IN  IF new = {} THEN l
        ELSE truncate(l, entries[k].index - first_index(l))
                 \o SubSeq(entries, k, Len(entries))

\* panic!("Non-contiguous disk write ...")
append_panics(l, entries) ==
    LET new == new_on_disk(l, entries)
    IN  new # {} /\ entries[Min(new)].index - first_index(l) > Len(l)

append_entries(d, entries) ==
    [d EXCEPT !.log_entries = append_to(@, entries)]

\* StableDisk::truncate_and_append with its assert.  At the base itself the
\* assert passes, and append_entries then indexes an empty vector.
disk_truncate(l, from) == truncate(l, from - first_index(l))

disk_truncate_and_append(d, from, entries) ==
    append_entries([d EXCEPT !.log_entries = disk_truncate(@, from)], entries)

disk_truncate_panics(d, from, entries) ==
    \/ from <= first_index(d.log_entries)
    \/ append_panics(disk_truncate(d.log_entries, from), entries)

\* Mutant: the metadata is not written.
write_cut_only(d, meta) ==
    [d EXCEPT !.log_entries = compact(@, meta.last_included_index,
                                         meta.last_included_term)]

\* Unlike RaftLog::install_snapshot, the entries after meta are kept.
write_snapshot(d, meta) ==
    [d EXCEPT !.snapshot = meta,
              !.log_entries = compact(@, meta.last_included_index,
                                         meta.last_included_term)]
==============================================================================
