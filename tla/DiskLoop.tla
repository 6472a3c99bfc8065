------------------------------- MODULE DiskLoop -------------------------------
(***************************************************************************)
(* StableDisk::append_entries (raft-sim/src/storage.rs:33-57), entry by    *)
(* entry, as the reference for the closed form StableDisk.tla gives.       *)
(***************************************************************************)
EXTENDS StableDisk, SequencesExt

\* Bounds: indices, entries on the disk and in a call, and terms.
DiskMaxIndex == 3
DiskMaxLen   == 3
DiskTerms    == {1, 2}

\* One iteration.  A term that agrees leaves the disk as it is.
append_entry(state, e) ==
    LET l      == state.log_entries
        offset == e.index - first_index(l)
    IN  IF state.panic THEN state
        ELSE IF offset > Len(l) THEN [state EXCEPT !.panic = TRUE]
        ELSE IF offset < 0 \/ (offset < Len(l) /\ l[offset + 1].term = e.term)
        THEN state
        ELSE [state EXCEPT !.log_entries = Append(truncate(l, offset), e)]

append_loop(l, entries) ==
    FoldLeft(append_entry, [log_entries |-> l, panic |-> FALSE], entries)

\* Runs of consecutive entries that start at index i.
RunsAt(i) ==
    UNION {{[k \in 1..len |-> [index |-> i + k - 1, term |-> ts[k], command |-> Noop]] :
               ts \in [1..len -> DiskTerms]} : len \in 1..DiskMaxLen}

Runs == UNION {RunsAt(i) : i \in 0..DiskMaxIndex}

\* The loop panics exactly when the closed form does, and otherwise leaves on
\* the disk what the closed form says.
ASSUME ClosedFormIsLoop ==
    \A l, entries \in Runs :
        LET loop == append_loop(l, entries)
        IN  /\ loop.panic = append_panics(l, entries)
            /\ ~loop.panic => loop.log_entries = append_to(l, entries)
==============================================================================
