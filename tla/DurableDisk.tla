----------------------------- MODULE DurableDisk -----------------------------
(***************************************************************************)
(* raft-server/src/storage.rs: the hard state file and the write-ahead log *)
(* of one server, as operators on their contents.                          *)
(*                                                                         *)
(* The log file is a sequence of 4-byte words.  A record is the index and  *)
(* the term (two words each), the length of the command in bytes, the      *)
(* command and its checksum: six words and the command.  Commands are      *)
(* sequences of words, the empty one is the no-op; a command whose length  *)
(* is no multiple of four is left out.  Every write fills whole sectors.   *)
(***************************************************************************)
EXTENDS Integers, Sequences, SequencesExt

CONSTANTS None,
          Sector    \* words in a sector: 1024 in the code

ASSUME SectorAssumption == Sector \in Nat \ {0}

INSTANCE RaftLog WITH Noop <- << >>

Junk == 999       \* a word of a buffer that held something else before
Word == 2000      \* stands for 2^32, above every word that occurs

\* crc32fast::hash: zero for the empty command, and no small number otherwise.
crc(command) ==
    IF command = << >> THEN 0
    ELSE 1000 + FoldLeft(LAMBDA a, w : (31 * a + w + 1) % 997, 7, command)

record(e) == <<e.index, 0, e.term, 0, 4 * Len(e.command)>>
                 \o e.command \o <<crc(e.command)>>

\* Mutant: each record is followed by its checksum only if it has a command.
payload_without_crc(entries) ==
    FlattenSeq([k \in DOMAIN entries |->
                   IF entries[k].command = << >>
                   THEN <<entries[k].index, 0, entries[k].term, 0, 0>>
                   ELSE record(entries[k])])

payload(entries) == FlattenSeq([k \in DOMAIN entries |-> record(entries[k])])

\* AlignedBuffer::new rounds up to whole sectors and does not clear them: what
\* follows the payload are the zeros of a fresh page, leftovers of another use,
\* or the tail of the buffer that was freed last, if that had the same size.
buffers(words, freed) ==
    LET pad  == (-Len(words)) % Sector
        ends == {[k \in 1..pad |-> w] : w \in {0, Junk}}
                    \cup IF Len(freed) # Len(words) + pad THEN {}
                         ELSE {SubSeq(freed, Len(words) + 1, Len(freed))}
    IN  {words \o end : end \in ends}

\* replay_wal: record after record from the start, up to one that does not fit
\* or whose checksum is wrong.  It knows nothing of sectors.  A length that is
\* no multiple of four can only be met off a record's start, and is taken to
\* fail the checksum.
replay_wal(data) ==
    LET from[at \in 0..Len(data)] ==
            LET words   == data[at + 5] \div 4
                command == SubSeq(data, at + 6, at + 5 + words)
            IN  IF \/ at + 6 > Len(data)
                   \/ data[at + 5] % 4 # 0
                   \/ at + 6 + words > Len(data)
                   \/ crc(command) # data[at + 6 + words]
                THEN << >>
                ELSE <<[index   |-> data[at + 1] + Word * data[at + 2],
                        term    |-> data[at + 3] + Word * data[at + 4],
                        command |-> command]>> \o from[at + 6 + words]
    IN  from[0]

\* What truncate_and_append keeps: everything before the first entry at or
\* above from.
preserved(data, from) ==
    LET entries == replay_wal(data)
        keeps == {k \in 0..Len(entries) : \A j \in 1..k : entries[j].index < from}
    IN  SubSeq(entries, 1, Max(keeps))

\* Mutant: a vote that has been written is not read back.
read_term_only(hs) ==
    IF hs = None THEN [term |-> 0, voted_for |-> None]
    ELSE [term |-> hs.term, voted_for |-> None]

\* The hard state is one sector, written at once and overwritten in place; None
\* is stored as node 0.
write_hard_state(term, voted_for) ==
    [term |-> term, voted |-> IF voted_for = None THEN 0 ELSE voted_for]

read_hard_state(hs) ==
    IF hs = None THEN [term |-> 0, voted_for |-> None]
    ELSE [term |-> hs.term, voted_for |-> IF hs.voted = 0 THEN None ELSE hs.voted]

\* main.rs: the log a server starts with.
recovered_log(data) == restore_log(SnapshotMeta(0, 0), replay_wal(data))
==============================================================================
