--------------------------- MODULE SimulatorProofs ---------------------------
(***************************************************************************)
(* Type correctness of the simulated cluster, at most one leader per term  *)
(* and votes that no crash undoes, for every set of servers and commands   *)
(* and every value of the bounds.  First come the lemmas about the         *)
(* operators on logs, disks and messages that all proofs about it use.     *)
(***************************************************************************)
EXTENDS Simulator, SequenceTheorems, FiniteSetTheorems, WellFoundedInduction, TLAPS

------------------------------------------------------------------------------
(* Minimum and maximum of sets of naturals.                                 *)

NatLess == {ss \in Nat \X Nat : ss[1] < ss[2]}

\* A non-empty set of naturals has a least element.
LEMMA LeastExists ==
    ASSUME NEW S, S \subseteq Nat, S # {}
    PROVE  \E x \in S : \A y \in S : x <= y
<1>1. IsWellFoundedOn(NatLess, Nat)
    BY NatLessThanWellFounded DEF NatLess, OpToRel
<1>2. PICK x \in S : \A y \in S : ~(<<y, x>> \in NatLess)
    BY <1>1, WFMin
<1>3. \A y \in S : ~(y < x)
  <2> SUFFICES ASSUME NEW y \in S, y < x PROVE FALSE
      OBVIOUS
  <2>1. y \in Nat /\ x \in Nat
      OBVIOUS
  <2>2. <<y, x>> \in NatLess
      BY <2>1 DEF NatLess
  <2> QED BY <1>2, <2>2
<1>4. \A y \in S : x <= y
    BY <1>3
<1> QED BY <1>4

\* Min of the community modules picks it.
LEMMA MinIn ==
    ASSUME NEW S, S \subseteq Nat, S # {}
    PROVE  Min(S) \in S /\ \A y \in S : Min(S) <= y
BY LeastExists DEF Min

\* Max picks the greatest element of a non-empty bounded set.
LEMMA MaxIn ==
    ASSUME NEW S, S \subseteq Nat, S # {}, NEW b \in Nat, \A x \in S : x <= b
    PROVE  Max(S) \in S /\ \A y \in S : y <= Max(S)
<1> DEFINE T == {y \in Nat : b - y \in S}
<1>1. T \subseteq Nat /\ T # {}
  <2>1. PICK x \in S : TRUE
      OBVIOUS
  <2>2. b - x \in Nat /\ b - (b - x) = x
      BY <2>1
  <2> QED BY <2>1, <2>2
<1>2. Min(T) \in T /\ \A y \in T : Min(T) <= y
  <2> HIDE DEF T
  <2> QED BY <1>1, MinIn
<1> DEFINE z == b - Min(T)
<1>4. z \in S
    BY <1>2
<1>5. \A x \in S : x <= z
  <2> SUFFICES ASSUME NEW x \in S PROVE x <= z
      OBVIOUS
  <2>1. b - x \in T
      BY x \in Nat, b - x \in Nat, b - (b - x) = x
  <2>2. Min(T) <= b - x
      BY <2>1, <1>2
  <2> QED BY <2>2, <1>2
<1> HIDE DEF z
<1>6. \E x \in S : \A y \in S : x >= y
  <2>1. \A y \in S : z >= y
      BY <1>4, <1>5
  <2> QED BY <1>4, <2>1
<1> QED BY <1>6 DEF Max

------------------------------------------------------------------------------
\* A log is never empty, so last_index, last_term and the base are defined.
LEMMA LogType ==
    ASSUME NEW l \in Log
    PROVE  /\ l \in Seq(LogEntry) /\ Len(l) \in Nat /\ Len(l) >= 1
           /\ last_index(l) \in Nat /\ last_term(l) \in Nat
           /\ first_index(l) \in Nat /\ l[1].term \in Nat
           /\ \A k \in 1..Len(l) : l[k] \in LogEntry
<1>1. l \in Seq(LogEntry) /\ Len(l) \in Nat /\ Len(l) >= 1
    BY EmptySeq DEF Log
<1>2. \A k \in 1..Len(l) : l[k] \in LogEntry
    BY <1>1
<1> QED BY <1>1, <1>2 DEF last_index, last_term, first_index, LogEntry

\* Two runs of entries, not both empty, make a log.
LEMMA ConcatLog ==
    ASSUME NEW s \in Seq(LogEntry), NEW t \in Seq(LogEntry), s # << >> \/ t # << >>
    PROVE  s \o t \in Log
BY ConcatProperties, ConcatEqualIffEmpty DEF Log

\* Vec::push keeps a log a log.
LEMMA AppendLog ==
    ASSUME NEW l \in Log, NEW e \in LogEntry
    PROVE  Append(l, e) \in Log
<1>1. l \in Seq(LogEntry)
    BY LogType
<1>2. Append(l, e) \in Seq(LogEntry) /\ Append(l, e) # << >>
    BY <1>1, AppendProperties
<1> QED BY <1>2 DEF Log

\* A sentinel alone is a log.
LEMMA SentinelLog ==
    ASSUME NEW i \in Nat, NEW t \in Nat
    PROVE  sentinel(i, t) \in LogEntry /\ << sentinel(i, t) >> \in Log
<1>1. sentinel(i, t) \in LogEntry
    BY DEF sentinel, LogEntry
<1> QED BY <1>1 DEF Log

\* A new entry of a leader is an entry.
LEMMA EntryType ==
    ASSUME NEW i \in Nat, NEW t \in Nat, NEW c \in Command \cup {Noop}
    PROVE  Entry(i, t, c) \in LogEntry
BY DEF Entry, LogEntry

\* A suffix of a run of entries is a run of entries.
LEMMA SubSeqType ==
    ASSUME NEW s \in Seq(LogEntry), NEW m \in Nat, m >= 1
    PROVE  SubSeq(s, m, Len(s)) \in Seq(LogEntry)
<1>1. Len(s) \in Int /\ \A i \in m..Len(s) : s[i] \in LogEntry
    OBVIOUS
<1> QED BY <1>1, SubSeqProperties

\* term_at answers a term or None, and None below the base.
LEMMA TermAtType ==
    ASSUME NEW l \in Log, NEW i \in Int
    PROVE  /\ term_at(l, i) \in OptNat
           /\ term_at(l, i) # None => first_index(l) <= i
<1>1. CASE first_index(l) <= i /\ i - first_index(l) < Len(l)
  <2>1. i - first_index(l) + 1 \in 1..Len(l)
      BY <1>1, LogType
  <2>2. l[i - first_index(l) + 1] \in LogEntry
      BY <2>1, LogType
  <2> QED BY <1>1, <2>2 DEF term_at, OptNat, LogEntry
<1>2. CASE ~(first_index(l) <= i /\ i - first_index(l) < Len(l))
    BY <1>2 DEF term_at, OptNat
<1> QED BY <1>1, <1>2

\* Vec::truncate to one element or more leaves a log.
LEMMA TruncateType ==
    ASSUME NEW l \in Log, NEW k \in Int
    PROVE  /\ truncate(l, k) \in Seq(LogEntry)
           /\ k >= 1 => truncate(l, k) \in Log
<1> DEFINE n == IF k < Len(l) THEN k ELSE Len(l)
<1>1. n \in Int /\ n <= Len(l) /\ (k >= 1 => n >= 1)
    BY LogType
<1>2. \A i \in 1..n : l[i] \in LogEntry
    BY <1>1, LogType
<1>3. truncate(l, k) = SubSeq(l, 1, n)
    BY DEF truncate
<1> HIDE DEF n
<1>4. /\ SubSeq(l, 1, n) \in Seq(LogEntry)
      /\ Len(SubSeq(l, 1, n)) = IF 1 <= n THEN n - 1 + 1 ELSE 0
    BY <1>1, <1>2, SubSeqProperties
<1>5. k >= 1 => SubSeq(l, 1, n) # << >>
    BY <1>1, <1>4
<1> QED BY <1>3, <1>4, <1>5 DEF Log

\* entries_from returns entries.
LEMMA EntriesFromType ==
    ASSUME NEW l \in Log, NEW i \in Nat
    PROVE  entries_from(l, i) \in Seq(LogEntry)
<1>1. l \in Seq(LogEntry) /\ l # << >> /\ first_index(l) \in Nat
    BY LogType DEF Log
<1>2. CASE i <= first_index(l)
    BY <1>1, <1>2, HeadTailProperties DEF entries_from
<1>3. CASE ~(i <= first_index(l))
  <2>1. i - first_index(l) + 1 \in Nat /\ i - first_index(l) + 1 >= 1
      BY <1>1, <1>3
  <2> QED BY <1>1, <1>3, <2>1, SubSeqType DEF entries_from
<1> QED BY <1>2, <1>3

\* compact leaves a log.
LEMMA CompactType ==
    ASSUME NEW l \in Log, NEW i \in Nat, NEW t \in Nat
    PROVE  compact(l, i, t) \in Log
<1>1. CASE i <= first_index(l)
    BY <1>1 DEF compact
<1>2. CASE ~(i <= first_index(l))
  <2>1. i - first_index(l) + 2 \in Nat /\ i - first_index(l) + 2 >= 1
      BY <1>2, LogType
  <2>2. SubSeq(l, i - first_index(l) + 2, Len(l)) \in Seq(LogEntry)
      BY <2>1, LogType, SubSeqType
  <2>3. << sentinel(i, t) >> \in Seq(LogEntry) /\ << sentinel(i, t) >> # << >>
      BY SentinelLog DEF Log
  <2> QED BY <1>2, <2>2, <2>3, ConcatLog DEF compact
<1> QED BY <1>1, <1>2

\* A log rebuilt from disk is a log.
LEMMA RestoreType ==
    ASSUME NEW i \in Nat, NEW t \in Nat, NEW es \in Seq(LogEntry)
    PROVE  restore_log(SnapshotMeta(i, t), es) \in Log
<1>1. << sentinel(i, t) >> \in Seq(LogEntry) /\ << sentinel(i, t) >> # << >>
    BY SentinelLog DEF Log
<1> QED BY <1>1, ConcatLog DEF restore_log, SnapshotMeta

\* truncate_and_append of some entries leaves a log.
LEMMA TruncateAndAppendType ==
    ASSUME NEW l \in Log, NEW i \in Nat, NEW es \in Seq(LogEntry), es # << >>
    PROVE  truncate_and_append(l, i, es) \in Log
<1>1. truncate(l, i - first_index(l)) \in Seq(LogEntry)
    BY LogType, TruncateType
<1> QED BY <1>1, ConcatLog DEF truncate_and_append

------------------------------------------------------------------------------
(* The disk.                                                                *)

\* StableDisk::append_entries leaves a log on disk.
LEMMA AppendToType ==
    ASSUME NEW l \in Log, NEW es \in Seq(LogEntry)
    PROVE  append_to(l, es) \in Log
<1> DEFINE new == new_on_disk(l, es)
           k   == Min(new)
<1>1. CASE new = {}
    BY <1>1 DEF append_to
<1>2. CASE new # {}
  <2>1. new \subseteq 1..Len(es) /\ Len(es) \in Nat
      BY DEF new_on_disk
  <2>2. k \in 1..Len(es)
      BY <1>2, <2>1, MinIn
  <2> HIDE DEF k
  <2>3. es[k] \in LogEntry
      BY <2>2
  <2>4. es[k].index \in Nat
      BY <2>3 DEF LogEntry
  <2>5. truncate(l, es[k].index - first_index(l)) \in Seq(LogEntry)
    <3>1. es[k].index - first_index(l) \in Int
        BY <2>4, LogType
    <3> QED BY <3>1, TruncateType
  <2>6. SubSeq(es, k, Len(es)) \in Seq(LogEntry) /\ SubSeq(es, k, Len(es)) # << >>
    <3>1. \A i \in k..Len(es) : es[i] \in LogEntry
        BY <2>1, <2>2
    <3>2. /\ SubSeq(es, k, Len(es)) \in Seq(LogEntry)
          /\ Len(SubSeq(es, k, Len(es))) = IF k <= Len(es) THEN Len(es) - k + 1 ELSE 0
        BY <2>1, <2>2, <3>1, SubSeqProperties
    <3>3. k <= Len(es) /\ k \in Int
        BY <2>1, <2>2
    <3>4. Len(SubSeq(es, k, Len(es))) # 0
        BY <2>1, <3>2, <3>3
    <3> QED BY <3>2, <3>4, EmptySeq
  <2>7. append_to(l, es) = truncate(l, es[k].index - first_index(l))
                              \o SubSeq(es, k, Len(es))
      BY <1>2 DEF append_to, k
  <2> QED BY <2>5, <2>6, <2>7, ConcatLog
<1> QED BY <1>1, <1>2

\* The fields of a disk.
LEMMA DiskType ==
    ASSUME NEW d \in Disk
    PROVE  /\ d.current_term \in Nat /\ d.voted_for \in OptServer
           /\ d.log_entries \in Log
           /\ d.snapshot # None => /\ d.snapshot.last_included_index \in Nat
                                  /\ d.snapshot.last_included_term \in Nat
BY DEF Disk

\* A fresh log and a fresh disk.
LEMMA NewDiskType == new_log \in Log /\ new_disk \in Disk
<1>1. new_log \in Log
    BY SentinelLog DEF new_log
<1> QED BY <1>1 DEF new_disk, Disk, OptServer

\* Writing the hard state stores term and vote and nothing else.
LEMMA HardStateType ==
    ASSUME NEW d \in Disk, NEW t \in Nat, NEW v \in OptServer
    PROVE  /\ write_hard_state(d, t, v) \in Disk
           /\ write_hard_state(d, t, v).current_term = t
           /\ write_hard_state(d, t, v).voted_for = v
           /\ write_hard_state(d, t, v).log_entries = d.log_entries
BY DEF Disk, write_hard_state

\* Appending to the disk leaves the hard state alone.
LEMMA AppendEntriesType ==
    ASSUME NEW d \in Disk, NEW es \in Seq(LogEntry)
    PROVE  /\ append_entries(d, es) \in Disk
           /\ append_entries(d, es).current_term = d.current_term
           /\ append_entries(d, es).voted_for = d.voted_for
<1>1. append_to(d.log_entries, es) \in Log
    BY DiskType, AppendToType
<1> QED BY <1>1 DEF append_entries, Disk

\* So does truncating and appending, when the assert of the code passes.
LEMMA DiskTruncateType ==
    ASSUME NEW d \in Disk, NEW i \in Nat, NEW es \in Seq(LogEntry),
           ~disk_truncate_panics(d, i, es)
    PROVE  /\ disk_truncate_and_append(d, i, es) \in Disk
           /\ disk_truncate_and_append(d, i, es).current_term = d.current_term
           /\ disk_truncate_and_append(d, i, es).voted_for = d.voted_for
<1> DEFINE l == d.log_entries
           c == [d EXCEPT !.log_entries = disk_truncate(@, i)]
<1>1. l \in Log /\ first_index(l) \in Nat
    BY DiskType, LogType
<1>2. i - first_index(l) \in Int /\ i - first_index(l) >= 1
    BY <1>1 DEF disk_truncate_panics
<1>3. disk_truncate(l, i) \in Log
  <2> HIDE DEF l
  <2> QED BY <1>1, <1>2, TruncateType DEF disk_truncate
<1>4. c \in Disk /\ c.current_term = d.current_term /\ c.voted_for = d.voted_for
    BY <1>3 DEF Disk
<1>5. disk_truncate_and_append(d, i, es) = append_entries(c, es)
    BY DEF disk_truncate_and_append
<1> HIDE DEF c
<1> QED BY <1>4, <1>5, AppendEntriesType

\* So does writing a snapshot.
LEMMA WriteSnapshotType ==
    ASSUME NEW d \in Disk, NEW i \in Nat, NEW t \in Nat
    PROVE  /\ write_snapshot(d, SnapshotMeta(i, t)) \in Disk
           /\ write_snapshot(d, SnapshotMeta(i, t)).current_term = d.current_term
           /\ write_snapshot(d, SnapshotMeta(i, t)).voted_for = d.voted_for
<1>1. compact(d.log_entries, i, t) \in Log
    BY DiskType, CompactType
<1> QED BY <1>1 DEF write_snapshot, SnapshotMeta, Disk

------------------------------------------------------------------------------
(* Messages.                                                                *)

\* The constructors build messages: a vote request,
LEMMA VoteType ==
    ASSUME NEW k \in {"PreVote", "RequestVote"}, NEW n \in Server, NEW p \in Server,
           NEW t \in Nat, NEW l \in Log
    PROVE  Vote(k, n, p, t, l) \in Message
BY LogType DEF Vote, Message

\* the answer to one,
LEMMA VoteResponseType ==
    ASSUME NEW k \in Refusals, NEW n \in Server, NEW p \in Server,
           NEW t \in Nat, NEW g \in BOOLEAN
    PROVE  VoteResponse(k, n, p, t, g) \in Message
BY DEF VoteResponse, Message

\* the answer to AppendEntries,
LEMMA AppendResponseType ==
    ASSUME NEW n \in Server, NEW p \in Server, NEW t \in Nat, NEW ok \in BOOLEAN,
           NEW ct \in OptNat, NEW ci \in OptNat
    PROVE  AppendResponse(n, p, t, ok, ct, ci) \in Message
BY DEF AppendResponse, Message

\* the answer to InstallSnapshot,
LEMMA SnapshotResponseType ==
    ASSUME NEW n \in Server, NEW p \in Server, NEW t \in Nat
    PROVE  SnapshotResponse(n, p, t) \in Message
BY DEF SnapshotResponse, Message

\* and what replicate_to_peer sends, which is no answer to a vote request.
LEMMA ReplicateType ==
    ASSUME NEW n \in Server, NEW p \in Server, NEW t \in Nat, NEW l \in Log,
           NEW c \in Nat, NEW next \in Nat
    PROVE  /\ replicate_to_peer(n, p, t, l, c, next) \in Message
           /\ replicate_to_peer(n, p, t, l, c, next).kind \notin Refusals
<1>1. CASE next <= first_index(l)
    BY <1>1, LogType DEF replicate_to_peer, Message, Refusals
<1>2. CASE ~(next <= first_index(l))
  <2>1. next - 1 \in Nat
      BY <1>2, LogType
  <2>2. entries_from(l, next) \in Seq(LogEntry)
      BY EntriesFromType
  <2>3. (IF term_at(l, next - 1) = None THEN 0 ELSE term_at(l, next - 1)) \in Nat
      BY <2>1, TermAtType DEF OptNat
  <2> QED BY <1>2, <2>1, <2>2, <2>3 DEF replicate_to_peer, Message, Refusals
<1> QED BY <1>1, <1>2

\* The same for a broadcast.
LEMMA BroadcastType ==
    ASSUME NEW n \in Server, NEW t \in Nat, NEW l \in Log,
           NEW c \in Nat, NEW next \in [Server -> Nat]
    PROVE  \A x \in broadcast(n, t, l, c, next) :
               x \in Message /\ x.kind \notin Refusals
<1> SUFFICES ASSUME NEW p \in Peers(n)
             PROVE  LET x == replicate_to_peer(n, p, t, l, c, next[p])
                    IN  x \in Message /\ x.kind \notin Refusals
    BY DEF broadcast
<1>1. p \in Server /\ next[p] \in Nat
    BY DEF Peers
<1> QED BY <1>1, ReplicateType

------------------------------------------------------------------------------
(* Helpers of the handlers.                                                 *)

\* The greatest of some prefix lengths, the empty prefix among them.
LEMMA PrefixLengths ==
    ASSUME NEW len \in Nat, NEW S, S \subseteq 0..len, 0 \in S
    PROVE  Max(S) \in 0..len
<1>1. S \subseteq Nat /\ S # {} /\ \A x \in S : x <= len
    OBVIOUS
<1>2. Max(S) \in S
    BY <1>1, MaxIn
<1> QED BY <1>2

\* apply_committed_entries hands over entries and stops at an index.
LEMMA ToApplyType ==
    ASSUME NEW l \in Log, NEW from \in Nat, NEW commit \in Nat
    PROVE  /\ to_apply(l, from, commit) \in Seq(LogEntry)
           /\ applied_up_to(l, from, commit) \in Nat
<1> DEFINE es == entries_from(l, from + 1)
           takes == {k \in 0..Len(es) : \A j \in 1..k : es[j].index <= commit}
           m == Max(takes)
<1>1. es \in Seq(LogEntry) /\ Len(es) \in Nat
    BY EntriesFromType
<1> HIDE DEF es
<1>2. m \in 0..Len(es)
  <2>1. takes \subseteq 0..Len(es) /\ 0 \in takes
      BY <1>1
  <2> HIDE DEF takes
  <2> QED BY <1>1, <2>1, PrefixLengths
<1>3. to_apply(l, from, commit) = SubSeq(es, 1, m)
    BY DEF to_apply, es
<1> HIDE DEF m
<1>4. SubSeq(es, 1, m) \in Seq(LogEntry)
  <2>1. m \in Int /\ \A i \in 1..m : es[i] \in LogEntry
      BY <1>1, <1>2
  <2> QED BY <2>1, SubSeqProperties
<1>5. to_apply(l, from, commit) \in Seq(LogEntry)
    BY <1>3, <1>4
<1>6. to_apply(l, from, commit) # << >> => last_index(to_apply(l, from, commit)) \in Nat
  <2> SUFFICES ASSUME to_apply(l, from, commit) # << >>
               PROVE  last_index(to_apply(l, from, commit)) \in Nat
      OBVIOUS
  <2>1. to_apply(l, from, commit) \in Log
      BY <1>5 DEF Log
  <2> QED BY <2>1, LogType
<1> QED BY <1>5, <1>6 DEF applied_up_to

\* The count of entries already held is a count of entries.
LEMMA AlreadyHeldType ==
    ASSUME NEW l, NEW es \in Seq(LogEntry)
    PROVE  already_held(l, es) \in 0..Len(es)
<1> DEFINE S == {k \in 0..Len(es) : \A j \in 1..k : term_at(l, es[j].index) = es[j].term}
<1>1. S \subseteq 0..Len(es) /\ 0 \in S /\ Len(es) \in Nat
    OBVIOUS
<1>2. already_held(l, es) = Max(S)
    BY DEF already_held
<1> HIDE DEF S
<1> QED BY <1>1, <1>2, PrefixLengths

\* The run of a conflicting term starts at an index.
LEMMA FirstOfRunType ==
    ASSUME NEW l \in Log, NEW i \in Nat, NEW t, term_at(l, i) = t, t # None
    PROVE  first_of_run(l, i, t) \in Nat
<1> DEFINE S == {j \in first_index(l)..i : \A k \in j..i : term_at(l, k) = t}
<1>1. first_index(l) \in Nat /\ first_index(l) <= i
    BY LogType, TermAtType
<1>2. i \in S /\ S \subseteq Nat
    BY <1>1
<1>3. first_of_run(l, i, t) = Min(S)
    BY DEF first_of_run
<1> HIDE DEF S
<1>4. Min(S) \in S
    BY <1>2, MinIn
<1> QED BY <1>2, <1>3, <1>4

\* Backtracking a rejected leader stays in the naturals.
LEMMA BacktrackedType ==
    ASSUME NEW l \in Log, NEW next \in Nat, NEW m,
           m.conflict_term \in OptNat, m.conflict_index \in OptNat
    PROVE  backtracked_next(l, next, m) \in Nat
<1> DEFINE same == {i \in first_index(l)..last_index(l) :
                        term_at(l, i) = m.conflict_term}
<1>1. first_index(l) \in Nat /\ last_index(l) \in Nat
    BY LogType
<1>2. same \subseteq Nat /\ \A i \in same : i <= last_index(l)
    BY <1>1
<1>3. same # {} => Max(same) \in Nat
  <2> HIDE DEF same
  <2> QED BY <1>1, <1>2, MaxIn
<1> DEFINE i == IF m.conflict_term # None /\ same # {} THEN Max(same) + 1
                ELSE IF m.conflict_index # None THEN m.conflict_index
                ELSE IF m.conflict_term # None THEN 1
                ELSE next - 1
<1>4. backtracked_next(l, next, m) = Max2(i, 1)
    BY DEF backtracked_next
<1> HIDE DEF same
<1>5. i \in Int
    BY <1>3 DEF OptNat
<1> HIDE DEF i
<1> QED BY <1>4, <1>5 DEF Max2

\* So does advancing the commit index.
LEMMA AdvancedCommitType ==
    ASSUME NEW n \in Server, NEW match, log[n] \in Log, commit_index[n] \in Nat
    PROVE  advanced_commit(n, match) \in Nat
<1> DEFINE ready == {i \in commit_index[n]+1 .. last_index(log[n]) :
                        /\ term_at(log[n], i) = current_term[n]
                        /\ Cardinality({n} \cup {p \in Peers(n) : match[p] >= i}) >= majority}
<1>1. last_index(log[n]) \in Nat
    BY LogType
<1>2. ready \subseteq Nat /\ \A i \in ready : i <= last_index(log[n])
    BY <1>1
<1>3. advanced_commit(n, match) = IF ready = {} THEN commit_index[n] ELSE Max(ready)
    BY DEF advanced_commit
<1> HIDE DEF ready
<1>4. ready # {} => Max(ready) \in Nat
    BY <1>1, <1>2, MaxIn
<1> QED BY <1>3, <1>4

------------------------------------------------------------------------------
(* The actions of the simulator.                                            *)

\* The fields of a message of each kind.
LEMMA MessageFields ==
    ASSUME NEW m \in Message
    PROVE  /\ m.from \in Server /\ m.to \in Server /\ m.term \in Nat
           /\ m.kind \in Refusals => m.vote_granted \in BOOLEAN
           /\ m.kind = "AppendEntries" =>
                  /\ m.prev_log_index \in Nat /\ m.prev_log_term \in Nat
                  /\ m.entries \in Seq(LogEntry) /\ m.leader_commit \in Nat
           /\ m.kind = "AppendEntriesResponse" =>
                  /\ m.success \in BOOLEAN
                  /\ m.conflict_term \in OptNat /\ m.conflict_index \in OptNat
           /\ m.kind = "InstallSnapshot" =>
                  m.last_included_index \in Nat /\ m.last_included_term \in Nat
BY DEF Message, Refusals

\* What a handler leaves in flight is what was there, and its answers.
LEMMA HandleType ==
    ASSUME TypeOK, NEW n, NEW m, NEW t, NEW A, A \subseteq Message, Handle(n, m, t, A)
    PROVE  in_flight' \subseteq Message
BY DEF TypeOK, Handle

\* The same for a step that answers no message.
LEMMA SendType ==
    ASSUME TypeOK, NEW n, NEW A, A \subseteq Message, Send(n, A)
    PROVE  in_flight' \subseteq Message
BY DEF TypeOK, Send

\* Applying committed entries keeps indices natural and applies entries only.
LEMMA CommitToType ==
    ASSUME TypeOK, NEW n \in Server, NEW l \in Log, NEW c \in Nat, CommitTo(n, l, c)
    PROVE  /\ commit_index' \in [Server -> Nat] /\ last_applied' \in [Server -> Nat]
           /\ applied' \in SUBSET LogEntry
<1>1. last_applied[n] \in Nat
    BY DEF TypeOK
<1> DEFINE es == to_apply(l, last_applied[n], c)
<1>2. es \in Seq(LogEntry) /\ applied_up_to(l, last_applied[n], c) \in Nat
    BY <1>1, ToApplyType
<1>3. {es[k] : k \in DOMAIN es} \subseteq LogEntry
  <2> HIDE DEF es
  <2> QED BY <1>2
<1>4. CASE c <= commit_index[n]
    BY <1>4 DEF CommitTo, TypeOK
<1>5. CASE ~(c <= commit_index[n])
  <2>1. /\ commit_index' = [commit_index EXCEPT ![n] = c]
        /\ last_applied' = [last_applied EXCEPT ![n] = applied_up_to(l, last_applied[n], c)]
        /\ applied' = IF c > last_applied[n]
                      THEN applied \cup {es[k] : k \in DOMAIN es} ELSE applied
      BY <1>5 DEF CommitTo
  <2> HIDE DEF es
  <2> QED BY <1>2, <1>3, <2>1 DEF TypeOK
<1> QED BY <1>4, <1>5

\* The disk after the term of a message has been taken over.
LEMMA HardStateSeenType ==
    ASSUME TypeOK, NEW n \in Server, NEW m \in Message
    PROVE  hard_state_seen(n, m) \in Disk
<1>1. disk[n] \in Disk /\ m.term \in Nat /\ None \in OptServer
    BY MessageFields DEF TypeOK, OptServer
<1> QED BY <1>1, HardStateType DEF hard_state_seen

\* The variables of the term, after Observe and after Follow.
TermVarsOK ==
    /\ role \in [Server -> {"Follower", "PreCandidate", "Candidate", "Leader"}]
    /\ current_term \in [Server -> Nat] /\ voted_for \in [Server -> OptServer]
    /\ leader_id \in [Server -> OptServer] /\ lease_fresh \in [Server -> BOOLEAN]

\* Taking over the term of a message keeps the types.
LEMMA ObserveType ==
    ASSUME TypeOK, NEW n \in Server, NEW m \in Message, Observe(n, m)
    PROVE  TermVarsOK' /\ disk' \in [Server -> Disk]
<1>1. m.term \in Nat /\ hard_state_seen(n, m) \in Disk
    BY MessageFields, HardStateSeenType
<1>2. /\ vote_seen(n, m) \in OptServer /\ leader_seen(n, m) \in OptServer
      /\ role_seen(n, m) \in {"Follower", "PreCandidate", "Candidate", "Leader"}
    BY DEF TypeOK, vote_seen, leader_seen, role_seen, OptServer
<1>3. fresh_seen(n, m) \in BOOLEAN
    BY DEF TypeOK, fresh_seen
<1> QED BY <1>1, <1>2, <1>3 DEF TypeOK, Observe, TermVarsOK

\* So does becoming a follower of its sender.
LEMMA FollowType ==
    ASSUME TypeOK, NEW n \in Server, NEW m \in Message, Follow(n, m)
    PROVE  TermVarsOK'
<1>1. m.term \in Nat /\ m.from \in OptServer
    BY MessageFields DEF OptServer
<1>2. vote_seen(n, m) \in OptServer
    BY DEF TypeOK, vote_seen, OptServer
<1> QED BY <1>1, <1>2 DEF TypeOK, Follow, TermVarsOK

------------------------------------------------------------------------------
\* The initial state has its type.
LEMMA InitType == Init => TypeOK
<1> SUFFICES ASSUME Init PROVE TypeOK
    OBVIOUS
<1>1. None \in OptServer
    BY DEF OptServer
<1> QED BY <1>1, NewDiskType DEF Init, TypeOK

\* An election timeout keeps the types.
LEMMA TimeoutType ==
    ASSUME TypeOK, NEW n \in Server, tick_election_timeout(n)
    PROVE  TypeOK'
<1>1. current_term[n] + 1 \in Nat /\ log[n] \in Log
    BY DEF TypeOK
<1>2. {Vote("PreVote", n, p, current_term[n] + 1, log[n]) : p \in Peers(n)}
          \subseteq Message
    BY <1>1, VoteType DEF Peers
<1>3. in_flight' \subseteq Message
    BY <1>2, SendType DEF tick_election_timeout, start_pre_vote
<1>4. timeouts' \in Nat
    BY DEF TypeOK, tick_election_timeout, Spend
<1> QED BY <1>3, <1>4 DEF TypeOK, tick_election_timeout, start_pre_vote,
        leaderVars, logVars, histVars

\* So does a heartbeat.
LEMMA HeartbeatType ==
    ASSUME TypeOK, NEW n \in Server, tick_leader(n)
    PROVE  TypeOK'
<1>1. /\ current_term[n] \in Nat /\ log[n] \in Log /\ commit_index[n] \in Nat
      /\ next_index[n] \in [Server -> Nat]
    BY DEF TypeOK
<1>2. broadcast(n, current_term[n], log[n], commit_index[n], next_index[n]) \subseteq Message
    BY <1>1, BroadcastType
<1>3. in_flight' \subseteq Message
    BY <1>2, SendType DEF tick_leader, tick_heartbeat
<1>4. heartbeats' \in Nat
    BY DEF TypeOK, tick_leader, Spend
<1> QED BY <1>3, <1>4 DEF TypeOK, tick_leader, tick_heartbeat, termVars, voteVars,
        leaderVars, logVars, histVars

\* So does a lapse of the lease.
LEMMA LapseType ==
    ASSUME TypeOK, NEW n \in Server, tick_idle(n)
    PROVE  TypeOK'
BY DEF TypeOK, tick_idle, tick_lease_lapses, voteVars, leaderVars, logVars,
       histVars, simVars

\* So does a proposal.
LEMMA ProposeType ==
    ASSUME TypeOK, NEW n \in Server, NEW c \in Command, propose_command(n, c)
    PROVE  TypeOK'
<1> DEFINE entry == Entry(last_index(log[n]) + 1, current_term[n], c)
           l == Append(log[n], entry)
<1>1. /\ current_term[n] \in Nat /\ log[n] \in Log /\ commit_index[n] \in Nat
      /\ next_index[n] \in [Server -> Nat] /\ disk[n] \in Disk
    BY DEF TypeOK
<1>2. entry \in LogEntry
  <2>1. last_index(log[n]) + 1 \in Nat /\ c \in Command \cup {Noop}
      BY <1>1, LogType
  <2> QED BY <1>1, <2>1, EntryType
<1>3. l \in Log /\ << entry >> \in Seq(LogEntry)
  <2> HIDE DEF entry
  <2> QED BY <1>1, <1>2, AppendLog
<1>4. broadcast(n, current_term[n], l, commit_index[n], next_index[n]) \subseteq Message
  <2> HIDE DEF l
  <2> QED BY <1>1, <1>3, BroadcastType
<1>5. in_flight' \subseteq Message
    BY <1>4, SendType DEF propose_command, propose
<1>6. append_entries(disk[n], << entry >>) \in Disk
    BY <1>1, <1>3, AppendEntriesType
<1>7. panicked' \in BOOLEAN
    BY DEF propose_command, propose
<1>8. log' = [log EXCEPT ![n] = l] /\ disk' = [disk EXCEPT ![n] = append_entries(disk[n], << entry >>)]
    BY DEF propose_command, propose
<1>9. log' \in [Server -> Log] /\ disk' \in [Server -> Disk]
  <2> HIDE DEF l, entry
  <2> QED BY <1>3, <1>6, <1>8 DEF TypeOK
<1> QED BY <1>5, <1>7, <1>9 DEF TypeOK, propose_command, propose, termVars, voteVars,
        leaderVars, histVars

\* So does a compaction.
LEMMA CompactionType ==
    ASSUME TypeOK, NEW n \in Server, compaction_pass(n)
    PROVE  TypeOK'
<1>1. log[n] \in Log /\ commit_index[n] \in Nat /\ disk[n] \in Disk
    BY DEF TypeOK
<1> DEFINE i == commit_index[n]
           t == IF term_at(log[n], i) = None THEN 0 ELSE term_at(log[n], i)
<1>2. t \in Nat
    BY <1>1, TermAtType DEF OptNat
<1>3. log' = [log EXCEPT ![n] = compact(log[n], i, t)]
      /\ disk' = [disk EXCEPT ![n] = write_snapshot(disk[n], SnapshotMeta(i, t))]
    BY DEF compaction_pass, compact_logs
<1> HIDE DEF i, t
<1>4. i \in Nat
    BY <1>1 DEF i
<1>5. compact(log[n], i, t) \in Log /\ write_snapshot(disk[n], SnapshotMeta(i, t)) \in Disk
    BY <1>1, <1>2, <1>4, CompactType, WriteSnapshotType
<1>6. log' \in [Server -> Log] /\ disk' \in [Server -> Disk]
    BY <1>3, <1>5 DEF TypeOK
<1> QED BY <1>6 DEF TypeOK, compaction_pass, compact_logs, termVars, voteVars,
        leaderVars, histVars, simVars

\* So does a restart from disk.
LEMMA SpawnType ==
    ASSUME TypeOK, NEW n \in Server, spawn_node(n)
    PROVE  TypeOK'
<1> DEFINE d == disk[n]
           meta == IF d.snapshot = None THEN SnapshotMeta(0, 0) ELSE d.snapshot
<1>1. d \in Disk
    BY DEF TypeOK
<1>2. /\ d.current_term \in Nat /\ d.voted_for \in OptServer /\ d.log_entries \in Log
      /\ d.snapshot # None => d.snapshot \in [last_included_index : Nat, last_included_term : Nat]
    BY <1>1 DEF Disk
<1>3. PICK i \in Nat, u \in Nat : meta = SnapshotMeta(i, u)
  <2>1. CASE d.snapshot = None
      BY <2>1
  <2>2. CASE d.snapshot # None
      BY <1>2, <2>2 DEF SnapshotMeta
  <2> QED BY <2>1, <2>2
<1>4. Tail(d.log_entries) \in Seq(LogEntry)
    BY <1>2, HeadTailProperties DEF Log
<1>5. restore_log(meta, Tail(d.log_entries)) \in Log
    BY <1>3, <1>4, RestoreType
<1>6. meta.last_included_index \in Nat
    BY <1>3 DEF SnapshotMeta
<1>7. /\ alive' = alive \cup {n}
      /\ current_term' = [current_term EXCEPT ![n] = d.current_term]
      /\ voted_for' = [voted_for EXCEPT ![n] = d.voted_for]
      /\ log' = [log EXCEPT ![n] = restore_log(meta, Tail(d.log_entries))]
      /\ commit_index' = [commit_index EXCEPT ![n] = meta.last_included_index]
      /\ last_applied' = [last_applied EXCEPT ![n] = meta.last_included_index]
    BY DEF spawn_node, restore
<1> HIDE DEF d, meta
<1>8. /\ alive' \in SUBSET Server /\ current_term' \in [Server -> Nat]
      /\ voted_for' \in [Server -> OptServer] /\ log' \in [Server -> Log]
      /\ commit_index' \in [Server -> Nat] /\ last_applied' \in [Server -> Nat]
    BY <1>2, <1>5, <1>6, <1>7 DEF TypeOK
<1>9. None \in OptServer
    BY DEF OptServer
<1> QED BY <1>8, <1>9 DEF TypeOK, spawn_node, restore, histVars

\* Crashes and losses touch no typed value but their counters.
LEMMA FaultType ==
    ASSUME TypeOK, \/ \E n \in Server : crash_node(n)
                   \/ \E m \in in_flight : drop_message(m)
    PROVE  TypeOK'
<1>1. ASSUME NEW n \in Server, crash_node(n) PROVE TypeOK'
    BY <1>1 DEF TypeOK, crash_node, nodeVars, termVars, voteVars, leaderVars,
       logVars, histVars
<1>2. ASSUME NEW m \in in_flight, drop_message(m) PROVE TypeOK'
    BY <1>2 DEF TypeOK, drop_message, termVars, voteVars, leaderVars, logVars, histVars
<1> QED BY <1>1, <1>2

------------------------------------------------------------------------------
(* The handlers of step().                                                  *)

\* Answering a pre-vote keeps the types.
LEMMA PreVoteType ==
    ASSUME TypeOK, NEW n \in Server, NEW m \in Message,
           handle_pre_vote(n, m), UNCHANGED simVars
    PROVE  TypeOK'
<1>1. m.from \in Server /\ current_term[n] \in Nat
    BY MessageFields DEF TypeOK
<1>2. pre_vote_granted(n, m) \in BOOLEAN
    BY DEF pre_vote_granted
<1>3. VoteResponse("PreVoteResponse", n, m.from, current_term[n], pre_vote_granted(n, m))
          \in Message
    BY <1>1, <1>2, VoteResponseType DEF Refusals
<1>4. in_flight' \subseteq Message
    BY <1>3, HandleType DEF handle_pre_vote
<1> QED BY <1>4 DEF TypeOK, handle_pre_vote, termVars, voteVars, leaderVars, logVars,
        histVars, simVars

\* So does counting a pre-vote and starting the election it completes,
LEMMA PreVoteResponseType ==
    ASSUME TypeOK, NEW n \in Server, NEW m \in Message,
           handle_pre_vote_response(n, m), UNCHANGED simVars
    PROVE  TypeOK'
<1>1. m.from \in Server /\ current_term[n] + 1 \in Nat /\ log[n] \in Log
      /\ disk[n] \in Disk /\ n \in OptServer
    BY MessageFields DEF TypeOK, OptServer
<1> DEFINE granted == pre_votes_received[n] \cup {m.from}
           t == current_term[n] + 1
<1>2. granted \in SUBSET Server
    BY <1>1 DEF TypeOK
<1>3. CASE counts_pre_vote(n, m) /\ Cardinality(granted) >= majority
  <2>1. start_real_election(n, m)
        /\ pre_votes_received' = [pre_votes_received EXCEPT ![n] = granted]
      BY <1>3 DEF handle_pre_vote_response
  <2>2. {Vote("RequestVote", n, p, t, log[n]) : p \in Peers(n)} \subseteq Message
      BY <1>1, VoteType DEF Peers
  <2>3. in_flight' \subseteq Message
      BY <2>1, <2>2, HandleType DEF start_real_election
  <2>4. write_hard_state(disk[n], t, n) \in Disk
      BY <1>1, HardStateType
  <2>5. disk' \in [Server -> Disk]
      BY <2>1, <2>4 DEF start_real_election, TypeOK
  <2>6. [voter |-> n, term |-> t, candidate |-> n]
            \in [voter : Server, term : Nat, candidate : Server]
      BY <1>1
  <2> QED BY <1>1, <1>2, <2>1, <2>3, <2>5, <2>6 DEF TypeOK, start_real_election,
          leaderVars, logVars, simVars
<1>4. CASE ~(counts_pre_vote(n, m) /\ Cardinality(granted) >= majority)
  <2>1. in_flight' \subseteq Message
    <3>1. Handle(n, m, current_term[n], {})
        BY <1>4 DEF handle_pre_vote_response
    <3> QED BY <3>1, HandleType
  <2>2. pre_votes_received' \in [Server -> SUBSET Server]
      BY <1>2, <1>4 DEF handle_pre_vote_response, TypeOK, voteVars
  <2>3. UNCHANGED <<termVars, votes_received, leaderVars, logVars, disk, panicked, histVars>>
      BY <1>4 DEF handle_pre_vote_response, voteVars
  <2> QED BY <2>1, <2>2, <2>3 DEF TypeOK, termVars, leaderVars, logVars, histVars, simVars
<1> QED BY <1>3, <1>4

\* answering a vote request,
LEMMA RequestVoteType ==
    ASSUME TypeOK, NEW n \in Server, NEW m \in Message,
           handle_request_vote(n, m), UNCHANGED simVars
    PROVE  TypeOK'
<1> DEFINE grant == vote_granted(n, m)
<1>1. m.from \in Server /\ m.from \in OptServer /\ m.term \in Nat /\ disk[n] \in Disk
    BY MessageFields DEF TypeOK, OptServer
<1>2. grant \in BOOLEAN
    BY DEF vote_granted
<1>3. VoteResponse("RequestVoteResponse", n, m.from, m.term, grant) \in Message
  <2> HIDE DEF grant
  <2> QED BY <1>1, <1>2, VoteResponseType DEF Refusals
<1>4. in_flight' \subseteq Message
    BY <1>3, HandleType DEF handle_request_vote
<1>5. /\ vote_seen(n, m) \in OptServer /\ leader_seen(n, m) \in OptServer
      /\ role_seen(n, m) \in {"Follower", "PreCandidate", "Candidate", "Leader"}
    BY DEF TypeOK, vote_seen, leader_seen, role_seen, OptServer
<1>6. fresh_seen(n, m) \in BOOLEAN
    BY DEF TypeOK, fresh_seen
<1>7. lease_fresh' \in [Server -> BOOLEAN]
  <2>1. (grant \/ fresh_seen(n, m)) \in BOOLEAN
      BY <1>2, <1>6
  <2> QED BY <2>1 DEF TypeOK, handle_request_vote
<1>8. disk' \in [Server -> Disk]
    BY <1>1, HardStateType, HardStateSeenType DEF TypeOK, handle_request_vote
<1>9. ballots' \in SUBSET [voter : Server, term : Nat, candidate : Server]
    BY <1>1 DEF TypeOK, handle_request_vote
<1> QED BY <1>1, <1>4, <1>5, <1>7, <1>8, <1>9 DEF TypeOK, handle_request_vote,
        voteVars, leaderVars, logVars, simVars

\* becoming leader,
LEMMA BecomeLeaderType ==
    ASSUME TypeOK, NEW n \in Server, NEW m \in Message, become_leader(n, m),
           votes_received' \in [Server -> SUBSET Server],
           UNCHANGED pre_votes_received, UNCHANGED simVars
    PROVE  TypeOK'
<1> DEFINE last == last_index(log[n])
           noop == Entry(last + 1, current_term[n], Noop)
           next == [p \in Server |-> last + 1]
           l    == Append(log[n], noop)
<1>1. /\ current_term[n] \in Nat /\ log[n] \in Log /\ commit_index[n] \in Nat
      /\ disk[n] \in Disk /\ last \in Nat
    BY LogType DEF TypeOK
<1> HIDE DEF last
<1>2. noop \in LogEntry /\ << noop >> \in Seq(LogEntry)
    BY <1>1, EntryType
<1>3. next \in [Server -> Nat]
    BY <1>1
<1>4. l \in Log
  <2> HIDE DEF noop
  <2> QED BY <1>1, <1>2, AppendLog
<1>5. broadcast(n, current_term[n], l, commit_index[n], next) \subseteq Message
  <2> HIDE DEF l, next
  <2> QED BY <1>1, <1>3, <1>4, BroadcastType
<1>6. in_flight' \subseteq Message
    BY <1>5, HandleType DEF become_leader, last
<1>7. append_entries(disk[n], << noop >>) \in Disk
    BY <1>1, <1>2, AppendEntriesType
<1>8. /\ next_index' = [next_index EXCEPT ![n] = next]
      /\ log' = [log EXCEPT ![n] = l]
      /\ disk' = [disk EXCEPT ![n] = append_entries(disk[n], << noop >>)]
    BY DEF become_leader, last
<1>9. /\ next_index' \in [Server -> [Server -> Nat]] /\ log' \in [Server -> Log]
      /\ disk' \in [Server -> Disk]
  <2> HIDE DEF next, l, noop
  <2> QED BY <1>3, <1>4, <1>7, <1>8 DEF TypeOK
<1>10. panicked' \in BOOLEAN
    BY DEF become_leader
<1>11. n \in OptServer /\ <<current_term[n], n>> \in Nat \X Server
       /\ [p \in Server |-> 0] \in [Server -> Nat]
    BY <1>1 DEF OptServer
<1> QED BY <1>6, <1>9, <1>10, <1>11 DEF TypeOK, become_leader, simVars

\* counting a vote,
LEMMA RequestVoteResponseType ==
    ASSUME TypeOK, NEW n \in Server, NEW m \in Message,
           handle_request_vote_response(n, m), UNCHANGED simVars
    PROVE  TypeOK'
<1> DEFINE granted == votes_received[n] \cup {m.from}
<1>1. granted \in SUBSET Server
    BY MessageFields DEF TypeOK
<1>2. UNCHANGED pre_votes_received
    BY DEF handle_request_vote_response
<1>3. CASE counts_vote(n, m)
  <2>1. votes_received' = [votes_received EXCEPT ![n] = granted]
      BY <1>3 DEF handle_request_vote_response
  <2>2. votes_received' \in [Server -> SUBSET Server]
      BY <1>1, <2>1 DEF TypeOK
  <2>3. CASE Cardinality(granted) >= majority
    <3>1. become_leader(n, m)
        BY <1>3, <2>3 DEF handle_request_vote_response
    <3> QED BY <1>2, <2>2, <3>1, BecomeLeaderType
  <2>4. CASE ~(Cardinality(granted) >= majority)
    <3>1. /\ Handle(n, m, m.term, {})
          /\ UNCHANGED <<termVars, leaderVars, logVars, disk, panicked, histVars>>
        BY <1>3, <2>4 DEF handle_request_vote_response
    <3>2. in_flight' \subseteq Message
        BY <3>1, HandleType
    <3> QED BY <1>2, <2>2, <3>1, <3>2 DEF TypeOK, termVars, leaderVars, logVars,
            histVars, simVars
  <2> QED BY <2>3, <2>4
<1>4. CASE ~counts_vote(n, m)
  <2>1. /\ Observe(n, m) /\ Handle(n, m, m.term, {})
        /\ UNCHANGED <<votes_received, leaderVars, logVars, panicked, histVars>>
      BY <1>4 DEF handle_request_vote_response
  <2>2. in_flight' \subseteq Message /\ TermVarsOK' /\ disk' \in [Server -> Disk]
      BY <2>1, HandleType, ObserveType
  <2> QED BY <1>2, <2>1, <2>2 DEF TypeOK, TermVarsOK, leaderVars, logVars, histVars, simVars
<1> QED BY <1>3, <1>4

\* rejecting AppendEntries,
LEMMA RejectType ==
    ASSUME TypeOK, NEW n \in Server, NEW m \in Message,
           \/ handle_append_entries_missing(n, m)
           \/ handle_append_entries_conflict(n, m),
           UNCHANGED simVars
    PROVE  TypeOK'
<1>1. m.kind = "AppendEntries"
    BY DEF handle_append_entries_missing, handle_append_entries_conflict, Receives
<1>2. /\ m.from \in Server /\ m.term \in Nat /\ m.prev_log_index \in Nat
      /\ log[n] \in Log /\ last_index(log[n]) + 1 \in OptNat /\ None \in OptNat
  <2>1. log[n] \in Log
      BY DEF TypeOK
  <2>2. last_index(log[n]) + 1 \in Nat
      BY <2>1, LogType
  <2> QED BY <1>1, <2>1, <2>2, MessageFields DEF OptNat
<1>3. TermVarsOK'
    BY FollowType DEF handle_append_entries_missing, handle_append_entries_conflict
<1>4. disk' \in [Server -> Disk]
  <2>1. disk' = [disk EXCEPT ![n] = hard_state_seen(n, m)]
      BY DEF handle_append_entries_missing, handle_append_entries_conflict
  <2> QED BY <2>1, HardStateSeenType DEF TypeOK
<1>5. in_flight' \subseteq Message
  <2>1. CASE handle_append_entries_missing(n, m)
    <3>1. AppendResponse(n, m.from, m.term, FALSE, None, last_index(log[n]) + 1) \in Message
        BY <1>2, AppendResponseType
    <3> QED BY <2>1, <3>1, HandleType DEF handle_append_entries_missing
  <2>2. CASE handle_append_entries_conflict(n, m)
    <3> DEFINE t == term_at(log[n], m.prev_log_index)
    <3>1. t \in OptNat /\ t # None
        BY <1>2, <2>2, TermAtType DEF handle_append_entries_conflict
    <3>2. first_of_run(log[n], m.prev_log_index, t) \in OptNat
        BY <1>2, <3>1, FirstOfRunType DEF OptNat
    <3>3. AppendResponse(n, m.from, m.term, FALSE, t,
                         first_of_run(log[n], m.prev_log_index, t)) \in Message
      <4> HIDE DEF t
      <4> QED BY <1>2, <3>1, <3>2, AppendResponseType
    <3>4. Handle(n, m, m.term, {AppendResponse(n, m.from, m.term, FALSE, t,
                         first_of_run(log[n], m.prev_log_index, t))})
        BY <2>2 DEF handle_append_entries_conflict
    <3> HIDE DEF t
    <3> QED BY <3>3, <3>4, HandleType
  <2> QED BY <2>1, <2>2
<1>6. UNCHANGED <<voteVars, leaderVars, logVars, panicked, histVars>>
    BY DEF handle_append_entries_missing, handle_append_entries_conflict
<1> QED BY <1>3, <1>4, <1>5, <1>6 DEF TypeOK, TermVarsOK, voteVars, leaderVars, logVars,
        histVars, simVars

\* What is left of a message's entries, and the index it starts at.
LEMMA SuffixType ==
    ASSUME NEW l, NEW es \in Seq(LogEntry)
    PROVE  LET held   == already_held(l, es)
               suffix == SubSeq(es, held + 1, Len(es))
           IN  /\ suffix \in Seq(LogEntry)
               /\ suffix # << >> => es[1].index + held \in Nat
<1> DEFINE held   == already_held(l, es)
           suffix == SubSeq(es, held + 1, Len(es))
<1>1. held \in 0..Len(es) /\ Len(es) \in Nat
    BY AlreadyHeldType
<1> HIDE DEF held
<1>2. suffix \in Seq(LogEntry)
  <2>1. held + 1 \in Nat /\ held + 1 >= 1
      BY <1>1
  <2> QED BY <2>1, SubSeqType
<1>3. ASSUME suffix # << >> PROVE es[1].index + held \in Nat
  <2>1. Len(es) >= 1
    <3> SUFFICES ASSUME Len(es) = 0 PROVE FALSE
        BY <1>1
    <3>1. held + 1 = 1
        BY <1>1
    <3>2. \A i \in 1..0 : es[i] \in LogEntry
        OBVIOUS
    <3>3. Len(SubSeq(es, 1, 0)) = 0 /\ SubSeq(es, 1, 0) \in Seq(LogEntry)
        BY <3>2, SubSeqProperties
    <3> QED BY <1>3, <3>1, <3>3, EmptySeq
  <2>2. es[1] \in LogEntry
      BY <2>1
  <2>3. es[1].index \in Nat
      BY <2>2 DEF LogEntry
  <2> QED BY <1>1, <2>3
<1> QED BY <1>2, <1>3 DEF held

\* accepting it: the cut in memory may panic, the one on disk is guarded,
LEMMA AcceptType ==
    ASSUME TypeOK, NEW n \in Server, NEW m \in Message,
           handle_append_entries_accept(n, m), UNCHANGED simVars
    PROVE  TypeOK'
<1> DEFINE held   == already_held(log[n], m.entries)
           suffix == SubSeq(m.entries, held + 1, Len(m.entries))
           attach == m.entries[1].index + held
           l      == IF suffix = << >> THEN log[n]
                     ELSE truncate_and_append(log[n], attach, suffix)
           d      == hard_state_seen(n, m)
           panics == /\ suffix # << >>
                     /\ \/ ~truncate_ok(log[n], attach)
                        \/ disk_truncate_panics(d, attach, suffix)
           commit == Min2(m.leader_commit, last_index(l))
           dn     == IF suffix = << >> \/ panics THEN d
                     ELSE disk_truncate_and_append(d, attach, suffix)
<1>1. m.kind = "AppendEntries"
    BY DEF handle_append_entries_accept, Receives
<1>2. /\ m.from \in Server /\ m.term \in Nat /\ m.prev_log_index \in Nat
      /\ m.entries \in Seq(LogEntry) /\ m.leader_commit \in Nat /\ log[n] \in Log
    BY <1>1, MessageFields DEF TypeOK
<1>3. /\ Follow(n, m)
      /\ log' = [log EXCEPT ![n] = l]
      /\ disk' = [disk EXCEPT ![n] = dn]
      /\ panicked' = (panicked \/ panics)
      /\ CommitTo(n, l, commit)
      /\ Handle(n, m, m.term, {AppendResponse(n, m.from, m.term, TRUE, None, None)})
      /\ acked' = acked \cup {[node |-> n, term |-> m.term,
                               index |-> m.prev_log_index + Len(m.entries)]}
      /\ UNCHANGED <<voteVars, leaderVars, term_leaders, ballots, unsupported>>
    BY DEF handle_append_entries_accept
<1>4. held \in 0..Len(m.entries) /\ Len(m.entries) \in Nat
    BY <1>2, AlreadyHeldType
<1>5. d \in Disk
    BY HardStateSeenType
<1>6. panics \in BOOLEAN
    OBVIOUS
<1> HIDE DEF held, d
<1>7. suffix \in Seq(LogEntry) /\ (suffix # << >> => attach \in Nat)
    BY <1>2, SuffixType DEF held
<1> HIDE DEF suffix, attach
<1>9. l \in Log
    BY <1>2, <1>7, TruncateAndAppendType
<1>10. dn \in Disk
  <2>1. CASE suffix = << >> \/ panics
      BY <1>5, <2>1
  <2>2. CASE ~(suffix = << >> \/ panics)
      BY <1>5, <1>7, <2>2, DiskTruncateType
  <2> QED BY <2>1, <2>2
<1> HIDE DEF l, dn, panics
<1>11. commit \in Nat
    BY <1>2, <1>9, LogType DEF Min2
<1> HIDE DEF commit
<1>12. /\ commit_index' \in [Server -> Nat] /\ last_applied' \in [Server -> Nat]
       /\ applied' \in SUBSET LogEntry
    BY <1>3, <1>9, <1>11, CommitToType
<1>13. log' \in [Server -> Log] /\ disk' \in [Server -> Disk] /\ TermVarsOK'
    BY <1>3, <1>9, <1>10, FollowType DEF TypeOK
<1>14. in_flight' \subseteq Message
  <2>1. None \in OptNat
      BY DEF OptNat
  <2>2. AppendResponse(n, m.from, m.term, TRUE, None, None) \in Message
      BY <1>2, <2>1, AppendResponseType
  <2> QED BY <1>3, <2>2, HandleType
<1>15. panicked' \in BOOLEAN
    BY <1>3
<1>16. acked' \in SUBSET [node : Server, term : Nat, index : Nat]
  <2>1. m.prev_log_index + Len(m.entries) \in Nat
      BY <1>2, <1>4
  <2>2. [node |-> n, term |-> m.term, index |-> m.prev_log_index + Len(m.entries)]
            \in [node : Server, term : Nat, index : Nat]
      BY <1>2, <2>1
  <2> QED BY <1>3, <2>2 DEF TypeOK
<1> QED BY <1>3, <1>12, <1>13, <1>14, <1>15, <1>16 DEF TypeOK, TermVarsOK, voteVars,
        leaderVars, simVars

\* taking an answer to it,
LEMMA AppendEntriesResponseType ==
    ASSUME TypeOK, NEW n \in Server, NEW m \in Message,
           handle_append_entries_response(n, m), UNCHANGED simVars
    PROVE  TypeOK'
<1> DEFINE leads == role[n] = "Leader" /\ m.term = current_term[n]
           last  == last_index(log[n])
           match == [match_index[n] EXCEPT ![m.from] = last]
           commit == advanced_commit(n, match)
           next  == backtracked_next(log[n], next_index[n][m.from], m)
<1>1. m.kind = "AppendEntriesResponse"
    BY DEF handle_append_entries_response, Receives
<1>2. /\ m.from \in Server /\ m.term \in Nat /\ m.success \in BOOLEAN
      /\ m.conflict_term \in OptNat /\ m.conflict_index \in OptNat
      /\ log[n] \in Log /\ commit_index[n] \in Nat /\ current_term[n] \in Nat
      /\ next_index[n] \in [Server -> Nat] /\ match_index[n] \in [Server -> Nat]
    BY <1>1, MessageFields DEF TypeOK
<1>3. last \in Nat
    BY <1>2, LogType
<1>4. UNCHANGED <<voteVars, log, panicked, term_leaders, ballots, acked>>
    BY DEF handle_append_entries_response
<1>5. CASE /\ next_index' = [next_index EXCEPT ![n][m.from] = last + 1]
           /\ match_index' = [match_index EXCEPT ![n] = match]
           /\ CommitTo(n, log[n], commit)
           /\ unsupported' = (unsupported \/ (/\ commit > commit_index[n]
                                              /\ ~Supported(n, commit)))
           /\ Handle(n, m, m.term, {})
           /\ UNCHANGED <<termVars, disk>>
  <2> HIDE DEF last
  <2>1. match \in [Server -> Nat]
      BY <1>2, <1>3
  <2> HIDE DEF match
  <2>2. commit \in Nat
      BY <1>2, AdvancedCommitType
  <2> HIDE DEF commit
  <2>3. /\ commit_index' \in [Server -> Nat] /\ last_applied' \in [Server -> Nat]
        /\ applied' \in SUBSET LogEntry
      BY <1>2, <1>5, <2>2, CommitToType
  <2>4. in_flight' \subseteq Message
      BY <1>5, HandleType
  <2>5. unsupported' \in BOOLEAN
      BY <1>5
  <2>6. next_index' \in [Server -> [Server -> Nat]] /\ match_index' \in [Server -> [Server -> Nat]]
    <3>1. last + 1 \in Nat
        BY <1>3
    <3> QED BY <1>2, <1>5, <2>1, <3>1 DEF TypeOK
  <2> QED BY <1>4, <1>5, <2>3, <2>4, <2>5, <2>6 DEF TypeOK, termVars, voteVars, simVars
<1>6. CASE /\ next_index' = [next_index EXCEPT ![n][m.from] = next]
           /\ Handle(n, m, m.term, {replicate_to_peer(n, m.from, current_term[n], log[n],
                                           commit_index[n], next)})
           /\ UNCHANGED <<termVars, match_index, commit_index, last_applied,
                          applied, disk, unsupported>>
  <2>1. next \in Nat
      BY <1>2, BacktrackedType
  <2> HIDE DEF next
  <2>2. replicate_to_peer(n, m.from, current_term[n], log[n], commit_index[n], next) \in Message
      BY <1>2, <2>1, ReplicateType
  <2>3. in_flight' \subseteq Message
      BY <1>6, <2>2, HandleType
  <2>4. next_index' \in [Server -> [Server -> Nat]]
      BY <1>2, <1>6, <2>1 DEF TypeOK
  <2> QED BY <1>4, <1>6, <2>3, <2>4 DEF TypeOK, termVars, voteVars, simVars
<1>7. CASE /\ Observe(n, m)
           /\ Handle(n, m, m.term, {})
           /\ UNCHANGED <<leaderVars, commit_index, last_applied, applied, unsupported>>
  <2>1. in_flight' \subseteq Message /\ TermVarsOK' /\ disk' \in [Server -> Disk]
      BY <1>7, HandleType, ObserveType
  <2> QED BY <1>4, <1>7, <2>1 DEF TypeOK, TermVarsOK, leaderVars, voteVars, simVars
<1> QED BY <1>5, <1>6, <1>7 DEF handle_append_entries_response

\* installing a snapshot
LEMMA InstallSnapshotType ==
    ASSUME TypeOK, NEW n \in Server, NEW m \in Message,
           handle_install_snapshot(n, m), UNCHANGED simVars
    PROVE  TypeOK'
<1> DEFINE i == m.last_included_index
           u == m.last_included_term
           d == hard_state_seen(n, m)
<1>1. m.kind = "InstallSnapshot"
    BY DEF handle_install_snapshot, Receives
<1>2. m.from \in Server /\ m.term \in Nat /\ i \in Nat /\ u \in Nat /\ d \in Disk
    BY <1>1, MessageFields, HardStateSeenType
<1>3. install_snapshot(i, u) \in Log /\ write_snapshot(d, SnapshotMeta(i, u)) \in Disk
  <2> HIDE DEF i, u, d
  <2> QED BY <1>2, SentinelLog, WriteSnapshotType DEF install_snapshot
<1>4. in_flight' \subseteq Message
  <2>1. SnapshotResponse(n, m.from, m.term) \in Message
      BY <1>2, SnapshotResponseType
  <2> QED BY <2>1, HandleType DEF handle_install_snapshot
<1>5. TermVarsOK'
    BY FollowType DEF handle_install_snapshot
<1>6. /\ log' \in [Server -> Log] /\ disk' \in [Server -> Disk]
      /\ commit_index' \in [Server -> Nat] /\ last_applied' \in [Server -> Nat]
  <2>1. CASE i <= commit_index[n]
      BY <1>2, <2>1 DEF TypeOK, handle_install_snapshot
  <2>2. CASE ~(i <= commit_index[n])
    <3>1. /\ log' = [log EXCEPT ![n] = install_snapshot(i, u)]
          /\ commit_index' = [commit_index EXCEPT ![n] = i]
          /\ last_applied' = [last_applied EXCEPT ![n] = i]
          /\ disk' = [disk EXCEPT ![n] = write_snapshot(d, SnapshotMeta(i, u))]
        BY <2>2 DEF handle_install_snapshot
    <3> HIDE DEF i, u, d
    <3> QED BY <1>2, <1>3, <3>1 DEF TypeOK
  <2> QED BY <2>1, <2>2
<1> QED BY <1>4, <1>5, <1>6 DEF TypeOK, TermVarsOK, handle_install_snapshot, voteVars,
        leaderVars, histVars, simVars

\* and taking the answer to one.
LEMMA InstallSnapshotResponseType ==
    ASSUME TypeOK, NEW n \in Server, NEW m \in Message,
           handle_install_snapshot_response(n, m), UNCHANGED simVars
    PROVE  TypeOK'
<1> DEFINE first == first_index(log[n])
           match == [match_index[n] EXCEPT ![m.from] = first]
<1>1. /\ m.from \in Server /\ log[n] \in Log /\ commit_index[n] \in Nat
      /\ next_index[n] \in [Server -> Nat] /\ match_index[n] \in [Server -> Nat]
    BY MessageFields DEF TypeOK
<1>2. first \in Nat
    BY <1>1, LogType
<1>3. UNCHANGED <<voteVars, log, panicked, histVars>> /\ in_flight' \subseteq Message
    BY HandleType DEF handle_install_snapshot_response
<1>4. CASE role[n] = "Leader" /\ m.term = current_term[n]
  <2>1. /\ match_index' = [match_index EXCEPT ![n] = match]
        /\ next_index' = [next_index EXCEPT ![n][m.from] = first + 1]
        /\ CommitTo(n, log[n], advanced_commit(n, match))
        /\ UNCHANGED <<termVars, disk>>
      BY <1>4 DEF handle_install_snapshot_response
  <2> HIDE DEF first
  <2>2. match \in [Server -> Nat]
      BY <1>1, <1>2
  <2> HIDE DEF match
  <2>3. advanced_commit(n, match) \in Nat
      BY <1>1, AdvancedCommitType
  <2>4. /\ commit_index' \in [Server -> Nat] /\ last_applied' \in [Server -> Nat]
        /\ applied' \in SUBSET LogEntry
      BY <1>1, <2>1, <2>3, CommitToType
  <2>5. next_index' \in [Server -> [Server -> Nat]] /\ match_index' \in [Server -> [Server -> Nat]]
    <3>1. first + 1 \in Nat
        BY <1>2
    <3> QED BY <1>1, <2>1, <2>2, <3>1 DEF TypeOK
  <2> QED BY <1>3, <2>1, <2>4, <2>5 DEF TypeOK, termVars, voteVars, histVars, simVars
<1>5. CASE ~(role[n] = "Leader" /\ m.term = current_term[n])
  <2>1. Observe(n, m) /\ UNCHANGED <<leaderVars, commit_index, last_applied, applied>>
      BY <1>5 DEF handle_install_snapshot_response
  <2>2. TermVarsOK' /\ disk' \in [Server -> Disk]
      BY <2>1, ObserveType
  <2> QED BY <1>3, <2>1, <2>2 DEF TypeOK, TermVarsOK, leaderVars, voteVars, histVars, simVars
<1> QED BY <1>4, <1>5

------------------------------------------------------------------------------
\* A delivered message is handled by the handler of its kind.
LEMMA DeliverType ==
    ASSUME TypeOK, NEW m \in in_flight, Deliver(m.to, m)
    PROVE  TypeOK'
<1>1. m \in Message
    BY DEF TypeOK
<1>2. m.to \in Server /\ UNCHANGED simVars
    BY <1>1, MessageFields DEF Deliver
<1> QED BY <1>1, <1>2, PreVoteType, PreVoteResponseType, RequestVoteType,
        RequestVoteResponseType, RejectType, AcceptType, AppendEntriesResponseType,
        InstallSnapshotType, InstallSnapshotResponseType DEF Deliver

\* Every step of the cluster keeps every variable in its type.
LEMMA NextType == TypeOK /\ [Next]_vars => TypeOK'
<1> SUFFICES ASSUME TypeOK, [Next]_vars PROVE TypeOK'
    OBVIOUS
<1>1. CASE Next
    BY <1>1, LapseType, TimeoutType, HeartbeatType, ProposeType, CompactionType,
       FaultType, SpawnType, DeliverType DEF Next
<1>2. CASE UNCHANGED vars
    BY <1>2 DEF TypeOK, vars, nodeVars, termVars, voteVars, leaderVars, logVars,
       histVars, simVars
<1> QED BY <1>1, <1>2

\* Type correctness of the whole cluster: the log of a node and of its disk is
\* never empty, whatever is truncated, compacted, installed or restored, so
\* that last_index, last_term and the base are always defined, and every index
\* that is computed by a subtraction is a natural number.
THEOREM TypeCorrect == Spec => []TypeOK
<1> QED BY InitType, NextType, PTL DEF Spec

------------------------------------------------------------------------------
(* Elections.  ElectionSafety is not inductive: it says nothing of how a    *)
(* leader came about.  ElectionInv follows a vote from the voter's disk     *)
(* through the answer in flight to the candidate's count, and ends in the   *)
(* quorum that elected each leader.                                         *)

Ballot(p, t, c) == [voter |-> p, term |-> t, candidate |-> c]

\* What a restart would read back is what the node knows.
HardStateOnDisk ==
    \A n \in Server : /\ disk[n].current_term = current_term[n]
                      /\ disk[n].voted_for = voted_for[n]

\* A voter has not gone back behind a vote it cast.
BallotsKept ==
    \A b \in ballots :
        /\ b.term <= current_term[b.voter]
        /\ b.term = current_term[b.voter] => voted_for[b.voter] = b.candidate

OneBallotPerTerm ==
    \A b, c \in ballots :
        b.voter = c.voter /\ b.term = c.term => b.candidate = c.candidate

IsGrant(m) == m.kind = "RequestVoteResponse" /\ m.vote_granted

\* No answer grants a vote that was not cast.
GrantsWereCast ==
    \A m \in in_flight : IsGrant(m) => Ballot(m.from, m.term, m.to) \in ballots

\* A candidate counts votes of its own term only.
CountedWereCast ==
    \A n \in Server : role[n] = "Candidate" =>
        \A p \in votes_received[n] : Ballot(p, current_term[n], n) \in ballots

ElectedBy(Q, t, n) ==
    Cardinality(Q) >= majority /\ \A p \in Q : Ballot(p, t, n) \in ballots

LeadersWereElected ==
    \A a \in term_leaders : \E Q \in SUBSET Server : ElectedBy(Q, a[1], a[2])

ElectionInv ==
    /\ HardStateOnDisk /\ BallotsKept /\ OneBallotPerTerm
    /\ GrantsWereCast /\ CountedWereCast /\ LeadersWereElected

------------------------------------------------------------------------------
\* What VotesAreFinal says of one step.
VotesKept ==
    \A n \in Server :
        /\ current_term'[n] >= current_term[n]
        /\ current_term'[n] = current_term[n] /\ voted_for[n] # None
              => voted_for'[n] = voted_for[n]

\* A step that casts no vote and elects nobody.
Quiet ==
    /\ UNCHANGED <<ballots, term_leaders>>
    /\ VotesKept
    /\ HardStateOnDisk'
    /\ \A m \in in_flight' : IsGrant(m) => m \in in_flight
    /\ \A n \in Server : role'[n] = "Candidate" =>
           /\ role[n] = "Candidate" /\ current_term'[n] = current_term[n]
           /\ \A p \in votes_received'[n] :
                  p \in votes_received[n] \/ Ballot(p, current_term[n], n) \in ballots

\* Any two majorities of the cluster share a voter.
LEMMA QuorumsMeet ==
    ASSUME NEW Q \in SUBSET Server, NEW R \in SUBSET Server,
           Cardinality(Q) >= majority, Cardinality(R) >= majority
    PROVE  \E p \in Server : p \in Q /\ p \in R
<1>1. IsFiniteSet(Server) /\ IsFiniteSet(Q) /\ IsFiniteSet(R)
    BY ServerAssumption, FS_Subset
<1>2. Cardinality(Server) \in Nat /\ Cardinality(Q) \in Nat /\ Cardinality(R) \in Nat
    BY <1>1, FS_CardinalityType
<1>3. Cardinality(Q) + Cardinality(R) > Cardinality(Server)
    BY <1>2 DEF majority, peers_len
<1>4. Q \cap R # {}
    BY <1>1, <1>3, FS_MajoritiesIntersect
<1> QED BY <1>4

\* A quorum stays a quorum when ballots are added.
LEMMA ElectedStays ==
    ASSUME LeadersWereElected, ballots \subseteq ballots', UNCHANGED term_leaders
    PROVE  LeadersWereElected'
BY DEF LeadersWereElected, ElectedBy

\* The invariant gives ElectionSafety: the quorums of two leaders of a term
\* share a voter, which has voted once.
LEMMA InvImpliesSafety ==
    ASSUME TypeOK, ElectionInv
    PROVE  ElectionSafety
<1> SUFFICES ASSUME NEW a \in term_leaders, NEW b \in term_leaders, a[1] = b[1]
             PROVE  a[2] = b[2]
    BY DEF ElectionSafety
<1>1. PICK Q \in SUBSET Server : ElectedBy(Q, a[1], a[2])
    BY DEF ElectionInv, LeadersWereElected
<1>2. PICK R \in SUBSET Server : ElectedBy(R, b[1], b[2])
    BY DEF ElectionInv, LeadersWereElected
<1>3. PICK p \in Server : p \in Q /\ p \in R
    BY <1>1, <1>2, QuorumsMeet DEF ElectedBy
<1>4. Ballot(p, a[1], a[2]) \in ballots /\ Ballot(p, a[1], b[2]) \in ballots
    BY <1>1, <1>2, <1>3 DEF ElectedBy
<1>5. Ballot(p, a[1], a[2]).candidate = Ballot(p, a[1], b[2]).candidate
    BY <1>4 DEF ElectionInv, OneBallotPerTerm, Ballot
<1> QED BY <1>5 DEF Ballot

\* The invariant holds of an empty cluster.
LEMMA ElectionInit == Init => ElectionInv
BY DEF Init, ElectionInv, HardStateOnDisk, BallotsKept, OneBallotPerTerm,
       GrantsWereCast, CountedWereCast, LeadersWereElected, new_disk

\* A quiet step keeps the invariant.
LEMMA QuietStep ==
    ASSUME TypeOK, TypeOK', ElectionInv, Quiet
    PROVE  ElectionInv'
<1>1. BallotsKept'
  <2> SUFFICES ASSUME NEW b \in ballots
               PROVE  /\ b.term <= current_term'[b.voter]
                      /\ b.term = current_term'[b.voter] => voted_for'[b.voter] = b.candidate
      BY DEF BallotsKept, Quiet
  <2>1. b.voter \in Server /\ b.term \in Nat /\ b.candidate \in Server
      BY DEF TypeOK
  <2>2. current_term[b.voter] \in Nat /\ current_term'[b.voter] \in Nat
      BY <2>1 DEF TypeOK
  <2>3. /\ b.term <= current_term[b.voter]
        /\ b.term = current_term[b.voter] => voted_for[b.voter] = b.candidate
      BY DEF ElectionInv, BallotsKept
  <2>4. /\ current_term'[b.voter] >= current_term[b.voter]
        /\ current_term'[b.voter] = current_term[b.voter] /\ voted_for[b.voter] # None
              => voted_for'[b.voter] = voted_for[b.voter]
      BY <2>1 DEF Quiet, VotesKept
  <2>5. b.candidate # None
      BY <2>1, ServerAssumption
  <2> QED BY <2>1, <2>2, <2>3, <2>4, <2>5
<1>2. OneBallotPerTerm'
    BY DEF Quiet, ElectionInv, OneBallotPerTerm
<1>3. GrantsWereCast'
    BY DEF Quiet, ElectionInv, GrantsWereCast
<1>4. CountedWereCast'
    BY DEF Quiet, ElectionInv, CountedWereCast
<1>5. LeadersWereElected'
    BY ElectedStays DEF Quiet, ElectionInv
<1> QED BY <1>1, <1>2, <1>3, <1>4, <1>5 DEF ElectionInv, Quiet

\* So does a step that casts one vote, of a voter that has cast none in the
\* term or cast it for the same candidate; the step may start a candidacy.
LEMMA VotingStep ==
    ASSUME TypeOK, TypeOK', ElectionInv,
           NEW n \in Server, NEW t \in Nat, NEW c \in Server,
           UNCHANGED term_leaders, VotesKept, HardStateOnDisk',
           ballots' = ballots \cup {Ballot(n, t, c)},
           current_term'[n] = t, voted_for'[n] = c,
           t = current_term[n] => voted_for[n] \in {None, c},
           \A m \in in_flight' : IsGrant(m) =>
               m \in in_flight \/ Ballot(m.from, m.term, m.to) = Ballot(n, t, c),
           \A p \in Server : role'[p] = "Candidate" =>
               \A q \in votes_received'[p] :
                   Ballot(q, current_term'[p], p) \in ballots'
    PROVE  ElectionInv'
<1>1. current_term[n] \in Nat /\ t >= current_term[n]
    BY DEF TypeOK, VotesKept
<1>2. \A b \in ballots : /\ b.voter \in Server /\ b.term \in Nat /\ b.candidate \in Server
                         /\ b.candidate # None
    BY ServerAssumption DEF TypeOK
<1>3. \A b \in ballots : b.voter = n /\ b.term = t => b.candidate = c
  <2> SUFFICES ASSUME NEW b \in ballots, b.voter = n, b.term = t PROVE b.candidate = c
      OBVIOUS
  <2>1. b.term <= current_term[n] /\ (b.term = current_term[n] => voted_for[n] = b.candidate)
      BY DEF ElectionInv, BallotsKept
  <2>2. t = current_term[n]
      BY <1>1, <2>1
  <2> QED BY <1>2, <2>1, <2>2
<1>4. /\ Ballot(n, t, c).voter = n /\ Ballot(n, t, c).term = t
      /\ Ballot(n, t, c).candidate = c
    BY DEF Ballot
<1>5. BallotsKept'
  <2> SUFFICES ASSUME NEW b \in ballots'
               PROVE  /\ b.term <= current_term'[b.voter]
                      /\ b.term = current_term'[b.voter] => voted_for'[b.voter] = b.candidate
      BY DEF BallotsKept
  <2>1. CASE b = Ballot(n, t, c)
      BY <1>4, <2>1
  <2>2. CASE b \in ballots
    <3>1. b.voter \in Server /\ b.term \in Nat
        BY <1>2, <2>2
    <3>2. current_term[b.voter] \in Nat /\ current_term'[b.voter] \in Nat
        BY <3>1 DEF TypeOK
    <3>3. /\ b.term <= current_term[b.voter]
          /\ b.term = current_term[b.voter] => voted_for[b.voter] = b.candidate
        BY <2>2 DEF ElectionInv, BallotsKept
    <3>4. /\ current_term'[b.voter] >= current_term[b.voter]
          /\ current_term'[b.voter] = current_term[b.voter] /\ voted_for[b.voter] # None
                => voted_for'[b.voter] = voted_for[b.voter]
        BY <3>1 DEF VotesKept
    <3> QED BY <1>2, <2>2, <3>1, <3>2, <3>3, <3>4
  <2> QED BY <2>1, <2>2
<1>6. OneBallotPerTerm'
    BY <1>3, <1>4 DEF ElectionInv, OneBallotPerTerm
<1>7. GrantsWereCast'
    BY DEF ElectionInv, GrantsWereCast
<1>8. CountedWereCast'
    BY DEF CountedWereCast
<1>9. LeadersWereElected'
    BY ElectedStays DEF ElectionInv
<1> QED BY <1>5, <1>6, <1>7, <1>8, <1>9 DEF ElectionInv

------------------------------------------------------------------------------
\* A handler leaves in flight what was there and its own answers.
LEMMA InFlight ==
    ASSUME NEW n, NEW m, NEW t, NEW A, Handle(n, m, t, A) \/ Send(n, A)
    PROVE  in_flight' \subseteq in_flight \cup A
BY DEF Handle, Send

\* Only an answer to RequestVote grants a vote.
LEMMA OtherKinds ==
    /\ \A n, p, t, l : /\ ~IsGrant(Vote("PreVote", n, p, t, l))
                       /\ ~IsGrant(Vote("RequestVote", n, p, t, l))
    /\ \A n, p, t, g : ~IsGrant(VoteResponse("PreVoteResponse", n, p, t, g))
    /\ \A n, p, t, ok, ct, ci : ~IsGrant(AppendResponse(n, p, t, ok, ct, ci))
    /\ \A n, p, t : ~IsGrant(SnapshotResponse(n, p, t))
    /\ \A n, p, t, l, c, next : ~IsGrant(replicate_to_peer(n, p, t, l, c, next))
BY DEF IsGrant, Vote, VoteResponse, AppendResponse, SnapshotResponse, replicate_to_peer

\* A broadcast grants nothing.
LEMMA BroadcastGrantsNothing ==
    ASSUME NEW n, NEW t, NEW l, NEW c, NEW next, NEW x \in broadcast(n, t, l, c, next)
    PROVE  ~IsGrant(x)
BY OtherKinds DEF broadcast

\* A write to the log of one disk leaves every hard state alone.
LEMMA LogWrite ==
    ASSUME TypeOK, NEW n \in Server, NEW d, disk' = [disk EXCEPT ![n] = d],
           d.current_term = disk[n].current_term, d.voted_for = disk[n].voted_for
    PROVE  \A p \in Server : /\ disk'[p].current_term = disk[p].current_term
                             /\ disk'[p].voted_for = disk[p].voted_for
<1> SUFFICES ASSUME NEW p \in Server
             PROVE  /\ disk'[p].current_term = disk[p].current_term
                    /\ disk'[p].voted_for = disk[p].voted_for
    OBVIOUS
<1>1. disk'[p] = IF p = n THEN d ELSE disk[p]
    BY DEF TypeOK
<1> QED BY <1>1

\* A step that leaves term, vote and hard state of every node alone.
LEMMA StillStep ==
    ASSUME TypeOK, ElectionInv,
           UNCHANGED <<current_term, voted_for, ballots, term_leaders>>,
           \A n \in Server : /\ disk'[n].current_term = disk[n].current_term
                             /\ disk'[n].voted_for = disk[n].voted_for,
           \A m \in in_flight' : IsGrant(m) => m \in in_flight,
           \A n \in Server : role'[n] = "Candidate" =>
               /\ role[n] = "Candidate"
               /\ \A p \in votes_received'[n] :
                      p \in votes_received[n] \/ Ballot(p, current_term[n], n) \in ballots
    PROVE  Quiet
<1>1. HardStateOnDisk'
    BY DEF ElectionInv, HardStateOnDisk
<1>2. VotesKept
  <2> SUFFICES ASSUME NEW n \in Server PROVE current_term[n] >= current_term[n]
      BY DEF VotesKept
  <2>1. current_term[n] \in Nat
      BY DEF TypeOK
  <2> QED BY <2>1
<1> QED BY <1>1, <1>2 DEF Quiet

\* Taking over the term of a message that is not stale: the vote is kept or
\* the term is new, and the disk follows.
LEMMA TakeTerm ==
    ASSUME TypeOK, ElectionInv, NEW n \in Server, NEW m \in Message, Current(n, m),
           NEW d \in Disk,
           d.current_term = hard_state_seen(n, m).current_term,
           d.voted_for = hard_state_seen(n, m).voted_for,
           current_term' = [current_term EXCEPT ![n] = m.term],
           voted_for' = [voted_for EXCEPT ![n] = vote_seen(n, m)],
           disk' = [disk EXCEPT ![n] = d]
    PROVE  VotesKept /\ HardStateOnDisk'
<1>1. /\ m.term \in Nat /\ current_term[n] \in Nat /\ disk[n] \in Disk
      /\ None \in OptServer /\ m.term >= current_term[n]
    BY MessageFields DEF TypeOK, OptServer, Current
<1>2. VotesKept
  <2> SUFFICES ASSUME NEW p \in Server
               PROVE  /\ current_term'[p] >= current_term[p]
                      /\ current_term'[p] = current_term[p] /\ voted_for[p] # None
                            => voted_for'[p] = voted_for[p]
      BY DEF VotesKept
  <2>1. CASE p = n
      BY <1>1, <2>1 DEF TypeOK, vote_seen, Newer
  <2>2. CASE p # n
      BY <2>2 DEF TypeOK
  <2> QED BY <2>1, <2>2
<1>3. d.current_term = m.term /\ d.voted_for = vote_seen(n, m)
  <2>1. CASE Newer(n, m)
    <3>1. /\ write_hard_state(disk[n], m.term, None).current_term = m.term
          /\ write_hard_state(disk[n], m.term, None).voted_for = None
        BY <1>1, HardStateType
    <3> QED BY <2>1, <3>1 DEF hard_state_seen, vote_seen
  <2>2. CASE ~Newer(n, m)
    <3>1. m.term = current_term[n]
        BY <1>1, <2>2 DEF Newer
    <3> QED BY <2>2, <3>1 DEF hard_state_seen, vote_seen, ElectionInv, HardStateOnDisk
  <2> QED BY <2>1, <2>2
<1>4. HardStateOnDisk'
  <2> SUFFICES ASSUME NEW p \in Server
               PROVE  /\ disk'[p].current_term = current_term'[p]
                      /\ disk'[p].voted_for = voted_for'[p]
      BY DEF HardStateOnDisk
  <2>1. CASE p = n
      BY <1>3, <2>1 DEF TypeOK
  <2>2. CASE p # n
      BY <2>2 DEF TypeOK, ElectionInv, HardStateOnDisk
  <2> QED BY <2>1, <2>2
<1> QED BY <1>2, <1>4

\* A handler that only takes over the term is quiet.
LEMMA ObserveQuiet ==
    ASSUME TypeOK, ElectionInv, NEW n \in Server, NEW m \in Message, Current(n, m),
           Observe(n, m), UNCHANGED <<ballots, term_leaders, votes_received>>,
           \A x \in in_flight' : IsGrant(x) => x \in in_flight
    PROVE  Quiet
<1>1. hard_state_seen(n, m) \in Disk
    BY HardStateSeenType
<1>2. VotesKept /\ HardStateOnDisk'
    BY <1>1, TakeTerm DEF Observe
<1>3. \A p \in Server : role'[p] = "Candidate" =>
          role[p] = "Candidate" /\ current_term'[p] = current_term[p]
  <2> SUFFICES ASSUME NEW p \in Server, role'[p] = "Candidate"
               PROVE  role[p] = "Candidate" /\ current_term'[p] = current_term[p]
      OBVIOUS
  <2>1. CASE p = n
    <3>1. role_seen(n, m) = "Candidate"
        BY <2>1 DEF Observe, TypeOK
    <3>2. ~Newer(n, m) /\ role[n] = "Candidate"
        BY <3>1 DEF role_seen
    <3>3. m.term = current_term[n]
        BY <3>2, MessageFields DEF Newer, Current, TypeOK
    <3> QED BY <2>1, <3>2, <3>3 DEF Observe, TypeOK
  <2>2. CASE p # n
      BY <2>2 DEF Observe, TypeOK
  <2> QED BY <2>1, <2>2
<1> QED BY <1>2, <1>3 DEF Quiet

\* So is one that makes the node a follower of the sender, whatever it does
\* to the log on disk.
LEMMA FollowQuiet ==
    ASSUME TypeOK, ElectionInv, NEW n \in Server, NEW m \in Message, Current(n, m),
           Follow(n, m), UNCHANGED <<ballots, term_leaders, votes_received>>,
           NEW d \in Disk, disk' = [disk EXCEPT ![n] = d],
           d.current_term = hard_state_seen(n, m).current_term,
           d.voted_for = hard_state_seen(n, m).voted_for,
           \A x \in in_flight' : IsGrant(x) => x \in in_flight
    PROVE  Quiet
<1>1. VotesKept /\ HardStateOnDisk'
    BY TakeTerm DEF Follow
<1>2. \A p \in Server : role'[p] = "Candidate" =>
          role[p] = "Candidate" /\ current_term'[p] = current_term[p]
  <2> SUFFICES ASSUME NEW p \in Server, role'[p] = "Candidate"
               PROVE  role[p] = "Candidate" /\ current_term'[p] = current_term[p]
      OBVIOUS
  <2>1. p # n
      BY DEF Follow, TypeOK
  <2> QED BY <2>1 DEF Follow, TypeOK
<1> QED BY <1>1, <1>2 DEF Quiet

------------------------------------------------------------------------------
\* A tick casts no vote.
LEMMA TickQuiet ==
    ASSUME TypeOK, ElectionInv, NEW n \in Server,
           tick_idle(n) \/ tick_election_timeout(n) \/ tick_leader(n)
    PROVE  Quiet
<1>1. CASE tick_idle(n)
    BY <1>1, StillStep DEF tick_idle, tick_lease_lapses, voteVars, histVars
<1>2. CASE tick_election_timeout(n)
  <2>1. start_pre_vote(n)
      BY <1>2 DEF tick_election_timeout
  <2> DEFINE A == {Vote("PreVote", n, p, current_term[n] + 1, log[n]) : p \in Peers(n)}
  <2>2. in_flight' \subseteq in_flight \cup A
      BY <2>1, InFlight DEF start_pre_vote
  <2>3. \A x \in in_flight' : IsGrant(x) => x \in in_flight
      BY <2>2, OtherKinds
  <2> HIDE DEF A
  <2>4. \A p \in Server : role'[p] = "Candidate" => role[p] = "Candidate"
      BY <2>1 DEF start_pre_vote, TypeOK
  <2> QED BY <2>1, <2>3, <2>4, StillStep DEF start_pre_vote, histVars
<1>3. CASE tick_leader(n)
  <2>1. tick_heartbeat(n)
      BY <1>3 DEF tick_leader
  <2>2. \A x \in in_flight' : IsGrant(x) => x \in in_flight
      BY <2>1, InFlight, BroadcastGrantsNothing DEF tick_heartbeat
  <2> QED BY <2>1, <2>2, StillStep DEF tick_heartbeat, termVars, voteVars, histVars
<1> QED BY <1>1, <1>2, <1>3

\* Neither does a proposal,
LEMMA ProposeQuiet ==
    ASSUME TypeOK, ElectionInv, NEW n \in Server, NEW c \in Command, propose_command(n, c)
    PROVE  Quiet
<1> DEFINE entry == Entry(last_index(log[n]) + 1, current_term[n], c)
<1>1. propose(n, c)
    BY DEF propose_command
<1>2. disk' = [disk EXCEPT ![n] = append_entries(disk[n], << entry >>)]
    BY <1>1 DEF propose
<1>3. << entry >> \in Seq(LogEntry) /\ disk[n] \in Disk
  <2>1. log[n] \in Log /\ current_term[n] \in Nat /\ c \in Command \cup {Noop} /\ disk[n] \in Disk
      BY DEF TypeOK
  <2>2. last_index(log[n]) + 1 \in Nat
      BY <2>1, LogType
  <2>3. entry \in LogEntry
      BY <2>1, <2>2, EntryType
  <2> HIDE DEF entry
  <2> QED BY <2>1, <2>3
<1> HIDE DEF entry
<1>4. \A p \in Server : /\ disk'[p].current_term = disk[p].current_term
                        /\ disk'[p].voted_for = disk[p].voted_for
  <2>1. /\ append_entries(disk[n], << entry >>).current_term = disk[n].current_term
        /\ append_entries(disk[n], << entry >>).voted_for = disk[n].voted_for
      BY <1>3, AppendEntriesType
  <2> QED BY <1>2, <2>1, LogWrite
<1>5. \A x \in in_flight' : IsGrant(x) => x \in in_flight
    BY <1>1, InFlight, BroadcastGrantsNothing DEF propose
<1> QED BY <1>1, <1>4, <1>5, StillStep DEF propose, termVars, voteVars, histVars

\* nor a compaction.
LEMMA CompactionQuiet ==
    ASSUME TypeOK, ElectionInv, NEW n \in Server, compaction_pass(n)
    PROVE  Quiet
<1> DEFINE i == commit_index[n]
           t == IF term_at(log[n], i) = None THEN 0 ELSE term_at(log[n], i)
<1>1. compact_logs(n, i, t)
    BY DEF compaction_pass
<1>2. i \in Nat /\ t \in Nat /\ disk[n] \in Disk
  <2>1. log[n] \in Log /\ i \in Nat /\ disk[n] \in Disk
      BY DEF TypeOK
  <2>2. term_at(log[n], i) \in OptNat
      BY <2>1, TermAtType
  <2> QED BY <2>1, <2>2 DEF OptNat
<1> HIDE DEF i, t
<1>3. disk' = [disk EXCEPT ![n] = write_snapshot(disk[n], SnapshotMeta(i, t))]
    BY <1>1 DEF compact_logs
<1>4. \A p \in Server : /\ disk'[p].current_term = disk[p].current_term
                        /\ disk'[p].voted_for = disk[p].voted_for
  <2>1. /\ write_snapshot(disk[n], SnapshotMeta(i, t)).current_term = disk[n].current_term
        /\ write_snapshot(disk[n], SnapshotMeta(i, t)).voted_for = disk[n].voted_for
      BY <1>2, WriteSnapshotType
  <2> QED BY <1>3, <2>1, LogWrite
<1> QED BY <1>1, <1>4, StillStep DEF compact_logs, termVars, voteVars, histVars

\* Nor a fault: a restart reads back the term and the vote it crashed with.
LEMMA FaultQuiet ==
    ASSUME TypeOK, ElectionInv,
           \/ \E n \in Server : crash_node(n) \/ spawn_node(n)
           \/ \E m \in in_flight : drop_message(m)
    PROVE  Quiet
<1>1. ASSUME NEW n \in Server, crash_node(n) PROVE Quiet
  <2>1. UNCHANGED <<role, current_term, voted_for, votes_received, disk, in_flight,
                    ballots, term_leaders>>
      BY <1>1 DEF crash_node, nodeVars, termVars, voteVars, histVars
  <2> QED BY <2>1, StillStep
<1>2. ASSUME NEW n \in Server, spawn_node(n) PROVE Quiet
  <2>1. /\ current_term' = [current_term EXCEPT ![n] = disk[n].current_term]
        /\ voted_for' = [voted_for EXCEPT ![n] = disk[n].voted_for]
        /\ role' = [role EXCEPT ![n] = "Follower"]
        /\ votes_received' = [votes_received EXCEPT ![n] = {}]
        /\ UNCHANGED <<disk, in_flight, histVars>>
      BY <1>2 DEF spawn_node, restore
  <2>2. disk[n].current_term = current_term[n] /\ disk[n].voted_for = voted_for[n]
      BY DEF ElectionInv, HardStateOnDisk
  <2>3. UNCHANGED <<current_term, voted_for>>
      BY <2>1, <2>2 DEF TypeOK
  <2>4. \A p \in Server : role'[p] = "Candidate" =>
            /\ role[p] = "Candidate"
            /\ \A q \in votes_received'[p] : q \in votes_received[p]
      BY <2>1 DEF TypeOK
  <2> QED BY <2>1, <2>3, <2>4, StillStep DEF histVars
<1>3. ASSUME NEW m \in in_flight, drop_message(m) PROVE Quiet
    BY <1>3, StillStep DEF drop_message, termVars, voteVars, histVars
<1> QED BY <1>1, <1>2, <1>3

------------------------------------------------------------------------------
\* Handling a pre-vote request casts no vote.
LEMMA PreVoteQuiet ==
    ASSUME TypeOK, ElectionInv, NEW n \in Server, NEW m \in Message, handle_pre_vote(n, m)
    PROVE  Quiet
<1>1. \A x \in in_flight' : IsGrant(x) => x \in in_flight
    BY InFlight, OtherKinds DEF handle_pre_vote
<1> QED BY <1>1, StillStep DEF handle_pre_vote, termVars, voteVars, histVars

\* A pre-vote answer casts no vote until it completes a majority of them; the
\* candidate then votes for itself, in a term it has never been in.
LEMMA PreVoteResponseInv ==
    ASSUME TypeOK, TypeOK', ElectionInv, NEW n \in Server, NEW m \in Message,
           handle_pre_vote_response(n, m)
    PROVE  ElectionInv' /\ VotesKept
<1> DEFINE granted == pre_votes_received[n] \cup {m.from}
<1>1. CASE counts_pre_vote(n, m) /\ Cardinality(granted) >= majority
  <2> DEFINE t == current_term[n] + 1
             A == {Vote("RequestVote", n, p, t, log[n]) : p \in Peers(n)}
  <2>1. start_real_election(n, m)
      BY <1>1 DEF handle_pre_vote_response
  <2>2. t \in Nat /\ t > current_term[n] /\ current_term[n] \in Nat /\ disk[n] \in Disk
        /\ n \in OptServer
      BY DEF TypeOK, OptServer
  <2>3. /\ current_term' = [current_term EXCEPT ![n] = t]
        /\ role' = [role EXCEPT ![n] = "Candidate"]
        /\ voted_for' = [voted_for EXCEPT ![n] = n]
        /\ votes_received' = [votes_received EXCEPT ![n] = {n}]
        /\ disk' = [disk EXCEPT ![n] = write_hard_state(disk[n], t, n)]
        /\ ballots' = ballots \cup {Ballot(n, t, n)}
        /\ Handle(n, m, t, A)
        /\ UNCHANGED term_leaders
      BY <2>1 DEF start_real_election, Ballot
  <2>4. \A x \in in_flight' : IsGrant(x) => x \in in_flight
      BY <2>3, InFlight, OtherKinds
  <2> HIDE DEF t, A
  <2>5. VotesKept
    <3> SUFFICES ASSUME NEW p \in Server
                 PROVE  /\ current_term'[p] >= current_term[p]
                        /\ current_term'[p] = current_term[p] /\ voted_for[p] # None
                              => voted_for'[p] = voted_for[p]
        BY DEF VotesKept
    <3>1. CASE p = n
        BY <2>2, <2>3, <3>1 DEF TypeOK
    <3>2. CASE p # n
        BY <2>3, <3>2 DEF TypeOK
    <3> QED BY <3>1, <3>2
  <2>6. HardStateOnDisk'
    <3>1. /\ write_hard_state(disk[n], t, n).current_term = t
          /\ write_hard_state(disk[n], t, n).voted_for = n
        BY <2>2, HardStateType
    <3> QED BY <2>3, <3>1 DEF TypeOK, ElectionInv, HardStateOnDisk
  <2>7. \A p \in Server : role'[p] = "Candidate" =>
            \A q \in votes_received'[p] : Ballot(q, current_term'[p], p) \in ballots'
    <3> SUFFICES ASSUME NEW p \in Server, role'[p] = "Candidate",
                        NEW q \in votes_received'[p]
                 PROVE  Ballot(q, current_term'[p], p) \in ballots'
        OBVIOUS
    <3>1. CASE p = n
        BY <2>3, <3>1 DEF TypeOK
    <3>2. CASE p # n
        BY <2>3, <3>2 DEF TypeOK, ElectionInv, CountedWereCast
    <3> QED BY <3>1, <3>2
  <2>8. current_term'[n] = t /\ voted_for'[n] = n
      BY <2>3 DEF TypeOK
  <2>9. t = current_term[n] => voted_for[n] \in {None, n}
      BY <2>2
  <2>10. ElectionInv'
      BY <2>2, <2>3, <2>4, <2>5, <2>6, <2>7, <2>8, <2>9, VotingStep
  <2> QED BY <2>5, <2>10
<1>2. CASE ~(counts_pre_vote(n, m) /\ Cardinality(granted) >= majority)
  <2>1. /\ Handle(n, m, current_term[n], {})
        /\ UNCHANGED <<termVars, votes_received, disk, histVars>>
      BY <1>2 DEF handle_pre_vote_response, voteVars
  <2>2. \A x \in in_flight' : IsGrant(x) => x \in in_flight
      BY <2>1, InFlight
  <2>3. Quiet
      BY <2>1, <2>2, StillStep DEF termVars, histVars
  <2> QED BY <2>3, QuietStep DEF Quiet
<1> QED BY <1>1, <1>2

\* A vote is granted once per term: the voter has none, or this one, in the
\* term of the request.
LEMMA RequestVoteInv ==
    ASSUME TypeOK, TypeOK', ElectionInv, NEW n \in Server, NEW m \in Message,
           handle_request_vote(n, m)
    PROVE  ElectionInv' /\ VotesKept
<1>1. /\ m.term \in Nat /\ m.from \in Server /\ m.from \in OptServer
      /\ current_term[n] \in Nat /\ disk[n] \in Disk /\ m.term >= current_term[n]
    BY MessageFields DEF TypeOK, OptServer, handle_request_vote, Current
<1>2. UNCHANGED <<votes_received, term_leaders>>
    BY DEF handle_request_vote, voteVars
<1>3. \A p \in Server : role'[p] = "Candidate" =>
          role[p] = "Candidate" /\ current_term'[p] = current_term[p]
  <2> SUFFICES ASSUME NEW p \in Server, role'[p] = "Candidate"
               PROVE  role[p] = "Candidate" /\ current_term'[p] = current_term[p]
      OBVIOUS
  <2>1. /\ role' = [role EXCEPT ![n] = role_seen(n, m)]
        /\ current_term' = [current_term EXCEPT ![n] = m.term]
      BY DEF handle_request_vote
  <2>2. CASE p = n
    <3>1. ~Newer(n, m) /\ role[n] = "Candidate"
        BY <2>1, <2>2 DEF role_seen, TypeOK
    <3>2. m.term = current_term[n]
        BY <1>1, <3>1 DEF Newer
    <3> QED BY <2>1, <2>2, <3>1, <3>2 DEF TypeOK
  <2>3. CASE p # n
      BY <2>1, <2>3 DEF TypeOK
  <2> QED BY <2>2, <2>3
<1>4. CASE vote_granted(n, m)
  <2>1. /\ current_term' = [current_term EXCEPT ![n] = m.term]
        /\ voted_for' = [voted_for EXCEPT ![n] = m.from]
        /\ disk' = [disk EXCEPT ![n] = write_hard_state(disk[n], m.term, m.from)]
        /\ ballots' = ballots \cup {Ballot(n, m.term, m.from)}
        /\ Handle(n, m, m.term,
                  {VoteResponse("RequestVoteResponse", n, m.from, m.term, vote_granted(n, m))})
      BY <1>4 DEF handle_request_vote, Ballot
  <2>2. m.term = current_term[n] => voted_for[n] \in {None, m.from}
      BY <1>1, <1>4 DEF vote_granted, vote_seen, Newer
  <2>3. VotesKept
    <3> SUFFICES ASSUME NEW p \in Server
                 PROVE  /\ current_term'[p] >= current_term[p]
                        /\ current_term'[p] = current_term[p] /\ voted_for[p] # None
                              => voted_for'[p] = voted_for[p]
        BY DEF VotesKept
    <3>1. CASE p = n
        BY <1>1, <2>1, <2>2, <3>1 DEF TypeOK
    <3>2. CASE p # n
        BY <2>1, <3>2 DEF TypeOK
    <3> QED BY <3>1, <3>2
  <2>4. HardStateOnDisk'
    <3>1. /\ write_hard_state(disk[n], m.term, m.from).current_term = m.term
          /\ write_hard_state(disk[n], m.term, m.from).voted_for = m.from
        BY <1>1, HardStateType
    <3> QED BY <2>1, <3>1 DEF TypeOK, ElectionInv, HardStateOnDisk
  <2>5. \A x \in in_flight' : IsGrant(x) =>
            x \in in_flight \/ Ballot(x.from, x.term, x.to) = Ballot(n, m.term, m.from)
    <3>1. in_flight' \subseteq in_flight \cup
              {VoteResponse("RequestVoteResponse", n, m.from, m.term, vote_granted(n, m))}
        BY <2>1, InFlight
    <3> QED BY <3>1 DEF VoteResponse
  <2>6. \A p \in Server : role'[p] = "Candidate" =>
            \A q \in votes_received'[p] : Ballot(q, current_term'[p], p) \in ballots'
      BY <1>2, <1>3, <2>1 DEF ElectionInv, CountedWereCast
  <2>7. current_term'[n] = m.term /\ voted_for'[n] = m.from
      BY <2>1 DEF TypeOK
  <2>8. ElectionInv'
      BY <1>1, <1>2, <2>1, <2>2, <2>3, <2>4, <2>5, <2>6, <2>7, VotingStep
  <2> QED BY <2>3, <2>8
<1>5. CASE ~vote_granted(n, m)
  <2>1. /\ current_term' = [current_term EXCEPT ![n] = m.term]
        /\ voted_for' = [voted_for EXCEPT ![n] = vote_seen(n, m)]
        /\ disk' = [disk EXCEPT ![n] = hard_state_seen(n, m)]
        /\ UNCHANGED ballots /\ Current(n, m)
        /\ Handle(n, m, m.term,
                  {VoteResponse("RequestVoteResponse", n, m.from, m.term, vote_granted(n, m))})
      BY <1>5 DEF handle_request_vote
  <2>2. VotesKept /\ HardStateOnDisk'
      BY <2>1, HardStateSeenType, TakeTerm
  <2>3. \A x \in in_flight' : IsGrant(x) => x \in in_flight
    <3>1. ~IsGrant(VoteResponse("RequestVoteResponse", n, m.from, m.term, vote_granted(n, m)))
        BY <1>5 DEF IsGrant, VoteResponse
    <3> QED BY <2>1, <3>1, InFlight
  <2>4. Quiet
      BY <1>2, <1>3, <2>1, <2>2, <2>3 DEF Quiet
  <2> QED BY <2>2, <2>4, QuietStep
<1> QED BY <1>4, <1>5

\* A vote is counted if it was cast in the candidate's term, and a majority of
\* such votes is the quorum of the new leader.
LEMMA RequestVoteResponseInv ==
    ASSUME TypeOK, TypeOK', ElectionInv, NEW n \in Server, NEW m \in Message,
           handle_request_vote_response(n, m)
    PROVE  ElectionInv' /\ VotesKept
<1> DEFINE granted == votes_received[n] \cup {m.from}
<1>1. Current(n, m) /\ m \in in_flight /\ m.to = n /\ m.kind = "RequestVoteResponse"
    BY DEF handle_request_vote_response, Receives
<1>2. CASE counts_vote(n, m)
  <2>1. votes_received' = [votes_received EXCEPT ![n] = granted]
      BY <1>2 DEF handle_request_vote_response
  <2>2. \A p \in granted : Ballot(p, current_term[n], n) \in ballots
    <3>1. Ballot(m.from, current_term[n], n) \in ballots
        BY <1>1, <1>2 DEF counts_vote, ElectionInv, GrantsWereCast, IsGrant
    <3>2. \A p \in votes_received[n] : Ballot(p, current_term[n], n) \in ballots
        BY <1>2 DEF counts_vote, ElectionInv, CountedWereCast
    <3> QED BY <3>1, <3>2
  <2>3. granted \in SUBSET Server
      BY MessageFields DEF TypeOK
  <2> HIDE DEF granted
  <2>4. CASE ~(Cardinality(granted) >= majority)
    <3>1. /\ Handle(n, m, m.term, {})
          /\ UNCHANGED <<termVars, disk, histVars>>
        BY <1>2, <2>4 DEF handle_request_vote_response, granted
    <3>2. \A x \in in_flight' : IsGrant(x) => x \in in_flight
        BY <3>1, InFlight
    <3>3. \A p \in Server : \A q \in votes_received'[p] :
              q \in votes_received[p] \/ Ballot(q, current_term[p], p) \in ballots
        BY <2>1, <2>2 DEF TypeOK
    <3>4. Quiet
        BY <3>1, <3>2, <3>3, StillStep DEF termVars, histVars
    <3> QED BY <3>4, QuietStep DEF Quiet
  <2>5. CASE Cardinality(granted) >= majority
    <3> DEFINE last == last_index(log[n])
               noop == Entry(last + 1, current_term[n], Noop)
    <3>1. become_leader(n, m)
        BY <1>2, <2>5 DEF handle_request_vote_response, granted
    <3>2. /\ role' = [role EXCEPT ![n] = "Leader"]
          /\ disk' = [disk EXCEPT ![n] = append_entries(disk[n], << noop >>)]
          /\ term_leaders' = term_leaders \cup {<<current_term[n], n>>}
          /\ UNCHANGED <<current_term, voted_for, ballots>>
        BY <3>1 DEF become_leader
    <3>3. \A x \in in_flight' : IsGrant(x) => x \in in_flight
        BY <3>1, InFlight, BroadcastGrantsNothing DEF become_leader
    <3>4. << noop >> \in Seq(LogEntry) /\ disk[n] \in Disk
      <4>1. log[n] \in Log /\ current_term[n] \in Nat /\ disk[n] \in Disk
          BY DEF TypeOK
      <4>2. last + 1 \in Nat
          BY <4>1, LogType
      <4>3. noop \in LogEntry
          BY <4>1, <4>2, EntryType
      <4> HIDE DEF noop
      <4> QED BY <4>1, <4>3
    <3> HIDE DEF noop
    <3>5. \A p \in Server : /\ disk'[p].current_term = disk[p].current_term
                            /\ disk'[p].voted_for = disk[p].voted_for
      <4>1. /\ append_entries(disk[n], << noop >>).current_term = disk[n].current_term
            /\ append_entries(disk[n], << noop >>).voted_for = disk[n].voted_for
          BY <3>4, AppendEntriesType
      <4> QED BY <3>2, <4>1, LogWrite
    <3>6. HardStateOnDisk'
        BY <3>2, <3>5 DEF ElectionInv, HardStateOnDisk
    <3>7. VotesKept
      <4>1. \A p \in Server : current_term[p] >= current_term[p]
          BY DEF TypeOK
      <4> QED BY <3>2, <4>1 DEF VotesKept
    <3>8. BallotsKept' /\ OneBallotPerTerm' /\ GrantsWereCast'
        BY <3>2, <3>3 DEF ElectionInv, BallotsKept, OneBallotPerTerm, GrantsWereCast
    <3>9. CountedWereCast'
      <4> SUFFICES ASSUME NEW p \in Server, role'[p] = "Candidate",
                          NEW q \in votes_received'[p]
                   PROVE  Ballot(q, current_term[p], p) \in ballots
          BY <3>2 DEF CountedWereCast
      <4>1. p # n
          BY <3>2 DEF TypeOK
      <4> QED BY <2>1, <3>2, <4>1 DEF TypeOK, ElectionInv, CountedWereCast
    <3>10. LeadersWereElected'
      <4> SUFFICES ASSUME NEW a \in term_leaders'
                   PROVE  \E Q \in SUBSET Server : ElectedBy(Q, a[1], a[2])'
          BY DEF LeadersWereElected
      <4>1. CASE a \in term_leaders
          BY <3>2, <4>1 DEF ElectionInv, LeadersWereElected, ElectedBy
      <4>2. CASE a = <<current_term[n], n>>
          BY <2>2, <2>3, <2>5, <3>2, <4>2 DEF ElectedBy
      <4> QED BY <3>2, <4>1, <4>2
    <3> QED BY <3>6, <3>7, <3>8, <3>9, <3>10 DEF ElectionInv
  <2> QED BY <2>4, <2>5
<1>3. CASE ~counts_vote(n, m)
  <2>1. /\ Observe(n, m) /\ Handle(n, m, m.term, {})
        /\ UNCHANGED <<votes_received, histVars>>
      BY <1>3 DEF handle_request_vote_response
  <2>2. \A x \in in_flight' : IsGrant(x) => x \in in_flight
      BY <2>1, InFlight
  <2>3. Quiet
      BY <1>1, <2>1, <2>2, ObserveQuiet DEF histVars
  <2> QED BY <2>3, QuietStep DEF Quiet
<1> QED BY <1>2, <1>3

\* The handlers of the replication protocol only take over terms.
LEMMA AppendEntriesQuiet ==
    ASSUME TypeOK, ElectionInv, NEW n \in Server, NEW m \in Message,
           \/ handle_append_entries_missing(n, m)
           \/ handle_append_entries_conflict(n, m)
           \/ handle_append_entries_accept(n, m)
    PROVE  Quiet
<1>1. /\ Current(n, m) /\ Follow(n, m) /\ m.kind = "AppendEntries"
      /\ UNCHANGED <<ballots, term_leaders, votes_received>>
    BY DEF handle_append_entries_missing, handle_append_entries_conflict,
       handle_append_entries_accept, Receives, voteVars, histVars
<1>2. \A x \in in_flight' : IsGrant(x) => x \in in_flight
  <2>1. PICK ok, ct, ci :
            Handle(n, m, m.term, {AppendResponse(n, m.from, m.term, ok, ct, ci)})
      BY DEF handle_append_entries_missing, handle_append_entries_conflict,
         handle_append_entries_accept
  <2> QED BY <2>1, InFlight, OtherKinds
<1> DEFINE d == hard_state_seen(n, m)
<1>3. d \in Disk
    BY HardStateSeenType
<1>4. \E e \in Disk : /\ disk' = [disk EXCEPT ![n] = e]
                      /\ e.current_term = d.current_term /\ e.voted_for = d.voted_for
  <2>1. CASE handle_append_entries_missing(n, m) \/ handle_append_entries_conflict(n, m)
    <3>1. disk' = [disk EXCEPT ![n] = d]
        BY <2>1 DEF handle_append_entries_missing, handle_append_entries_conflict
    <3> QED BY <1>3, <3>1
  <2>2. CASE handle_append_entries_accept(n, m)
    <3> DEFINE held   == already_held(log[n], m.entries)
               suffix == SubSeq(m.entries, held + 1, Len(m.entries))
               attach == m.entries[1].index + held
               panics == /\ suffix # << >>
                         /\ \/ ~truncate_ok(log[n], attach)
                            \/ disk_truncate_panics(d, attach, suffix)
    <3>1. disk' = [disk EXCEPT ![n] =
                       IF suffix = << >> \/ panics THEN d
                       ELSE disk_truncate_and_append(d, attach, suffix)]
        BY <2>2 DEF handle_append_entries_accept
    <3>2. CASE suffix = << >> \/ panics
        BY <1>3, <3>1, <3>2
    <3>3. CASE ~(suffix = << >> \/ panics)
      <4>1. m.entries \in Seq(LogEntry)
          BY <1>1, MessageFields
      <4>2. /\ suffix \in Seq(LogEntry) /\ attach \in Nat
          BY <3>3, <4>1, SuffixType
      <4>3. ~disk_truncate_panics(d, attach, suffix)
          BY <3>3
      <4>4. disk' = [disk EXCEPT ![n] = disk_truncate_and_append(d, attach, suffix)]
          BY <3>1, <3>3
      <4> HIDE DEF d, attach, suffix
      <4> QED BY <1>3, <4>2, <4>3, <4>4, DiskTruncateType
    <3> QED BY <3>2, <3>3
  <2> QED BY <2>1, <2>2
<1> HIDE DEF d
<1>5. PICK e \in Disk : /\ disk' = [disk EXCEPT ![n] = e]
                       /\ e.current_term = d.current_term /\ e.voted_for = d.voted_for
    BY <1>4
<1> QED BY <1>1, <1>2, <1>5, FollowQuiet DEF d

\* So do the answers to AppendEntries,
LEMMA AppendResponseQuiet ==
    ASSUME TypeOK, ElectionInv, NEW n \in Server, NEW m \in Message,
           handle_append_entries_response(n, m)
    PROVE  Quiet
<1>1. Current(n, m) /\ UNCHANGED <<votes_received, ballots, term_leaders>>
    BY DEF handle_append_entries_response, voteVars
<1>2. \A x \in in_flight' : IsGrant(x) => x \in in_flight
    BY InFlight, OtherKinds DEF handle_append_entries_response
<1>3. CASE UNCHANGED <<termVars, disk>>
    BY <1>1, <1>2, <1>3, StillStep DEF termVars
<1>4. CASE Observe(n, m)
    BY <1>1, <1>2, <1>4, ObserveQuiet
<1> QED BY <1>3, <1>4 DEF handle_append_entries_response, termVars

\* snapshots and the answers to them.
LEMMA SnapshotQuiet ==
    ASSUME TypeOK, ElectionInv, NEW n \in Server, NEW m \in Message,
           handle_install_snapshot(n, m) \/ handle_install_snapshot_response(n, m)
    PROVE  Quiet
<1>1. CASE handle_install_snapshot(n, m)
  <2> DEFINE i == m.last_included_index
             u == m.last_included_term
             d == hard_state_seen(n, m)
  <2>1. /\ Current(n, m) /\ Follow(n, m) /\ m.kind = "InstallSnapshot"
        /\ UNCHANGED <<ballots, term_leaders, votes_received>>
        /\ Handle(n, m, m.term, {SnapshotResponse(n, m.from, m.term)})
      BY <1>1 DEF handle_install_snapshot, Receives, voteVars, histVars
  <2>2. \A x \in in_flight' : IsGrant(x) => x \in in_flight
      BY <2>1, InFlight, OtherKinds
  <2>3. d \in Disk /\ i \in Nat /\ u \in Nat
      BY <2>1, HardStateSeenType, MessageFields
  <2>4. CASE disk' = [disk EXCEPT ![n] = d]
      BY <2>1, <2>2, <2>3, <2>4, FollowQuiet
  <2>5. CASE disk' = [disk EXCEPT ![n] = write_snapshot(d, SnapshotMeta(i, u))]
    <3>1. /\ write_snapshot(d, SnapshotMeta(i, u)) \in Disk
          /\ write_snapshot(d, SnapshotMeta(i, u)).current_term = d.current_term
          /\ write_snapshot(d, SnapshotMeta(i, u)).voted_for = d.voted_for
      <4> HIDE DEF d, i, u
      <4> QED BY <2>3, WriteSnapshotType
    <3> QED BY <2>1, <2>2, <2>5, <3>1, FollowQuiet
  <2> QED BY <1>1, <2>4, <2>5 DEF handle_install_snapshot
<1>2. CASE handle_install_snapshot_response(n, m)
  <2>1. /\ Current(n, m) /\ UNCHANGED <<votes_received, ballots, term_leaders>>
        /\ Handle(n, m, m.term, {})
      BY <1>2 DEF handle_install_snapshot_response, voteVars, histVars
  <2>2. \A x \in in_flight' : IsGrant(x) => x \in in_flight
      BY <2>1, InFlight
  <2>3. CASE UNCHANGED <<termVars, disk>>
      BY <2>1, <2>2, <2>3, StillStep DEF termVars
  <2>4. CASE Observe(n, m)
      BY <2>1, <2>2, <2>4, ObserveQuiet
  <2> QED BY <1>2, <2>3, <2>4 DEF handle_install_snapshot_response
<1> QED BY <1>1, <1>2

------------------------------------------------------------------------------
\* Every step of the cluster keeps the invariant and every vote.
LEMMA ElectionStep ==
    ASSUME TypeOK, ElectionInv, [Next]_vars
    PROVE  ElectionInv' /\ VotesKept
<1>1. TypeOK'
    BY NextType
<1>2. Quiet => ElectionInv' /\ VotesKept
    BY <1>1, QuietStep DEF Quiet
<1>3. ASSUME NEW m \in in_flight, Deliver(m.to, m) PROVE ElectionInv' /\ VotesKept
  <2>1. m \in Message /\ m.to \in Server
      BY MessageFields DEF TypeOK
  <2> QED BY <1>1, <1>2, <1>3, <2>1, PreVoteQuiet, PreVoteResponseInv, RequestVoteInv,
          RequestVoteResponseInv, AppendEntriesQuiet, AppendResponseQuiet, SnapshotQuiet
          DEF Deliver
<1>4. CASE UNCHANGED vars
  <2>1. UNCHANGED <<role, current_term, voted_for, votes_received, disk, in_flight,
                    ballots, term_leaders>>
      BY <1>4 DEF vars, nodeVars, termVars, voteVars, histVars
  <2> QED BY <1>2, <2>1, StillStep
<1> QED BY <1>2, <1>3, <1>4, TickQuiet, ProposeQuiet, CompactionQuiet, FaultQuiet DEF Next

\* README.md:44, "at most one leader per term": in every execution, with any
\* number of servers, crashes, restarts, losses and duplicates, no two nodes
\* ever lead the same term.
THEOREM AtMostOneLeaderPerTerm == Spec => []ElectionSafety
<1>1. TypeOK /\ ElectionInv /\ [Next]_vars => ElectionInv'
    BY ElectionStep
<1>2. TypeOK /\ ElectionInv => ElectionSafety
    BY InvImpliesSafety
<1> QED BY <1>1, <1>2, ElectionInit, TypeCorrect, PTL DEF Spec

\* Terms never decrease and a vote is never changed or forgotten within its
\* term, by a handler or by a crash and a restart from disk.
THEOREM VotesNeverChange == Spec => VotesAreFinal
<1>1. TypeOK /\ ElectionInv /\ [Next]_vars => ElectionInv'
    BY ElectionStep
<1>2. TypeOK /\ ElectionInv /\ [Next]_vars =>
          [\A n \in Server :
              /\ current_term'[n] >= current_term[n]
              /\ current_term'[n] = current_term[n] /\ voted_for[n] # None
                    => voted_for'[n] = voted_for[n]]_vars
    BY ElectionStep DEF VotesKept
<1> QED BY <1>1, <1>2, ElectionInit, TypeCorrect, PTL DEF Spec, VotesAreFinal
==============================================================================
