--------------------------- MODULE DurabilityProofs ---------------------------
(***************************************************************************)
(* The log in memory and the disk never drift apart: no assert! or panic!  *)
(* fires, a restart reads back everything a node held, and a leader never  *)
(* overwrites its log, for every cluster and every value of the bounds.    *)
(*                                                                         *)
(* The one dangerous moment is an election.  install_snapshot forgets more *)
(* in memory than on disk, so a new leader may find an old entry where its *)
(* no-op belongs, and append_entries replaces that entry only if its term  *)
(* differs.  DurabilityInv therefore also says that every entry was made   *)
(* by a leader of its term; with election safety, none of a new leader's   *)
(* term can be on a disk already.                                          *)
(***************************************************************************)
EXTENDS SimulatorProofs

BaseOf(d) == IF d.snapshot = None THEN SnapshotMeta(0, 0) ELSE d.snapshot

\* What the log l in memory, the disk d, the commit index c and the role r of
\* a node have to do with each other.
Mirrors(l, d, c, r) ==
    /\ d.log_entries[1] = sentinel(BaseOf(d).last_included_index,
                                   BaseOf(d).last_included_term)
    /\ Contiguous(d.log_entries)
    /\ Len(l) <= Len(d.log_entries)
    /\ \A k \in 1..Len(l) : l[k] = d.log_entries[k]
    /\ first_index(l) <= c
    /\ r = "Leader" => Len(l) = Len(d.log_entries)

DiskMirrorsLog ==
    \A n \in Server : Mirrors(log[n], disk[n], commit_index[n], role[n])

\* Some node led the term of the entry, going by the leaders T.
Led(T, e) == \E q \in Server : <<e.term, q>> \in T

AllLed(T, l) == \A k \in 2..Len(l) : Led(T, l[k])

EntriesWereLed == \A n \in Server : AllLed(term_leaders, disk[n].log_entries)

\* The entries of an AppendEntries follow prev_log_index without a gap.
InOrder(T, m) ==
    m.kind = "AppendEntries" =>
        \A k \in 1..Len(m.entries) : /\ m.entries[k].index = m.prev_log_index + k
                                     /\ Led(T, m.entries[k])

SentInOrder == \A m \in in_flight : InOrder(term_leaders, m)

\* Nobody goes back behind a term it has led, or stands in one again.
LeadersKept == \A a \in term_leaders : a[1] <= current_term[a[2]]

CandidatesAreNew ==
    \A n \in Server : role[n] = "Candidate" => <<current_term[n], n>> \notin term_leaders

LeadersAreListed ==
    \A n \in Server : role[n] = "Leader" => <<current_term[n], n>> \in term_leaders

DurabilityInv ==
    /\ DiskMirrorsLog /\ EntriesWereLed /\ SentInOrder
    /\ LeadersKept /\ CandidatesAreNew /\ LeadersAreListed /\ NoPanic

------------------------------------------------------------------------------
(* What the operators on logs return, element by element.                   *)

\* Vec::truncate to a length within the log.
LEMMA TruncateIs ==
    ASSUME NEW l \in Log, NEW k \in Nat, k <= Len(l)
    PROVE  /\ truncate(l, k) \in Seq(LogEntry)
           /\ Len(truncate(l, k)) = k
           /\ \A i \in 1..k : truncate(l, k)[i] = l[i]
<1>1. truncate(l, k) = SubSeq(l, 1, k)
    BY LogType DEF truncate
<1>2. \A i \in 1..k : l[i] \in LogEntry
    BY LogType
<1>3. /\ SubSeq(l, 1, k) \in Seq(LogEntry)
      /\ Len(SubSeq(l, 1, k)) = IF 1 <= k THEN k - 1 + 1 ELSE 0
      /\ \A i \in 1..(k - 1 + 1) : SubSeq(l, 1, k)[i] = l[1 + i - 1]
    BY <1>2, SubSeqProperties
<1> QED BY <1>1, <1>3

\* Entries put behind the first k of a log.
LEMMA SpliceIs ==
    ASSUME NEW l \in Log, NEW k \in Nat, k <= Len(l), NEW es \in Seq(LogEntry)
    PROVE  /\ truncate(l, k) \o es \in Seq(LogEntry)
           /\ Len(truncate(l, k) \o es) = k + Len(es)
           /\ \A i \in 1..k : (truncate(l, k) \o es)[i] = l[i]
           /\ \A i \in 1..Len(es) : (truncate(l, k) \o es)[k + i] = es[i]
<1> DEFINE s == truncate(l, k)
<1>1. s \in Seq(LogEntry) /\ Len(s) = k /\ \A i \in 1..k : s[i] = l[i]
    BY TruncateIs
<1> HIDE DEF s
<1>2. /\ s \o es \in Seq(LogEntry)
      /\ Len(s \o es) = Len(s) + Len(es)
      /\ \A i \in 1..Len(s) + Len(es) :
             (s \o es)[i] = IF i <= Len(s) THEN s[i] ELSE es[i - Len(s)]
    BY <1>1, ConcatProperties
<1>3. Len(es) \in Nat
    OBVIOUS
<1>4. \A i \in 1..k : (s \o es)[i] = l[i]
    BY <1>1, <1>2, <1>3
<1>5. \A i \in 1..Len(es) : (s \o es)[k + i] = es[i]
  <2> SUFFICES ASSUME NEW i \in 1..Len(es) PROVE (s \o es)[k + i] = es[i]
      OBVIOUS
  <2>1. k + i \in 1..Len(s) + Len(es) /\ ~(k + i <= Len(s)) /\ k + i - Len(s) = i
      BY <1>1, <1>3
  <2> QED BY <1>2, <2>1
<1> QED BY <1>1, <1>2, <1>4, <1>5 DEF s

\* RaftLog::compact above the base: the sentinel, and what follows the index.
LEMMA CompactIs ==
    ASSUME NEW l \in Log, NEW i \in Nat, NEW t \in Nat, i > first_index(l)
    PROVE  LET c == compact(l, i, t)
               s == i - first_index(l)
           IN  /\ Len(c) = IF s + 1 < Len(l) THEN Len(l) - s ELSE 1
               /\ c[1] = sentinel(i, t)
               /\ \A k \in 2..Len(c) : c[k] = l[k + s] /\ k + s \in 2..Len(l)
<1> DEFINE s == i - first_index(l)
           u == SubSeq(l, s + 2, Len(l))
           h == << sentinel(i, t) >>
<1>0. ~(i <= first_index(l))
    BY LogType
<1>1. compact(l, i, t) = h \o u
    BY <1>0, Zenon DEF compact
<1>2. s \in Nat /\ s >= 1 /\ Len(l) \in Nat /\ Len(l) >= 1
    BY LogType
<1> HIDE DEF s
<1>3. /\ u \in Seq(LogEntry)
      /\ Len(u) = IF s + 2 <= Len(l) THEN Len(l) - (s + 2) + 1 ELSE 0
      /\ \A j \in 1..(Len(l) - (s + 2) + 1) : u[j] = l[s + 2 + j - 1]
  <2>1. \A j \in s + 2..Len(l) : l[j] \in LogEntry
      BY <1>2, LogType
  <2> QED BY <1>2, <2>1, SubSeqProperties
<1> HIDE DEF u
<1>4. h \in Seq(LogEntry) /\ Len(h) = 1 /\ h[1] = sentinel(i, t)
  <2> DEFINE e == sentinel(i, t)
  <2>1. e \in LogEntry
      BY SentinelLog
  <2> HIDE DEF e
  <2>2. << e >> \in Seq(LogEntry) /\ Len(<< e >>) = 1 /\ << e >>[1] = e
      BY <2>1
  <2> QED BY <2>2, Zenon DEF e
<1> HIDE DEF h
<1>5. /\ Len(h \o u) = 1 + Len(u)
      /\ \A k \in 1..1 + Len(u) : (h \o u)[k] = IF k <= 1 THEN h[k] ELSE u[k - 1]
  <2>1. /\ Len(h \o u) = Len(h) + Len(u)
        /\ \A k \in 1..Len(h) + Len(u) :
               (h \o u)[k] = IF k <= Len(h) THEN h[k] ELSE u[k - Len(h)]
      BY <1>3, <1>4, ConcatProperties
  <2> QED BY <1>4, <2>1
<1>6. \A k \in 2..Len(h \o u) : (h \o u)[k] = l[k + s] /\ k + s \in 2..Len(l)
  <2> SUFFICES ASSUME NEW k \in 2..Len(h \o u)
               PROVE  (h \o u)[k] = l[k + s] /\ k + s \in 2..Len(l)
      OBVIOUS
  <2>1. Len(u) \in Nat /\ k \in 1..1 + Len(u) /\ k \in Nat /\ k >= 2
      BY <1>2, <1>3, <1>5
  <2>2. s + 2 <= Len(l) /\ k - 1 \in 1..(Len(l) - (s + 2) + 1)
      BY <1>2, <1>3, <2>1
  <2>3. (h \o u)[k] = u[k - 1]
      BY <1>5, <2>1
  <2>4. u[k - 1] = l[s + 2 + (k - 1) - 1]
      BY <1>3, <2>2
  <2>5. s + 2 + (k - 1) - 1 = k + s
      BY <1>2, <2>1
  <2>6. k + s \in 2..Len(l)
      BY <1>2, <2>1, <2>2
  <2> QED BY <2>3, <2>4, <2>5, <2>6
<1>7. Len(h \o u) = IF s + 1 < Len(l) THEN Len(l) - s ELSE 1
    BY <1>2, <1>3, <1>5
<1>8. (h \o u)[1] = sentinel(i, t)
    BY <1>2, <1>3, <1>4, <1>5
<1> QED BY <1>1, <1>6, <1>7, <1>8 DEF s

\* entries_from above the base: the entries at and after the index.
LEMMA EntriesFromIs ==
    ASSUME NEW l \in Log, NEW i \in Nat, i > first_index(l)
    PROVE  LET es == entries_from(l, i)
               s  == i - first_index(l)
           IN  /\ es \in Seq(LogEntry)
               /\ \A k \in 1..Len(es) : es[k] = l[k + s] /\ k + s \in 2..Len(l)
               /\ Len(es) = IF s + 1 <= Len(l) THEN Len(l) - s ELSE 0
<1> DEFINE s  == i - first_index(l)
           es == SubSeq(l, s + 1, Len(l))
<1>0. ~(i <= first_index(l))
    BY LogType
<1>1. entries_from(l, i) = es
    BY <1>0, Zenon DEF entries_from
<1>2. s \in Nat /\ s >= 1 /\ Len(l) \in Nat
    BY LogType
<1> HIDE DEF s
<1>3. /\ es \in Seq(LogEntry)
      /\ Len(es) = IF s + 1 <= Len(l) THEN Len(l) - (s + 1) + 1 ELSE 0
      /\ \A j \in 1..(Len(l) - (s + 1) + 1) : es[j] = l[s + 1 + j - 1]
  <2>1. \A j \in s + 1..Len(l) : l[j] \in LogEntry
      BY <1>2, LogType
  <2> QED BY <1>2, <2>1, SubSeqProperties
<1> HIDE DEF es
<1>4. \A k \in 1..Len(es) : es[k] = l[k + s] /\ k + s \in 2..Len(l)
  <2> SUFFICES ASSUME NEW k \in 1..Len(es) PROVE es[k] = l[k + s] /\ k + s \in 2..Len(l)
      OBVIOUS
  <2>1. s + 1 <= Len(l) /\ k \in 1..(Len(l) - (s + 1) + 1) /\ s + 1 + k - 1 = k + s
      BY <1>2, <1>3
  <2>2. es[k] = l[s + 1 + k - 1]
      BY <1>3, <2>1
  <2> QED BY <1>2, <2>1, <2>2
<1>5. Len(es) = IF s + 1 <= Len(l) THEN Len(l) - s ELSE 0
    BY <1>2, <1>3
<1> QED BY <1>1, <1>3, <1>4, <1>5 DEF s

\* The entries already held are held with the terms they have.
LEMMA AlreadyHeldIs ==
    ASSUME NEW l, NEW es \in Seq(LogEntry)
    PROVE  \A j \in 1..already_held(l, es) : term_at(l, es[j].index) = es[j].term
<1> DEFINE S == {k \in 0..Len(es) : \A j \in 1..k : term_at(l, es[j].index) = es[j].term}
<1>1. S \subseteq Nat /\ 0 \in S /\ Len(es) \in Nat /\ \A k \in S : k <= Len(es)
    OBVIOUS
<1>2. Max(S) \in S
  <2> HIDE DEF S
  <2> QED BY <1>1, MaxIn
<1> QED BY <1>2 DEF already_held

\* StableDisk::append_entries when its first entry is new to the disk: the
\* disk is cut in front of it, and there is no gap to panic about.
LEMMA AppendToIs ==
    ASSUME NEW l \in Log, NEW es \in Seq(LogEntry), es # << >>, NEW k \in Nat,
           k <= Len(l), es[1].index - first_index(l) = k,
           k = Len(l) \/ l[k + 1].term # es[1].term
    PROVE  append_to(l, es) = truncate(l, k) \o es /\ ~append_panics(l, es)
<1> DEFINE new == new_on_disk(l, es)
<1>1. Len(l) \in Nat /\ Len(es) \in Nat /\ Len(es) >= 1
    BY LogType, EmptySeq
<1>2. 1 \in new /\ new \subseteq 1..Len(es)
    BY <1>1 DEF new_on_disk
<1> HIDE DEF new
<1>3. Min(new) = 1
  <2>1. new \subseteq Nat /\ new # {} /\ \A x \in new : x >= 1
      BY <1>1, <1>2
  <2>2. Min(new) \in new /\ Min(new) <= 1
      BY <1>2, <2>1, MinIn
  <2>3. Min(new) \in Nat /\ Min(new) >= 1
      BY <2>1, <2>2
  <2> QED BY <2>2, <2>3
<1>4. new # {}
    BY <1>2
<1>5. SubSeq(es, 1, Len(es)) = es
    BY SubSeqFull
<1>6. append_to(l, es) = truncate(l, k) \o es
    BY <1>3, <1>4, <1>5, Zenon DEF append_to, new
<1>7. ~append_panics(l, es)
  <2>1. ~(k > Len(l))
      BY <1>1
  <2> QED BY <1>3, <2>1, Zenon DEF append_panics, new
<1> QED BY <1>6, <1>7

\* StableDisk::truncate_and_append above the base and not past the end.
LEMMA DiskSpliceIs ==
    ASSUME NEW d \in Disk, NEW i \in Nat, NEW es \in Seq(LogEntry), es # << >>,
           es[1].index = i, i > first_index(d.log_entries),
           i - first_index(d.log_entries) <= Len(d.log_entries)
    PROVE  /\ ~disk_truncate_panics(d, i, es)
           /\ disk_truncate_and_append(d, i, es).log_entries
                = truncate(d.log_entries, i - first_index(d.log_entries)) \o es
           /\ disk_truncate_and_append(d, i, es).snapshot = d.snapshot
<1> DEFINE l == d.log_entries
           k == i - first_index(l)
           cut == truncate(l, k)
           c == [d EXCEPT !.log_entries = disk_truncate(@, i)]
<1>1. l \in Log /\ first_index(l) \in Nat /\ Len(l) \in Nat
    BY DiskType, LogType
<1>2. k \in Nat /\ k >= 1 /\ k <= Len(l)
    BY <1>1
<1>3. cut \in Log /\ Len(cut) = k /\ cut[1] = l[1]
  <2> HIDE DEF l, k
  <2> QED BY <1>1, <1>2, TruncateIs, TruncateType
<1>4. disk_truncate(l, i) = cut
    BY DEF disk_truncate
<1>5. c.log_entries = cut /\ c.snapshot = d.snapshot
    BY <1>4 DEF Disk
<1>6. es[1].index - first_index(cut) = k
    BY <1>3 DEF first_index
<1>7. append_to(cut, es) = truncate(cut, k) \o es /\ ~append_panics(cut, es)
  <2> HIDE DEF cut, k
  <2> QED BY <1>2, <1>3, <1>6, AppendToIs
<1>8. truncate(cut, k) = cut
  <2> HIDE DEF cut, k
  <2>1. truncate(cut, k) = SubSeq(cut, 1, Len(cut))
      BY <1>2, <1>3 DEF truncate
  <2>2. cut \in Seq(LogEntry)
      BY <1>3, LogType
  <2> QED BY <2>1, <2>2, SubSeqFull
<1>9. ~disk_truncate_panics(d, i, es)
  <2>1. ~(i <= first_index(l))
      BY <1>1
  <2> QED BY <1>4, <1>7, <2>1 DEF disk_truncate_panics
<1>10. c \in Disk
    BY <1>3, <1>4 DEF Disk
<1>11. disk_truncate_and_append(d, i, es) = [c EXCEPT !.log_entries = append_to(cut, es)]
    BY <1>5 DEF disk_truncate_and_append, append_entries
<1> HIDE DEF c, cut
<1>12. /\ disk_truncate_and_append(d, i, es).log_entries = append_to(cut, es)
       /\ disk_truncate_and_append(d, i, es).snapshot = c.snapshot
    BY <1>10, <1>11 DEF Disk
<1> QED BY <1>5, <1>7, <1>8, <1>9, <1>12 DEF cut

------------------------------------------------------------------------------
(* How the writes of the handlers keep log and disk together.               *)

\* Every entry of s behind its base is one of l.
From(s, l) == \A k \in 2..Len(s) : \E j \in 2..Len(l) : s[k] = l[j]

\* Indices in memory follow from the ones on disk.
LEMMA MirrorsIndices ==
    ASSUME NEW l \in Log, NEW d \in Disk, NEW c \in Nat, NEW r, Mirrors(l, d, c, r)
    PROVE  /\ l[1] = d.log_entries[1] /\ first_index(l) = first_index(d.log_entries)
           /\ last_index(l) = first_index(l) + Len(l) - 1
           /\ Contiguous(l)
           /\ d.log_entries \in Log /\ Len(l) <= Len(d.log_entries)
<1> DEFINE dl == d.log_entries
<1>1. dl \in Log
    BY DiskType
<1>2. /\ Len(l) \in Nat /\ Len(l) >= 1 /\ Len(dl) \in Nat /\ first_index(l) \in Nat
    BY <1>1, LogType
<1>3. /\ Contiguous(dl) /\ Len(l) <= Len(dl) /\ \A k \in 1..Len(l) : l[k] = dl[k]
    BY DEF Mirrors
<1> HIDE DEF dl
<1>4. l[1] = dl[1] /\ first_index(l) = first_index(dl)
    BY <1>2, <1>3 DEF first_index
<1>5. \A k \in 1..Len(l) : l[k].index = l[1].index + k - 1
    BY <1>2, <1>3, <1>4 DEF Contiguous
<1>6. last_index(l) = first_index(l) + Len(l) - 1
    BY <1>2, <1>5 DEF last_index, first_index
<1> QED BY <1>1, <1>3, <1>4, <1>5, <1>6 DEF dl, Contiguous

\* A write of term and vote, a higher commit index and the end of a leadership
\* leave log and disk together.
LEMMA MirrorsStays ==
    ASSUME NEW l \in Log, NEW d \in Disk, NEW c \in Nat, NEW r, Mirrors(l, d, c, r),
           NEW e, e.log_entries = d.log_entries, e.snapshot = d.snapshot,
           NEW b \in Nat, b >= c, NEW q, q = "Leader" => r = "Leader"
    PROVE  Mirrors(l, e, b, q)
<1>1. first_index(l) \in Nat
    BY LogType
<1>2. BaseOf(e) = BaseOf(d)
    BY DEF BaseOf
<1>3. first_index(l) <= b
    BY <1>1 DEF Mirrors
<1> QED BY <1>2, <1>3, Zenon DEF Mirrors

\* One new entry behind the log, where the disk ends or has another term.
LEMMA MirrorsAppend ==
    ASSUME NEW l \in Log, NEW d \in Disk, NEW c \in Nat, NEW r, Mirrors(l, d, c, r),
           NEW e \in LogEntry, e.index = last_index(l) + 1, NEW q,
           Len(l) = Len(d.log_entries) \/ d.log_entries[Len(l) + 1].term # e.term
    PROVE  LET s == append_entries(d, << e >>).log_entries
           IN  /\ Mirrors(Append(l, e), append_entries(d, << e >>), c, q)
               /\ ~append_panics(d.log_entries, << e >>)
               /\ \A k \in 2..Len(s) : s[k] = e \/ \E j \in 2..Len(d.log_entries) :
                                                        s[k] = d.log_entries[j]
<1> DEFINE dl == d.log_entries
           es == << e >>
           k  == Len(l)
           s  == truncate(dl, k) \o es
           a  == Append(l, e)
<1>1. /\ dl \in Log /\ Len(dl) \in Nat /\ k \in Nat /\ k >= 1 /\ k <= Len(dl)
      /\ first_index(l) \in Nat /\ first_index(dl) = first_index(l) /\ l[1] = dl[1]
      /\ last_index(l) = first_index(l) + k - 1
  <2>1. dl \in Log
      BY DiskType
  <2> QED BY <2>1, LogType, MirrorsIndices
<1>2. /\ Contiguous(dl) /\ \A i \in 1..k : l[i] = dl[i]
      /\ dl[1] = sentinel(BaseOf(d).last_included_index, BaseOf(d).last_included_term)
      /\ first_index(l) <= c
    BY DEF Mirrors
<1>3. k = Len(dl) \/ dl[k + 1].term # e.term
    OBVIOUS
<1>4. append_entries(d, es).log_entries = append_to(dl, es)
      /\ append_entries(d, es).snapshot = d.snapshot
    BY DEF append_entries, Disk
<1> HIDE DEF dl
<1>5. es \in Seq(LogEntry) /\ es # << >> /\ Len(es) = 1 /\ es[1] = e
    OBVIOUS
<1> HIDE DEF es
<1>6. es[1].index - first_index(dl) = k
    BY <1>1, <1>5
<1>7. append_to(dl, es) = s /\ ~append_panics(dl, es)
  <2> HIDE DEF k
  <2>1. k = Len(dl) \/ dl[k + 1].term # es[1].term
      BY <1>3, <1>5
  <2> QED BY <1>1, <1>5, <1>6, <2>1, AppendToIs
<1>8. /\ Len(s) = k + 1 /\ \A i \in 1..k : s[i] = dl[i]
      /\ s[k + 1] = e
  <2> HIDE DEF k
  <2>1. /\ Len(s) = k + Len(es) /\ \A i \in 1..k : s[i] = dl[i]
        /\ \A i \in 1..Len(es) : s[k + i] = es[i]
      BY <1>1, <1>5, SpliceIs
  <2> HIDE DEF s
  <2>2. 1 \in 1..Len(es)
      BY <1>5
  <2> QED BY <1>5, <2>1, <2>2
<1> HIDE DEF s
<1>9. /\ Len(a) = k + 1 /\ \A i \in 1..k : a[i] = l[i]
      /\ a[k + 1] = e
  <2>1. l \in Seq(LogEntry)
      BY LogType
  <2> QED BY <2>1, AppendProperties
<1> HIDE DEF a
<1>10. Contiguous(s)
  <2> SUFFICES ASSUME NEW i \in 1..k + 1 PROVE s[i].index = s[1].index + i - 1
      BY <1>8 DEF Contiguous
  <2>1. s[1] = dl[1] /\ s[1].index = first_index(l) /\ first_index(l) \in Nat
      BY <1>1, <1>8 DEF first_index
  <2>2. CASE i = k + 1
      BY <1>1, <1>8, <2>1, <2>2
  <2>3. CASE i # k + 1
    <3>1. i \in 1..k /\ i \in 1..Len(dl)
        BY <1>1, <2>3
    <3> QED BY <1>2, <1>8, <2>1, <3>1 DEF Contiguous
  <2> QED BY <2>2, <2>3
<1>11. \A i \in 1..k + 1 : a[i] = s[i]
  <2> SUFFICES ASSUME NEW i \in 1..k + 1 PROVE a[i] = s[i]
      OBVIOUS
  <2>1. CASE i = k + 1
      BY <1>8, <1>9, <2>1, Zenon
  <2>2. CASE i # k + 1
    <3>1. i \in 1..k
        BY <1>1, <2>2
    <3> QED BY <1>2, <1>8, <1>9, <3>1
  <2> QED BY <2>1, <2>2
<1>12. first_index(a) = first_index(l) /\ s[1] = dl[1]
    BY <1>1, <1>8, <1>9 DEF first_index
<1>13. Mirrors(a, append_entries(d, es), c, q)
  <2>1. BaseOf(append_entries(d, es)) = BaseOf(d)
      BY <1>4 DEF BaseOf
  <2>2. append_entries(d, es).log_entries = s /\ Len(a) = Len(s)
      BY <1>4, <1>7, <1>8, <1>9
  <2>3. /\ s[1] = sentinel(BaseOf(append_entries(d, es)).last_included_index,
                           BaseOf(append_entries(d, es)).last_included_term)
      BY <1>2, <1>12, <2>1
  <2>4. Len(a) <= Len(s) /\ \A i \in 1..Len(a) : a[i] = s[i]
      BY <1>1, <1>8, <1>9, <1>11
  <2>5. first_index(a) <= c
      BY <1>2, <1>12
  <2> QED BY <1>10, <2>2, <2>3, <2>4, <2>5, Zenon DEF Mirrors
<1>14. \A i \in 2..Len(s) : s[i] = e \/ \E j \in 2..Len(dl) : s[i] = dl[j]
  <2> SUFFICES ASSUME NEW i \in 2..Len(s), i # k + 1 PROVE \E j \in 2..Len(dl) : s[i] = dl[j]
      BY <1>8
  <2>1. i \in 1..k /\ i \in 2..Len(dl)
      BY <1>1, <1>8
  <2> QED BY <1>8, <2>1
<1> QED BY <1>4, <1>7, <1>13, <1>14 DEF es, a, dl

\* The suffix of an AppendEntries, put behind an entry that log and disk share.
LEMMA MirrorsSplice ==
    ASSUME NEW l \in Log, NEW d \in Disk, NEW c \in Nat, NEW r, Mirrors(l, d, c, r),
           NEW i \in Nat, NEW es \in Seq(LogEntry), es # << >>, NEW q,
           i > first_index(l), i - first_index(l) <= Len(l),
           \A k \in 1..Len(es) : es[k].index = i + k - 1
    PROVE  LET dl == d.log_entries
               e  == disk_truncate_and_append(d, i, es)
           IN  /\ Mirrors(truncate_and_append(l, i, es), e, c, q)
               /\ truncate_ok(l, i) /\ ~disk_truncate_panics(d, i, es)
               /\ \A k \in 2..Len(e.log_entries) :
                      \/ \E j \in 1..Len(es) : e.log_entries[k] = es[j]
                      \/ \E j \in 2..Len(dl) : e.log_entries[k] = dl[j]
<1> DEFINE dl == d.log_entries
           k  == i - first_index(l)
           s  == truncate(dl, k) \o es
           a  == truncate(l, k) \o es
           e  == disk_truncate_and_append(d, i, es)
<1>1. /\ dl \in Log /\ Len(dl) \in Nat /\ Len(l) \in Nat /\ Len(l) <= Len(dl)
      /\ first_index(l) \in Nat /\ first_index(dl) = first_index(l) /\ l[1] = dl[1]
  <2>1. dl \in Log
      BY DiskType
  <2> QED BY <2>1, LogType, MirrorsIndices
<1>2. /\ Contiguous(dl) /\ \A j \in 1..Len(l) : l[j] = dl[j]
      /\ dl[1] = sentinel(BaseOf(d).last_included_index, BaseOf(d).last_included_term)
      /\ first_index(l) <= c
    BY DEF Mirrors
<1>3. k \in Nat /\ k >= 1 /\ k <= Len(l) /\ k <= Len(dl)
    BY <1>1
<1>4. Len(es) \in Nat /\ Len(es) >= 1 /\ es[1].index = i
  <2>1. Len(es) \in Nat /\ Len(es) >= 1
      BY EmptySeq
  <2> QED BY <2>1
<1>5. ~disk_truncate_panics(d, i, es) /\ e.log_entries = s /\ e.snapshot = d.snapshot
  <2>1. i - first_index(dl) = k /\ i > first_index(dl)
      BY <1>1
  <2> HIDE DEF k
  <2>2. i - first_index(dl) <= Len(dl)
      BY <1>3, <2>1
  <2> QED BY <1>4, <2>1, <2>2, DiskSpliceIs
<1> HIDE DEF dl, k, e
<1>6. /\ Len(s) = k + Len(es) /\ \A j \in 1..k : s[j] = dl[j]
      /\ \A j \in 1..Len(es) : s[k + j] = es[j]
    BY <1>1, <1>3, SpliceIs
<1>7. /\ Len(a) = k + Len(es) /\ \A j \in 1..k : a[j] = l[j]
      /\ \A j \in 1..Len(es) : a[k + j] = es[j]
    BY <1>1, <1>3, SpliceIs
<1> HIDE DEF a, s
<1>8. ASSUME NEW j \in 1..k + Len(es) PROVE j \in 1..k \/ \E h \in 1..Len(es) : j = k + h
  <2>1. CASE j <= k
      BY <1>3, <2>1
  <2>2. CASE ~(j <= k)
    <3>1. j - k \in 1..Len(es) /\ j = k + (j - k)
        BY <1>3, <1>4, <2>2
    <3> QED BY <3>1
  <2> QED BY <2>1, <2>2
<1>9. Contiguous(s)
  <2> SUFFICES ASSUME NEW j \in 1..k + Len(es) PROVE s[j].index = s[1].index + j - 1
      BY <1>6 DEF Contiguous
  <2>1. s[1].index = first_index(l)
      BY <1>1, <1>3, <1>6 DEF first_index
  <2>2. CASE j \in 1..k
    <3>1. j \in 1..Len(dl) /\ 1 \in 1..k
        BY <1>1, <1>3, <2>2
    <3> QED BY <1>2, <1>6, <2>2, <3>1 DEF Contiguous
  <2>3. CASE \E h \in 1..Len(es) : j = k + h
    <3>1. PICK h \in 1..Len(es) : j = k + h
        BY <2>3
    <3>2. s[j] = es[h] /\ es[h].index = i + h - 1
        BY <1>6, <3>1
    <3>3. i + h - 1 = first_index(l) + j - 1
        BY <1>1, <1>4, <3>1 DEF k
    <3> QED BY <2>1, <3>2, <3>3
  <2> QED BY <1>8, <2>2, <2>3
<1>10. \A j \in 1..Len(a) : a[j] = s[j]
  <2> SUFFICES ASSUME NEW j \in 1..k + Len(es) PROVE a[j] = s[j]
      BY <1>7
  <2>1. CASE j \in 1..k
    <3>1. j \in 1..Len(l)
        BY <1>1, <1>3, <2>1
    <3> QED BY <1>2, <1>6, <1>7, <2>1, <3>1
  <2>2. ASSUME NEW h \in 1..Len(es), j = k + h PROVE a[j] = s[j]
      BY <1>6, <1>7, <2>2, Zenon
  <2> QED BY <1>8, <2>1, <2>2
<1>11. first_index(a) = first_index(l) /\ s[1] = dl[1]
  <2>1. 1 \in 1..k
      BY <1>3
  <2> QED BY <1>6, <1>7, <2>1, Zenon DEF first_index
<1>12. Mirrors(a, e, c, q)
  <2>1. BaseOf(e) = BaseOf(d)
      BY <1>5 DEF BaseOf
  <2>2. s[1] = sentinel(BaseOf(e).last_included_index, BaseOf(e).last_included_term)
      BY <1>2, <1>11, <2>1
  <2>3. Len(a) = Len(s) /\ Len(a) <= Len(s)
      BY <1>3, <1>4, <1>6, <1>7
  <2>4. first_index(a) <= c
      BY <1>2, <1>11
  <2> QED BY <1>5, <1>9, <1>10, <2>2, <2>3, <2>4, Zenon DEF Mirrors
<1>13. \A j \in 2..Len(s) : \/ \E h \in 1..Len(es) : s[j] = es[h]
                            \/ \E h \in 2..Len(dl) : s[j] = dl[h]
  <2> SUFFICES ASSUME NEW j \in 2..Len(s)
               PROVE  \/ \E h \in 1..Len(es) : s[j] = es[h]
                      \/ \E h \in 2..Len(dl) : s[j] = dl[h]
      OBVIOUS
  <2>1. j \in 1..k + Len(es)
      BY <1>6
  <2>2. CASE j \in 1..k
    <3>1. j \in 2..Len(dl)
        BY <1>1, <1>3, <2>2
    <3> QED BY <1>6, <2>2, <3>1
  <2> QED BY <1>6, <1>8, <2>1, <2>2
<1>14. truncate_ok(l, i) /\ truncate_and_append(l, i, es) = a
    BY DEF truncate_ok, truncate_and_append, a, k
<1> QED BY <1>5, <1>12, <1>13, <1>14 DEF dl, e

\* PersistSnapshot above the base: what is left on disk still has no gap.
LEMMA SnapshotIs ==
    ASSUME NEW d \in Disk, Contiguous(d.log_entries), NEW i \in Nat, NEW t \in Nat,
           i > first_index(d.log_entries)
    PROVE  LET e == write_snapshot(d, SnapshotMeta(i, t))
           IN  /\ e.log_entries = compact(d.log_entries, i, t)
               /\ e.log_entries \in Log
               /\ e.log_entries[1] = sentinel(BaseOf(e).last_included_index,
                                              BaseOf(e).last_included_term)
               /\ Contiguous(e.log_entries)
               /\ From(e.log_entries, d.log_entries)
               /\ e.log_entries[1] = sentinel(i, t)
<1> DEFINE dl == d.log_entries
           s  == i - first_index(dl)
           u  == compact(dl, i, t)
           e  == write_snapshot(d, SnapshotMeta(i, t))
<1>1. dl \in Log /\ Len(dl) \in Nat /\ first_index(dl) \in Nat /\ s \in Nat
    BY DiskType, LogType
<1>2. /\ e.log_entries = u /\ e.snapshot = SnapshotMeta(i, t)
      /\ SnapshotMeta(i, t) # None
      /\ SnapshotMeta(i, t).last_included_index = i
      /\ SnapshotMeta(i, t).last_included_term = t
  <2>1. e.log_entries = u /\ e.snapshot = SnapshotMeta(i, t)
      BY DEF write_snapshot, SnapshotMeta, Disk
  <2>2. /\ SnapshotMeta(i, t).last_included_index = i
        /\ SnapshotMeta(i, t).last_included_term = t
      BY DEF SnapshotMeta
  <2>3. SnapshotMeta(i, t) # None
      BY NoneAssumption DEF SnapshotMeta
  <2> QED BY <2>1, <2>2, <2>3
<1>3. u \in Log
  <2> HIDE DEF dl
  <2> QED BY <1>1, CompactType
<1>4. /\ u[1] = sentinel(i, t)
      /\ \A k \in 2..Len(u) : u[k] = dl[k + s] /\ k + s \in 2..Len(dl)
  <2> HIDE DEF dl
  <2>1. i > first_index(dl)
      BY DEF dl
  <2> QED BY <1>1, <2>1, CompactIs
<1> HIDE DEF u
<1>5. BaseOf(e) = SnapshotMeta(i, t)
    BY <1>2 DEF BaseOf
<1>6. Contiguous(u)
  <2> SUFFICES ASSUME NEW k \in 1..Len(u) PROVE u[k].index = u[1].index + k - 1
      BY DEF Contiguous
  <2>1. u[1].index = i
      BY <1>4 DEF sentinel
  <2>2. CASE k = 1
      BY <2>1, <2>2
  <2>3. CASE k # 1
    <3>1. k \in 2..Len(u)
        BY <2>3
    <3>2. u[k] = dl[k + s] /\ k + s \in 1..Len(dl)
        BY <1>1, <1>4, <3>1
    <3>3. dl[k + s].index = first_index(dl) + (k + s) - 1
        BY <3>2 DEF Contiguous, first_index
    <3>4. first_index(dl) + (k + s) - 1 = i + k - 1
        BY <1>1, <3>1
    <3> QED BY <2>1, <3>2, <3>3, <3>4
  <2> QED BY <2>2, <2>3
<1>7. From(u, dl)
    BY <1>4 DEF From
<1> HIDE DEF e, dl
<1> QED BY <1>2, <1>3, <1>4, <1>5, <1>6, <1>7, Zenon DEF e, dl, u

\* compact_logs at the commit index, which lies at the base or above it; the
\* log may have shrunk below it since.
LEMMA MirrorsCompact ==
    ASSUME NEW l \in Log, NEW d \in Disk, NEW c \in Nat, NEW r, Mirrors(l, d, c, r),
           NEW t \in Nat, term_at(l, c) \in {None, t}
    PROVE  LET e == write_snapshot(d, SnapshotMeta(c, t))
           IN  /\ Mirrors(compact(l, c, t), e, c, r)
               /\ From(e.log_entries, d.log_entries)
<1> DEFINE dl == d.log_entries
           e  == write_snapshot(d, SnapshotMeta(c, t))
<1>1. /\ dl \in Log /\ Len(dl) \in Nat /\ Len(l) \in Nat /\ Len(l) <= Len(dl)
      /\ first_index(l) \in Nat /\ first_index(dl) = first_index(l) /\ l[1] = dl[1]
      /\ Len(l) >= 1
  <2>1. dl \in Log
      BY DiskType
  <2> QED BY <2>1, LogType, MirrorsIndices
<1>2. /\ Contiguous(dl) /\ \A j \in 1..Len(l) : l[j] = dl[j]
      /\ dl[1] = sentinel(BaseOf(d).last_included_index, BaseOf(d).last_included_term)
      /\ first_index(l) <= c /\ (r = "Leader" => Len(l) = Len(dl))
    BY DEF Mirrors
<1>3. CASE c = first_index(l)
  <2>1. compact(l, c, t) = l /\ compact(dl, c, t) = dl
      BY <1>1, <1>3 DEF compact
  <2>2. /\ SnapshotMeta(c, t).last_included_index = c
        /\ SnapshotMeta(c, t).last_included_term = t
        /\ SnapshotMeta(c, t) # None
      BY NoneAssumption DEF SnapshotMeta
  <2>3. e.log_entries = dl /\ e.snapshot = SnapshotMeta(c, t)
      BY <2>1 DEF write_snapshot, SnapshotMeta, Disk
  <2>4. BaseOf(e) = SnapshotMeta(c, t)
      BY <2>2, <2>3 DEF BaseOf
  <2>5. term_at(l, c) = l[1].term
      BY <1>1, <1>3 DEF term_at
  <2>6. dl[1].index = c /\ dl[1].term = t /\ dl[1].command = Noop
    <3>1. l[1].term \in Nat
        BY LogType
    <3>2. l[1].term = t
        BY <2>5, <3>1, NoneAssumption
    <3>3. dl[1].command = Noop
        BY <1>2 DEF sentinel
    <3> QED BY <1>1, <1>3, <3>2, <3>3 DEF first_index
  <2>7. dl[1] = sentinel(c, t)
    <3>1. PICK i, u : dl[1] = sentinel(i, u)
        BY <1>2
    <3>2. i = c /\ u = t
        BY <2>6, <3>1 DEF sentinel
    <3> QED BY <3>1, <3>2
  <2>8. From(dl, dl)
      BY DEF From
  <2> HIDE DEF e, dl
  <2> QED BY <1>1, <1>2, <2>1, <2>2, <2>3, <2>4, <2>7, <2>8, Zenon DEF Mirrors, e, dl
<1>4. CASE c # first_index(l)
  <2>1. c > first_index(l) /\ c > first_index(dl)
      BY <1>1, <1>2, <1>4
  <2> DEFINE s == c - first_index(l)
             a == compact(l, c, t)
             u == compact(dl, c, t)
  <2>2. /\ e.log_entries = u /\ u \in Log
        /\ u[1] = sentinel(BaseOf(e).last_included_index, BaseOf(e).last_included_term)
        /\ Contiguous(u) /\ From(u, dl) /\ u[1] = sentinel(c, t)
      BY <1>2, <2>1, SnapshotIs
  <2> HIDE DEF e, dl
  <2>3. /\ Len(u) = IF s + 1 < Len(dl) THEN Len(dl) - s ELSE 1
        /\ \A k \in 2..Len(u) : u[k] = dl[k + s] /\ k + s \in 2..Len(dl)
      BY <1>1, <2>1, CompactIs
  <2>4. /\ Len(a) = IF s + 1 < Len(l) THEN Len(l) - s ELSE 1
        /\ a[1] = sentinel(c, t)
        /\ \A k \in 2..Len(a) : a[k] = l[k + s] /\ k + s \in 2..Len(l)
      BY <1>1, <2>1, CompactIs
  <2> HIDE DEF a, u
  <2>5. s \in Nat
      BY <1>1, <2>1
  <2> HIDE DEF s
  <2>6. Len(a) <= Len(u) /\ Len(a) \in Nat /\ Len(u) \in Nat
      BY <1>1, <2>3, <2>4, <2>5
  <2>7. \A k \in 1..Len(a) : a[k] = u[k]
    <3> SUFFICES ASSUME NEW k \in 1..Len(a) PROVE a[k] = u[k]
        OBVIOUS
    <3>1. CASE k = 1
        BY <2>2, <2>4, <3>1, Zenon
    <3>2. CASE k # 1
      <4>1. k \in 2..Len(a) /\ k \in 2..Len(u)
          BY <2>6, <3>2
      <4>2. a[k] = l[k + s] /\ u[k] = dl[k + s] /\ k + s \in 1..Len(l)
          BY <2>3, <2>4, <2>5, <4>1
      <4> QED BY <1>2, <4>2
    <3> QED BY <3>1, <3>2
  <2>8. first_index(a) = c /\ c <= c
      BY <2>4 DEF first_index, sentinel
  <2>9. r = "Leader" => Len(a) = Len(u)
      BY <1>2, <2>3, <2>4
  <2> QED BY <2>2, <2>6, <2>7, <2>8, <2>9, Zenon DEF Mirrors, a, u, e, dl
<1> QED BY <1>3, <1>4

\* install_snapshot above the commit index: the log shrinks to its base, the
\* disk keeps what follows it.
LEMMA MirrorsInstall ==
    ASSUME NEW l \in Log, NEW d \in Disk, NEW c \in Nat, NEW r, Mirrors(l, d, c, r),
           NEW i \in Nat, NEW t \in Nat, i > c
    PROVE  LET e == write_snapshot(d, SnapshotMeta(i, t))
           IN  /\ Mirrors(install_snapshot(i, t), e, i, "Follower")
               /\ From(e.log_entries, d.log_entries)
<1> DEFINE e == write_snapshot(d, SnapshotMeta(i, t))
           a == install_snapshot(i, t)
<1>1. i > first_index(d.log_entries)
  <2>1. first_index(l) \in Nat /\ first_index(l) <= c
      BY LogType DEF Mirrors
  <2>2. first_index(d.log_entries) = first_index(l)
      BY MirrorsIndices
  <2> QED BY <2>1, <2>2
<1>2. Contiguous(d.log_entries)
    BY DEF Mirrors
<1>3. /\ e.log_entries \in Log /\ Contiguous(e.log_entries)
      /\ e.log_entries[1] = sentinel(BaseOf(e).last_included_index,
                                     BaseOf(e).last_included_term)
      /\ From(e.log_entries, d.log_entries)
      /\ e.log_entries[1] = sentinel(i, t)
    BY <1>1, <1>2, SnapshotIs
<1> HIDE DEF e
<1>4. Len(e.log_entries) \in Nat /\ Len(e.log_entries) >= 1
    BY <1>3, LogType
<1>5. Len(a) = 1 /\ a[1] = sentinel(i, t)
    BY DEF install_snapshot
<1>6. first_index(a) = i /\ i <= i
    BY DEF install_snapshot, first_index, sentinel
<1> HIDE DEF a
<1>7. Len(a) <= Len(e.log_entries) /\ \A k \in 1..Len(a) : a[k] = e.log_entries[k]
  <2>1. 1..Len(a) = {1} /\ Len(a) <= Len(e.log_entries)
      BY <1>4, <1>5
  <2> QED BY <1>3, <1>5, <2>1, Zenon
<1>8. "Follower" # "Leader"
    OBVIOUS
<1> QED BY <1>3, <1>6, <1>7, <1>8, Zenon DEF Mirrors, a, e

\* RaftNode::restore reads back exactly what is on disk.
LEMMA MirrorsRestore ==
    ASSUME NEW l \in Log, NEW d \in Disk, NEW c \in Nat, NEW r, Mirrors(l, d, c, r)
    PROVE  /\ restore_log(BaseOf(d), Tail(d.log_entries)) = d.log_entries
           /\ Mirrors(d.log_entries, d, BaseOf(d).last_included_index, "Follower")
<1> DEFINE dl == d.log_entries
           h  == dl[1]
           i  == BaseOf(d).last_included_index
           t  == BaseOf(d).last_included_term
<1>1. dl \in Log /\ dl \in Seq(LogEntry) /\ dl # << >> /\ Len(dl) \in Nat
  <2>1. dl \in Log
      BY DiskType
  <2> QED BY <2>1, LogType DEF Log
<1>2. h = sentinel(i, t) /\ Contiguous(dl)
    BY DEF Mirrors
<1>3. i \in Nat
    BY DiskType DEF BaseOf, SnapshotMeta
<1>4. restore_log(BaseOf(d), Tail(dl)) = << h >> \o Tail(dl)
    BY <1>2 DEF restore_log
<1>5. << h >> \o Tail(dl) = dl
  <2> HIDE DEF dl
  <2> QED BY <1>1
<1>6. first_index(dl) = i
    BY <1>2 DEF first_index, sentinel
<1>7. first_index(dl) <= i /\ Len(dl) <= Len(dl)
    BY <1>1, <1>3, <1>6
<1>8. "Follower" # "Leader"
    OBVIOUS
<1> QED BY <1>2, <1>4, <1>5, <1>7, <1>8, Zenon DEF Mirrors

------------------------------------------------------------------------------
(* Messages.                                                                *)

\* What is in memory was led if what is on disk was.
LEMMA MirrorsLed ==
    ASSUME NEW l \in Log, NEW d \in Disk, NEW c \in Nat, NEW r, Mirrors(l, d, c, r),
           NEW T, AllLed(T, d.log_entries)
    PROVE  AllLed(T, l)
<1> SUFFICES ASSUME NEW k \in 2..Len(l) PROVE Led(T, l[k])
    BY DEF AllLed
<1>1. Len(l) \in Nat /\ Len(d.log_entries) \in Nat /\ Len(l) <= Len(d.log_entries)
  <2>1. d.log_entries \in Log
      BY DiskType
  <2> QED BY <2>1, LogType DEF Mirrors
<1>2. k \in 1..Len(l) /\ k \in 2..Len(d.log_entries)
    BY <1>1
<1>3. l[k] = d.log_entries[k]
    BY <1>2 DEF Mirrors
<1> QED BY <1>2, <1>3 DEF AllLed

\* replicate_to_peer sends the entries of a log without a gap in their order.
LEMMA ReplicateInOrder ==
    ASSUME NEW n, NEW p, NEW t, NEW l \in Log, Contiguous(l), NEW c, NEW next \in Nat,
           NEW T, AllLed(T, l)
    PROVE  InOrder(T, replicate_to_peer(n, p, t, l, c, next))
<1> DEFINE x == replicate_to_peer(n, p, t, l, c, next)
<1>1. CASE next <= first_index(l)
  <2>1. x.kind = "InstallSnapshot"
      BY <1>1 DEF replicate_to_peer
  <2> QED BY <2>1 DEF InOrder
<1>2. CASE ~(next <= first_index(l))
  <2> DEFINE es == entries_from(l, next)
             s  == next - first_index(l)
  <2>1. x.entries = es /\ x.prev_log_index = next - 1
      BY <1>2 DEF replicate_to_peer
  <2>2. first_index(l) \in Nat /\ Len(l) \in Nat /\ next > first_index(l)
      BY <1>2, LogType
  <2>3. \A k \in 1..Len(es) : es[k] = l[k + s] /\ k + s \in 2..Len(l)
      BY <2>2, EntriesFromIs
  <2> HIDE DEF es
  <2>4. ASSUME NEW k \in 1..Len(es)
        PROVE  es[k].index = next - 1 + k /\ Led(T, es[k])
    <3>1. es[k] = l[k + s] /\ k + s \in 2..Len(l) /\ k + s \in 1..Len(l)
        BY <2>2, <2>3
    <3>2. l[k + s].index = first_index(l) + (k + s) - 1
        BY <3>1 DEF Contiguous, first_index
    <3>3. first_index(l) + (k + s) - 1 = next - 1 + k
        BY <2>2
    <3>4. Led(T, l[k + s])
        BY <3>1 DEF AllLed
    <3> QED BY <3>1, <3>2, <3>3, <3>4
  <2> QED BY <2>1, <2>4, Zenon DEF InOrder
<1> QED BY <1>1, <1>2

\* The same for a broadcast.
LEMMA BroadcastInOrder ==
    ASSUME NEW n \in Server, NEW t, NEW l \in Log, Contiguous(l), NEW c,
           NEW next \in [Server -> Nat], NEW T, AllLed(T, l)
    PROVE  \A x \in broadcast(n, t, l, c, next) : InOrder(T, x)
<1> SUFFICES ASSUME NEW p \in Peers(n)
             PROVE  InOrder(T, replicate_to_peer(n, p, t, l, c, next[p]))
    BY DEF broadcast
<1>1. next[p] \in Nat
    BY DEF Peers
<1> QED BY <1>1, ReplicateInOrder

\* Nothing else is an AppendEntries.
LEMMA OthersInOrder ==
    ASSUME NEW T
    PROVE  /\ \A n, p, t, l : /\ InOrder(T, Vote("PreVote", n, p, t, l))
                              /\ InOrder(T, Vote("RequestVote", n, p, t, l))
           /\ \A n, p, t, g : /\ InOrder(T, VoteResponse("PreVoteResponse", n, p, t, g))
                              /\ InOrder(T, VoteResponse("RequestVoteResponse", n, p, t, g))
           /\ \A n, p, t, ok, ct, ci : InOrder(T, AppendResponse(n, p, t, ok, ct, ci))
           /\ \A n, p, t : InOrder(T, SnapshotResponse(n, p, t))
BY DEF InOrder, Vote, VoteResponse, AppendResponse, SnapshotResponse

------------------------------------------------------------------------------
(* Steps.                                                                   *)

\* A step of node n that leaves its log and disk together, and sends entries
\* in order.
Tidy(n) ==
    /\ \A p \in Server : p # n => /\ log'[p] = log[p] /\ disk'[p] = disk[p]
                                  /\ commit_index'[p] = commit_index[p]
                                  /\ current_term'[p] = current_term[p]
                                  /\ role'[p] = role[p]
    /\ Mirrors(log'[n], disk'[n], commit_index'[n], role'[n])
    /\ role'[n] = "Leader" => <<current_term'[n], n>> \in term_leaders'
    /\ term_leaders \subseteq term_leaders'
    /\ AllLed(term_leaders', disk'[n].log_entries)
    /\ \A x \in in_flight' : x \in in_flight \/ InOrder(term_leaders', x)
    /\ ~panicked'

\* More leaders do not take an entry's leader away.
LEMMA LedStays ==
    ASSUME NEW S, NEW T, S \subseteq T
    PROVE  /\ \A l : AllLed(S, l) => AllLed(T, l)
           /\ \A m : InOrder(S, m) => InOrder(T, m)
<1>1. \A e : Led(S, e) => Led(T, e)
    BY DEF Led
<1> QED BY <1>1 DEF AllLed, InOrder

\* A tidy step keeps the part of the invariant that is about logs.
LEMMA TidyStep ==
    ASSUME DurabilityInv, NEW n \in Server, Tidy(n)
    PROVE  /\ DiskMirrorsLog' /\ EntriesWereLed' /\ SentInOrder'
           /\ LeadersAreListed' /\ NoPanic'
<1>1. DiskMirrorsLog'
    BY DEF DurabilityInv, DiskMirrorsLog, Tidy
<1>2. EntriesWereLed'
    BY LedStays DEF DurabilityInv, EntriesWereLed, Tidy
<1>3. SentInOrder'
    BY LedStays DEF DurabilityInv, SentInOrder, Tidy
<1>4. LeadersAreListed'
    BY DEF DurabilityInv, LeadersAreListed, Tidy
<1> QED BY <1>1, <1>2, <1>3, <1>4 DEF Tidy, NoPanic

\* A step that only writes term and vote, moves the commit index up or ends a
\* leadership is tidy.
LEMMA SteadyStep ==
    ASSUME TypeOK, TypeOK', DurabilityInv, NEW n \in Server,
           \A p \in Server : p # n => /\ disk'[p] = disk[p] /\ role'[p] = role[p]
                                      /\ commit_index'[p] = commit_index[p]
                                      /\ current_term'[p] = current_term[p],
           UNCHANGED <<log, panicked, term_leaders>>,
           disk'[n].log_entries = disk[n].log_entries,
           disk'[n].snapshot = disk[n].snapshot,
           commit_index'[n] >= commit_index[n],
           role'[n] = "Leader" =>
               role[n] = "Leader" /\ current_term'[n] = current_term[n],
           \A x \in in_flight' : x \in in_flight \/ InOrder(term_leaders, x)
    PROVE  Tidy(n)
<1>1. Mirrors(log[n], disk'[n], commit_index'[n], role'[n])
  <2>1. Mirrors(log[n], disk[n], commit_index[n], role[n])
      BY DEF DurabilityInv, DiskMirrorsLog
  <2>2. log[n] \in Log /\ disk[n] \in Disk /\ commit_index[n] \in Nat
        /\ commit_index'[n] \in Nat
      BY DEF TypeOK
  <2> QED BY <2>1, <2>2, MirrorsStays
<1>2. AllLed(term_leaders, disk'[n].log_entries)
    BY DEF DurabilityInv, EntriesWereLed
<1> QED BY <1>1, <1>2 DEF Tidy, DurabilityInv, LeadersAreListed, NoPanic

\* A leader's log can be sent.
LEMMA LogIsOrderly ==
    ASSUME TypeOK, DurabilityInv, NEW n \in Server
    PROVE  /\ Mirrors(log[n], disk[n], commit_index[n], role[n])
           /\ Contiguous(log[n]) /\ AllLed(term_leaders, log[n])
           /\ log[n] \in Log /\ disk[n] \in Disk /\ commit_index[n] \in Nat
           /\ current_term[n] \in Nat /\ next_index[n] \in [Server -> Nat]
           /\ AllLed(term_leaders, disk[n].log_entries)
<1>1. /\ log[n] \in Log /\ disk[n] \in Disk /\ commit_index[n] \in Nat
      /\ current_term[n] \in Nat /\ next_index[n] \in [Server -> Nat]
    BY DEF TypeOK
<1>2. /\ Mirrors(log[n], disk[n], commit_index[n], role[n])
      /\ AllLed(term_leaders, disk[n].log_entries)
    BY DEF DurabilityInv, DiskMirrorsLog, EntriesWereLed
<1> QED BY <1>1, <1>2, MirrorsIndices, MirrorsLed

\* Writing the hard state a message brings leaves log and snapshot alone.
LEMMA SeenStore ==
    ASSUME TypeOK, NEW n \in Server, NEW m
    PROVE  /\ hard_state_seen(n, m).log_entries = disk[n].log_entries
           /\ hard_state_seen(n, m).snapshot = disk[n].snapshot
<1>1. disk[n] \in Disk
    BY DEF TypeOK
<1> QED BY <1>1 DEF hard_state_seen, write_hard_state, Disk

\* The commit index of one node moves up.
LEMMA CommitGrows ==
    ASSUME TypeOK, NEW n \in Server, NEW l, NEW c \in Nat, CommitTo(n, l, c)
    PROVE  /\ \A p \in Server : p # n => commit_index'[p] = commit_index[p]
           /\ commit_index'[n] >= commit_index[n]
<1>1. commit_index \in [Server -> Nat]
    BY DEF TypeOK
<1>2. CASE c <= commit_index[n]
    BY <1>1, <1>2 DEF CommitTo
<1>3. CASE ~(c <= commit_index[n])
  <2>1. commit_index' = [commit_index EXCEPT ![n] = c]
      BY <1>3 DEF CommitTo
  <2> QED BY <1>1, <1>3, <2>1
<1> QED BY <1>2, <1>3

\* Ticks.
LEMMA TickTidy ==
    ASSUME TypeOK, TypeOK', DurabilityInv, NEW n \in Server,
           tick_idle(n) \/ tick_election_timeout(n) \/ tick_leader(n)
    PROVE  Tidy(n)
<1>1. /\ UNCHANGED <<log, disk, commit_index, current_term, panicked, term_leaders>>
      /\ \A p \in Server : p # n => role'[p] = role[p]
      /\ role'[n] = "Leader" => role[n] = "Leader"
  <2>1. CASE tick_idle(n)
      BY <2>1 DEF tick_idle, tick_lease_lapses, logVars, histVars
  <2>2. CASE tick_election_timeout(n)
      BY <2>2 DEF tick_election_timeout, start_pre_vote, logVars, histVars, TypeOK
  <2>3. CASE tick_leader(n)
      BY <2>3 DEF tick_leader, tick_heartbeat, logVars, histVars, termVars
  <2> QED BY <2>1, <2>2, <2>3
<1>2. \A x \in in_flight' : x \in in_flight \/ InOrder(term_leaders, x)
  <2>1. CASE tick_idle(n)
      BY <2>1 DEF tick_idle, tick_lease_lapses
  <2>2. CASE tick_election_timeout(n)
    <3>1. in_flight' \subseteq in_flight
              \cup {Vote("PreVote", n, p, current_term[n] + 1, log[n]) : p \in Peers(n)}
        BY <2>2, InFlight DEF tick_election_timeout, start_pre_vote
    <3> QED BY <3>1, OthersInOrder
  <2>3. CASE tick_leader(n)
    <3>1. in_flight' \subseteq in_flight
              \cup broadcast(n, current_term[n], log[n], commit_index[n], next_index[n])
        BY <2>3, InFlight DEF tick_leader, tick_heartbeat
    <3> QED BY <3>1, LogIsOrderly, BroadcastInOrder
  <2> QED BY <2>1, <2>2, <2>3
<1>3. commit_index[n] >= commit_index[n]
    BY DEF TypeOK
<1> QED BY <1>1, <1>2, <1>3, SteadyStep

\* propose appends to a log that ends where its disk ends.
LEMMA ProposeTidy ==
    ASSUME TypeOK, TypeOK', DurabilityInv, NEW n \in Server, NEW c \in Command,
           propose_command(n, c)
    PROVE  Tidy(n)
<1> DEFINE entry == Entry(last_index(log[n]) + 1, current_term[n], c)
           l == Append(log[n], entry)
           d == append_entries(disk[n], << entry >>)
<1>1. /\ role[n] = "Leader" /\ log' = [log EXCEPT ![n] = l]
      /\ disk' = [disk EXCEPT ![n] = d]
      /\ panicked' = (panicked \/ append_panics(disk[n].log_entries, << entry >>))
      /\ Send(n, broadcast(n, current_term[n], l, commit_index[n], next_index[n]))
      /\ UNCHANGED <<role, commit_index, current_term, term_leaders>>
    BY DEF propose_command, propose, termVars, histVars
<1>2. /\ Mirrors(log[n], disk[n], commit_index[n], role[n])
      /\ log[n] \in Log /\ disk[n] \in Disk /\ commit_index[n] \in Nat
      /\ current_term[n] \in Nat /\ next_index[n] \in [Server -> Nat]
      /\ AllLed(term_leaders, disk[n].log_entries)
    BY LogIsOrderly
<1>3. entry \in LogEntry /\ entry.index = last_index(log[n]) + 1
      /\ entry.term = current_term[n]
  <2>1. last_index(log[n]) + 1 \in Nat
      BY <1>2, LogType
  <2> QED BY <1>2, <2>1, EntryType DEF Entry
<1>4. Len(log[n]) = Len(disk[n].log_entries)
    BY <1>1, <1>2 DEF Mirrors
<1> HIDE DEF entry
<1>5. /\ Mirrors(l, d, commit_index[n], role[n])
      /\ ~append_panics(disk[n].log_entries, << entry >>)
      /\ \A k \in 2..Len(d.log_entries) :
             d.log_entries[k] = entry \/ \E j \in 2..Len(disk[n].log_entries) :
                                             d.log_entries[k] = disk[n].log_entries[j]
    BY <1>2, <1>3, <1>4, MirrorsAppend
<1>6. l \in Log
    BY <1>2, <1>3, AppendLog
<1>7. d \in Disk
  <2>1. << entry >> \in Seq(LogEntry)
      BY <1>3
  <2> QED BY <1>2, <2>1, AppendEntriesType
<1> HIDE DEF l, d
<1>8. AllLed(term_leaders, d.log_entries)
  <2>1. Led(term_leaders, entry)
      BY <1>1, <1>3 DEF Led, DurabilityInv, LeadersAreListed
  <2> QED BY <1>2, <1>5, <2>1, Zenon DEF AllLed
<1>9. \A x \in in_flight' : x \in in_flight \/ InOrder(term_leaders, x)
  <2>1. Contiguous(l) /\ AllLed(term_leaders, l)
      BY <1>2, <1>5, <1>6, <1>7, <1>8, MirrorsIndices, MirrorsLed
  <2>2. \A x \in broadcast(n, current_term[n], l, commit_index[n], next_index[n]) :
            InOrder(term_leaders, x)
      BY <1>2, <1>6, <2>1, BroadcastInOrder
  <2> QED BY <1>1, <2>2, InFlight
<1>10. /\ log'[n] = l /\ disk'[n] = d
       /\ \A p \in Server : p # n => log'[p] = log[p] /\ disk'[p] = disk[p]
    BY <1>1 DEF TypeOK
<1> QED BY <1>1, <1>5, <1>8, <1>9, <1>10
        DEF Tidy, DurabilityInv, LeadersAreListed, NoPanic

\* compaction_pass compacts log and disk alike.
LEMMA CompactionTidy ==
    ASSUME TypeOK, TypeOK', DurabilityInv, NEW n \in Server, compaction_pass(n)
    PROVE  Tidy(n)
<1> DEFINE i == commit_index[n]
           t == IF term_at(log[n], i) = None THEN 0 ELSE term_at(log[n], i)
           d == write_snapshot(disk[n], SnapshotMeta(i, t))
           l == compact(log[n], i, t)
<1>1. /\ log' = [log EXCEPT ![n] = l] /\ disk' = [disk EXCEPT ![n] = d]
      /\ UNCHANGED <<role, current_term, commit_index, in_flight, panicked, term_leaders>>
    BY DEF compaction_pass, compact_logs, termVars, histVars
<1>2. /\ Mirrors(log[n], disk[n], commit_index[n], role[n])
      /\ log[n] \in Log /\ disk[n] \in Disk /\ i \in Nat
      /\ AllLed(term_leaders, disk[n].log_entries)
    BY LogIsOrderly
<1>3. t \in Nat /\ term_at(log[n], i) \in {None, t}
    BY <1>2, TermAtType DEF OptNat
<1> HIDE DEF t
<1>4. Mirrors(l, d, i, role[n]) /\ From(d.log_entries, disk[n].log_entries)
    BY <1>2, <1>3, MirrorsCompact
<1> HIDE DEF l, d
<1>5. AllLed(term_leaders, d.log_entries)
    BY <1>2, <1>4, Zenon DEF AllLed, From
<1>6. /\ log'[n] = l /\ disk'[n] = d
      /\ \A p \in Server : p # n => log'[p] = log[p] /\ disk'[p] = disk[p]
    BY <1>1 DEF TypeOK
<1> QED BY <1>1, <1>4, <1>5, <1>6 DEF Tidy, DurabilityInv, LeadersAreListed, NoPanic

\* A restart takes the disk for the log.
LEMMA SpawnTidy ==
    ASSUME TypeOK, TypeOK', DurabilityInv, NEW n \in Server, spawn_node(n)
    PROVE  Tidy(n)
<1> DEFINE d == disk[n]
           l == restore_log(BaseOf(d), Tail(d.log_entries))
           b == BaseOf(d).last_included_index
<1>1. /\ log' = [log EXCEPT ![n] = l] /\ commit_index' = [commit_index EXCEPT ![n] = b]
      /\ role' = [role EXCEPT ![n] = "Follower"]
      /\ current_term' = [current_term EXCEPT ![n] = d.current_term]
      /\ UNCHANGED <<disk, in_flight, panicked, term_leaders>>
    BY DEF spawn_node, restore, BaseOf, histVars
<1>2. /\ Mirrors(log[n], d, commit_index[n], role[n])
      /\ log[n] \in Log /\ d \in Disk /\ commit_index[n] \in Nat
      /\ AllLed(term_leaders, d.log_entries)
    BY LogIsOrderly
<1>3. l = d.log_entries /\ Mirrors(d.log_entries, d, b, "Follower")
    BY <1>2, MirrorsRestore
<1> HIDE DEF l, b
<1>4. /\ log'[n] = l /\ commit_index'[n] = b /\ role'[n] = "Follower"
      /\ \A p \in Server : p # n => /\ log'[p] = log[p] /\ role'[p] = role[p]
                                    /\ commit_index'[p] = commit_index[p]
                                    /\ current_term'[p] = current_term[p]
    BY <1>1 DEF TypeOK
<1>5. Mirrors(log'[n], disk'[n], commit_index'[n], role'[n])
    BY <1>1, <1>3, <1>4
<1> QED BY <1>1, <1>2, <1>4, <1>5 DEF Tidy, DurabilityInv, NoPanic

\* A crash and a loss change no node that is up.
LEMMA FaultTidy ==
    ASSUME TypeOK, TypeOK', DurabilityInv, NEW n \in Server,
           crash_node(n) \/ \E m \in in_flight : drop_message(m)
    PROVE  Tidy(n)
<1>1. UNCHANGED <<log, disk, commit_index, role, current_term, panicked, term_leaders>>
      /\ in_flight' \subseteq in_flight
    BY DEF crash_node, drop_message, nodeVars, termVars, logVars, histVars
<1>2. commit_index[n] >= commit_index[n]
    BY DEF TypeOK
<1> QED BY <1>1, <1>2, SteadyStep

------------------------------------------------------------------------------
\* A handler that takes over the term of its message and leaves the log alone.
LEMMA TermTidy ==
    ASSUME TypeOK, TypeOK', DurabilityInv, NEW n \in Server, NEW m \in Message,
           Current(n, m), Observe(n, m) \/ Follow(n, m),
           disk' = [disk EXCEPT ![n] = hard_state_seen(n, m)],
           UNCHANGED <<log, panicked, term_leaders, commit_index>>,
           \A x \in in_flight' : x \in in_flight \/ InOrder(term_leaders, x)
    PROVE  Tidy(n)
<1>1. /\ disk'[n] = hard_state_seen(n, m)
      /\ \A p \in Server : p # n => /\ disk'[p] = disk[p] /\ role'[p] = role[p]
                                    /\ commit_index'[p] = commit_index[p]
                                    /\ current_term'[p] = current_term[p]
    BY DEF Observe, Follow, TypeOK
<1>2. disk'[n].log_entries = disk[n].log_entries /\ disk'[n].snapshot = disk[n].snapshot
    BY <1>1, SeenStore
<1>3. role'[n] = "Leader" => role[n] = "Leader" /\ current_term'[n] = current_term[n]
  <2>1. CASE Follow(n, m)
      BY <2>1 DEF Follow, TypeOK
  <2>2. CASE Observe(n, m)
    <3>1. role'[n] = role_seen(n, m) /\ current_term'[n] = m.term
        BY <2>2 DEF Observe, TypeOK
    <3>2. m.term \in Nat /\ current_term[n] \in Nat /\ m.term >= current_term[n]
        BY MessageFields DEF TypeOK, Current
    <3> QED BY <3>1, <3>2 DEF role_seen, Newer
  <2> QED BY <2>1, <2>2
<1>4. commit_index'[n] >= commit_index[n]
    BY DEF TypeOK
<1> QED BY <1>1, <1>2, <1>3, <1>4, SteadyStep

\* The handlers of the pre-vote.
LEMMA PreVoteTidy ==
    ASSUME TypeOK, TypeOK', DurabilityInv, NEW n \in Server, NEW m \in Message,
           handle_pre_vote(n, m) \/ handle_pre_vote_response(n, m)
    PROVE  Tidy(n)
<1> DEFINE t == current_term[n] + 1
           granted == pre_votes_received[n] \cup {m.from}
<1>1. commit_index[n] >= commit_index[n]
    BY DEF TypeOK
<1>2. CASE handle_pre_vote(n, m)
  <2>1. \A x \in in_flight' : x \in in_flight \/ InOrder(term_leaders, x)
      BY <1>2, InFlight, OthersInOrder DEF handle_pre_vote
  <2> QED BY <1>1, <1>2, <2>1, SteadyStep DEF handle_pre_vote, termVars, logVars, histVars
<1>3. CASE handle_pre_vote_response(n, m) /\ counts_pre_vote(n, m)
           /\ Cardinality(granted) >= majority
  <2>1. start_real_election(n, m)
      BY <1>3 DEF handle_pre_vote_response
  <2>2. /\ role' = [role EXCEPT ![n] = "Candidate"]
        /\ current_term' = [current_term EXCEPT ![n] = t]
        /\ disk' = [disk EXCEPT ![n] = write_hard_state(disk[n], t, n)]
        /\ UNCHANGED <<log, commit_index, panicked, term_leaders>>
      BY <2>1 DEF start_real_election, logVars
  <2>3. \A x \in in_flight' : x \in in_flight \/ InOrder(term_leaders, x)
    <3>1. in_flight' \subseteq in_flight
              \cup {Vote("RequestVote", n, p, t, log[n]) : p \in Peers(n)}
        BY <2>1, InFlight DEF start_real_election
    <3> QED BY <3>1, OthersInOrder
  <2>4. disk'[n] = write_hard_state(disk[n], t, n) /\ role'[n] = "Candidate"
      BY <2>2 DEF TypeOK
  <2>5. disk'[n].log_entries = disk[n].log_entries /\ disk'[n].snapshot = disk[n].snapshot
    <3>1. disk[n] \in Disk
        BY DEF TypeOK
    <3> QED BY <2>4, <3>1 DEF write_hard_state, Disk
  <2>6. \A p \in Server : p # n => /\ disk'[p] = disk[p] /\ role'[p] = role[p]
                                   /\ commit_index'[p] = commit_index[p]
                                   /\ current_term'[p] = current_term[p]
      BY <2>2 DEF TypeOK
  <2> QED BY <1>1, <2>2, <2>3, <2>4, <2>5, <2>6, SteadyStep
<1>4. CASE handle_pre_vote_response(n, m)
           /\ ~(counts_pre_vote(n, m) /\ Cardinality(granted) >= majority)
  <2>1. /\ UNCHANGED <<termVars, logVars, disk, panicked, histVars>>
        /\ Handle(n, m, current_term[n], {})
      BY <1>4 DEF handle_pre_vote_response
  <2>2. in_flight' \subseteq in_flight
      BY <2>1, InFlight
  <2> QED BY <1>1, <2>1, <2>2, SteadyStep DEF termVars, logVars, histVars
<1> QED BY <1>2, <1>3, <1>4

\* A vote, granted or not.
LEMMA RequestVoteTidy ==
    ASSUME TypeOK, TypeOK', DurabilityInv, NEW n \in Server, NEW m \in Message,
           handle_request_vote(n, m)
    PROVE  Tidy(n)
<1> DEFINE d == IF vote_granted(n, m) THEN write_hard_state(disk[n], m.term, m.from)
                ELSE hard_state_seen(n, m)
<1>1. /\ current_term' = [current_term EXCEPT ![n] = m.term]
      /\ role' = [role EXCEPT ![n] = role_seen(n, m)]
      /\ disk' = [disk EXCEPT ![n] = d]
      /\ UNCHANGED <<log, commit_index, panicked, term_leaders>>
      /\ Current(n, m)
    BY DEF handle_request_vote, logVars
<1>2. \A x \in in_flight' : x \in in_flight \/ InOrder(term_leaders, x)
  <2>1. in_flight' \subseteq in_flight \cup
            {VoteResponse("RequestVoteResponse", n, m.from, m.term, vote_granted(n, m))}
      BY InFlight DEF handle_request_vote
  <2> QED BY <2>1, OthersInOrder
<1>3. d.log_entries = disk[n].log_entries /\ d.snapshot = disk[n].snapshot
  <2>1. disk[n] \in Disk
      BY DEF TypeOK
  <2> QED BY <2>1, SeenStore DEF write_hard_state, Disk
<1> HIDE DEF d
<1>4. /\ disk'[n] = d /\ role'[n] = role_seen(n, m) /\ current_term'[n] = m.term
      /\ \A p \in Server : p # n => /\ disk'[p] = disk[p] /\ role'[p] = role[p]
                                    /\ commit_index'[p] = commit_index[p]
                                    /\ current_term'[p] = current_term[p]
    BY <1>1 DEF TypeOK
<1>5. role'[n] = "Leader" => role[n] = "Leader" /\ current_term'[n] = current_term[n]
  <2>1. m.term \in Nat /\ current_term[n] \in Nat /\ m.term >= current_term[n]
      BY <1>1, MessageFields DEF TypeOK, Current
  <2> QED BY <1>4, <2>1 DEF role_seen, Newer
<1>6. commit_index'[n] >= commit_index[n]
    BY <1>1 DEF TypeOK
<1> QED BY <1>1, <1>2, <1>3, <1>4, <1>5, <1>6, SteadyStep

\* Nobody has led the term of a candidate that wins it now: whoever had would
\* have been elected by a majority, which shares a voter with this one.
LEMMA NobodyLed ==
    ASSUME TypeOK, ElectionInv, CandidatesAreNew, NEW n \in Server,
           role[n] = "Candidate", NEW Q \in SUBSET Server,
           ElectedBy(Q, current_term[n], n)
    PROVE  \A q \in Server : <<current_term[n], q>> \notin term_leaders
<1> SUFFICES ASSUME NEW q \in Server, <<current_term[n], q>> \in term_leaders PROVE FALSE
    OBVIOUS
<1>1. PICK R \in SUBSET Server : ElectedBy(R, current_term[n], q)
    BY DEF ElectionInv, LeadersWereElected
<1>2. PICK p \in Server : p \in Q /\ p \in R
    BY <1>1, QuorumsMeet DEF ElectedBy
<1>3. /\ Ballot(p, current_term[n], n) \in ballots
      /\ Ballot(p, current_term[n], q) \in ballots
    BY <1>1, <1>2 DEF ElectedBy
<1>4. Ballot(p, current_term[n], n).candidate = Ballot(p, current_term[n], q).candidate
    BY <1>3 DEF ElectionInv, OneBallotPerTerm, Ballot
<1>5. q = n
    BY <1>4 DEF Ballot
<1> QED BY <1>5 DEF CandidatesAreNew

\* The votes a candidate has counted, with the one that has just arrived.
LEMMA CountedElect ==
    ASSUME TypeOK, ElectionInv, NEW n \in Server, NEW m \in Message,
           Receives(n, m, "RequestVoteResponse"), counts_vote(n, m),
           Cardinality(votes_received[n] \cup {m.from}) >= majority
    PROVE  /\ votes_received[n] \cup {m.from} \in SUBSET Server
           /\ ElectedBy(votes_received[n] \cup {m.from}, current_term[n], n)
<1>1. Ballot(m.from, current_term[n], n) \in ballots
    BY DEF Receives, counts_vote, ElectionInv, GrantsWereCast, IsGrant
<1>2. \A p \in votes_received[n] : Ballot(p, current_term[n], n) \in ballots
    BY DEF counts_vote, ElectionInv, CountedWereCast
<1>3. votes_received[n] \cup {m.from} \in SUBSET Server
    BY MessageFields DEF TypeOK
<1> QED BY <1>1, <1>2, <1>3 DEF ElectedBy

\* become_leader: the no-op lands behind the log on disk as well, for no entry
\* of the new term can be there.
LEMMA BecomeLeaderTidy ==
    ASSUME TypeOK, TypeOK', DurabilityInv, NEW n \in Server, NEW m \in Message,
           become_leader(n, m),
           \A q \in Server : <<current_term[n], q>> \notin term_leaders
    PROVE  Tidy(n)
<1> DEFINE last == last_index(log[n])
           noop == Entry(last + 1, current_term[n], Noop)
           next == [p \in Server |-> last + 1]
           l    == Append(log[n], noop)
           d    == append_entries(disk[n], << noop >>)
           dl   == disk[n].log_entries
<1>1. /\ role' = [role EXCEPT ![n] = "Leader"] /\ log' = [log EXCEPT ![n] = l]
      /\ disk' = [disk EXCEPT ![n] = d]
      /\ panicked' = (panicked \/ append_panics(dl, << noop >>))
      /\ term_leaders' = term_leaders \cup {<<current_term[n], n>>}
      /\ Handle(n, m, m.term, broadcast(n, current_term[n], l, commit_index[n], next))
      /\ UNCHANGED <<current_term, commit_index>>
    BY DEF become_leader
<1>2. /\ Mirrors(log[n], disk[n], commit_index[n], role[n])
      /\ log[n] \in Log /\ disk[n] \in Disk /\ commit_index[n] \in Nat
      /\ current_term[n] \in Nat
      /\ AllLed(term_leaders, dl)
    BY LogIsOrderly
<1>3. last + 1 \in Nat /\ next \in [Server -> Nat]
    BY <1>2, LogType
<1>4. /\ noop \in LogEntry /\ noop.index = last_index(log[n]) + 1
      /\ noop.term = current_term[n]
    BY <1>2, <1>3, EntryType DEF Entry
<1> HIDE DEF noop, next
<1>5. Len(log[n]) = Len(dl) \/ dl[Len(log[n]) + 1].term # noop.term
  <2>1. Len(log[n]) \in Nat /\ Len(log[n]) >= 1 /\ Len(dl) \in Nat /\ Len(log[n]) <= Len(dl)
    <3>1. dl \in Log
        BY <1>2, DiskType
    <3> QED BY <1>2, <3>1, LogType DEF Mirrors
  <2> SUFFICES ASSUME Len(log[n]) # Len(dl) PROVE dl[Len(log[n]) + 1].term # noop.term
      OBVIOUS
  <2>2. Len(log[n]) + 1 \in 2..Len(dl)
      BY <2>1
  <2>3. Led(term_leaders, dl[Len(log[n]) + 1])
      BY <1>2, <2>2 DEF AllLed
  <2> QED BY <1>4, <2>3 DEF Led
<1>6. /\ Mirrors(l, d, commit_index[n], "Leader")
      /\ ~append_panics(dl, << noop >>)
      /\ \A k \in 2..Len(d.log_entries) :
             d.log_entries[k] = noop \/ \E j \in 2..Len(dl) : d.log_entries[k] = dl[j]
    BY <1>2, <1>4, <1>5, MirrorsAppend
<1>7. l \in Log
    BY <1>2, <1>4, AppendLog
<1>8. d \in Disk
  <2>1. << noop >> \in Seq(LogEntry)
      BY <1>4
  <2> QED BY <1>2, <2>1, AppendEntriesType
<1> HIDE DEF l, d
<1>9. AllLed(term_leaders', d.log_entries)
  <2>1. Led(term_leaders', noop)
      BY <1>1, <1>4 DEF Led
  <2>2. AllLed(term_leaders', dl)
      BY <1>1, <1>2, LedStays
  <2> QED BY <1>6, <2>1, <2>2, Zenon DEF AllLed
<1>10. \A x \in in_flight' : x \in in_flight \/ InOrder(term_leaders', x)
  <2>1. Contiguous(l) /\ AllLed(term_leaders', l)
      BY <1>2, <1>6, <1>7, <1>8, <1>9, MirrorsIndices, MirrorsLed
  <2>2. \A x \in broadcast(n, current_term[n], l, commit_index[n], next) :
            InOrder(term_leaders', x)
      BY <1>3, <1>7, <2>1, BroadcastInOrder
  <2> QED BY <1>1, <2>2, InFlight
<1>11. /\ log'[n] = l /\ disk'[n] = d /\ role'[n] = "Leader"
       /\ \A p \in Server : p # n => /\ log'[p] = log[p] /\ disk'[p] = disk[p]
                                     /\ role'[p] = role[p]
    BY <1>1 DEF TypeOK
<1> QED BY <1>1, <1>6, <1>9, <1>10, <1>11 DEF Tidy, DurabilityInv, NoPanic

\* An answer to RequestVote.
LEMMA RequestVoteResponseTidy ==
    ASSUME TypeOK, TypeOK', ElectionInv, DurabilityInv, NEW n \in Server,
           NEW m \in Message, handle_request_vote_response(n, m)
    PROVE  Tidy(n)
<1> DEFINE granted == votes_received[n] \cup {m.from}
<1>1. Receives(n, m, "RequestVoteResponse") /\ Current(n, m)
    BY DEF handle_request_vote_response
<1>2. CASE counts_vote(n, m) /\ Cardinality(granted) >= majority
  <2>1. become_leader(n, m)
      BY <1>2 DEF handle_request_vote_response
  <2>2. \A q \in Server : <<current_term[n], q>> \notin term_leaders
    <3>1. role[n] = "Candidate" /\ CandidatesAreNew
        BY <1>2 DEF counts_vote, DurabilityInv
    <3>2. granted \in SUBSET Server /\ ElectedBy(granted, current_term[n], n)
        BY <1>1, <1>2, CountedElect
    <3> HIDE DEF granted
    <3> QED BY <3>1, <3>2, NobodyLed
  <2> QED BY <2>1, <2>2, BecomeLeaderTidy
<1>3. CASE counts_vote(n, m) /\ ~(Cardinality(granted) >= majority)
  <2>1. /\ UNCHANGED <<termVars, logVars, disk, panicked, histVars>>
        /\ Handle(n, m, m.term, {})
      BY <1>3 DEF handle_request_vote_response
  <2>2. in_flight' \subseteq in_flight
      BY <2>1, InFlight
  <2>3. commit_index[n] >= commit_index[n]
      BY DEF TypeOK
  <2> QED BY <2>1, <2>2, <2>3, SteadyStep DEF termVars, logVars, histVars
<1>4. CASE ~counts_vote(n, m)
  <2>1. /\ Observe(n, m) /\ Handle(n, m, m.term, {})
        /\ UNCHANGED <<logVars, panicked, histVars>>
      BY <1>4 DEF handle_request_vote_response
  <2>2. in_flight' \subseteq in_flight
      BY <2>1, InFlight
  <2> QED BY <1>1, <2>1, <2>2, TermTidy DEF Observe, logVars, histVars
<1> QED BY <1>2, <1>3, <1>4

\* A rejected AppendEntries.
LEMMA RejectTidy ==
    ASSUME TypeOK, TypeOK', DurabilityInv, NEW n \in Server, NEW m \in Message,
           handle_append_entries_missing(n, m) \/ handle_append_entries_conflict(n, m)
    PROVE  Tidy(n)
<1>1. /\ Current(n, m) /\ Follow(n, m)
      /\ disk' = [disk EXCEPT ![n] = hard_state_seen(n, m)]
      /\ UNCHANGED <<log, panicked, term_leaders, commit_index>>
    BY DEF handle_append_entries_missing, handle_append_entries_conflict, logVars, histVars
<1>2. PICK ok, ct, ci :
          Handle(n, m, m.term, {AppendResponse(n, m.from, m.term, ok, ct, ci)})
    BY DEF handle_append_entries_missing, handle_append_entries_conflict
<1>3. \A x \in in_flight' : x \in in_flight \/ InOrder(term_leaders, x)
    BY <1>2, InFlight, OthersInOrder
<1> QED BY <1>1, <1>3, TermTidy

\* Where the suffix of an accepted AppendEntries goes: behind an entry of the
\* local log, above its base.
LEMMA AcceptPlace ==
    ASSUME NEW l \in Log, NEW es \in Seq(LogEntry), NEW prev \in Nat,
           term_at(l, prev) # None, \A k \in 1..Len(es) : es[k].index = prev + k,
           SubSeq(es, already_held(l, es) + 1, Len(es)) # << >>
    PROVE  LET held   == already_held(l, es)
               suffix == SubSeq(es, held + 1, Len(es))
               attach == es[1].index + held
           IN  /\ attach \in Nat /\ attach > first_index(l)
               /\ attach - first_index(l) <= Len(l)
               /\ attach = prev + 1 + held /\ held \in 0..Len(es)
               /\ suffix \in Seq(LogEntry) /\ Len(suffix) = Len(es) - held
               /\ \A k \in 1..Len(suffix) : /\ held + k \in 1..Len(es)
                                            /\ suffix[k] = es[held + k]
                                            /\ suffix[k].index = attach + k - 1
<1> DEFINE held   == already_held(l, es)
           suffix == SubSeq(es, held + 1, Len(es))
           attach == es[1].index + held
<1>1. held \in 0..Len(es) /\ Len(es) \in Nat
    BY AlreadyHeldType
<1>2. \A j \in 1..held : term_at(l, es[j].index) = es[j].term
    BY AlreadyHeldIs
<1> HIDE DEF held
<1>3. suffix # << >>
    BY DEF held
<1>4. /\ suffix \in Seq(LogEntry)
      /\ Len(suffix) = IF held + 1 <= Len(es) THEN Len(es) - (held + 1) + 1 ELSE 0
      /\ \A k \in 1..(Len(es) - (held + 1) + 1) : suffix[k] = es[held + 1 + k - 1]
  <2>1. \A j \in held + 1..Len(es) : es[j] \in LogEntry
      BY <1>1
  <2> QED BY <1>1, <2>1, SubSeqProperties
<1> HIDE DEF suffix
<1>5. held + 1 <= Len(es) /\ Len(suffix) = Len(es) - held
  <2>1. Len(suffix) # 0
      BY <1>3, <1>4, EmptySeq
  <2> QED BY <1>1, <1>4, <2>1
<1>6. es[1].index = prev + 1 /\ attach = prev + 1 + held
    BY <1>1, <1>5
<1>7. /\ first_index(l) <= prev /\ prev - first_index(l) < Len(l)
      /\ first_index(l) \in Nat /\ Len(l) \in Nat
    BY LogType DEF term_at
<1>8. prev + held - first_index(l) < Len(l)
  <2>1. CASE held = 0
      BY <1>7, <2>1
  <2>2. CASE held # 0
    <3>1. held \in 1..held /\ held \in 1..Len(es)
        BY <1>1, <2>2
    <3>2. term_at(l, prev + held) = es[held].term /\ es[held] \in LogEntry
        BY <1>2, <3>1
    <3>3. term_at(l, prev + held) # None
        BY <3>2, NoneAssumption DEF LogEntry
    <3> QED BY <1>1, <1>7, <3>3 DEF term_at
  <2> QED BY <2>1, <2>2
<1>9. attach \in Nat /\ attach > first_index(l) /\ attach - first_index(l) <= Len(l)
    BY <1>1, <1>6, <1>7, <1>8
<1>10. ASSUME NEW k \in 1..Len(suffix)
       PROVE  /\ held + k \in 1..Len(es) /\ suffix[k] = es[held + k]
              /\ suffix[k].index = attach + k - 1
  <2>1. /\ k \in 1..(Len(es) - (held + 1) + 1) /\ held + 1 + k - 1 = held + k
        /\ held + k \in 1..Len(es)
      BY <1>1, <1>5
  <2>2. suffix[k] = es[held + k]
      BY <1>4, <2>1
  <2>3. es[held + k].index = prev + (held + k)
      BY <2>1
  <2> QED BY <1>1, <1>6, <2>1, <2>2, <2>3
<1> QED BY <1>1, <1>4, <1>5, <1>6, <1>9, <1>10 DEF held, suffix

\* Accepting entries writes log and disk alike.
LEMMA AcceptWrites ==
    ASSUME TypeOK, DurabilityInv, NEW n \in Server, NEW m \in Message,
           handle_append_entries_accept(n, m), NEW r,
           Mirrors(log[n], disk[n], commit_index[n], r)
    PROVE  /\ Mirrors(log'[n], disk'[n], commit_index[n], r) /\ ~panicked'
           /\ AllLed(term_leaders, disk'[n].log_entries)
<1> DEFINE held   == already_held(log[n], m.entries)
           suffix == SubSeq(m.entries, held + 1, Len(m.entries))
           attach == m.entries[1].index + held
           l      == IF suffix = << >> THEN log[n]
                     ELSE truncate_and_append(log[n], attach, suffix)
           d      == hard_state_seen(n, m)
           panics == /\ suffix # << >>
                     /\ \/ ~truncate_ok(log[n], attach)
                        \/ disk_truncate_panics(d, attach, suffix)
           commit == Min2(m.leader_commit, last_index(l))
           e      == IF suffix = << >> \/ panics THEN d
                     ELSE disk_truncate_and_append(d, attach, suffix)
<1>1. /\ m \in in_flight /\ m.kind = "AppendEntries" /\ Current(n, m)
      /\ term_at(log[n], m.prev_log_index) = m.prev_log_term
      /\ Follow(n, m) /\ log' = [log EXCEPT ![n] = l]
      /\ disk' = [disk EXCEPT ![n] = e] /\ panicked' = (panicked \/ panics)
      /\ CommitTo(n, l, commit)
      /\ Handle(n, m, m.term, {AppendResponse(n, m.from, m.term, TRUE, None, None)})
      /\ UNCHANGED term_leaders
    BY DEF handle_append_entries_accept, Receives
<1>2. /\ log[n] \in Log /\ disk[n] \in Disk /\ commit_index[n] \in Nat
      /\ AllLed(term_leaders, disk[n].log_entries)
    BY LogIsOrderly
<1>3. /\ m.entries \in Seq(LogEntry) /\ m.prev_log_index \in Nat
      /\ m.prev_log_term \in Nat /\ m.leader_commit \in Nat
    BY <1>1, MessageFields
<1>4. \A k \in 1..Len(m.entries) : /\ m.entries[k].index = m.prev_log_index + k
                                   /\ Led(term_leaders, m.entries[k])
    BY <1>1 DEF DurabilityInv, SentInOrder, InOrder
<1>5. /\ d \in Disk /\ d.log_entries = disk[n].log_entries
      /\ d.snapshot = disk[n].snapshot
    BY HardStateSeenType, SeenStore
<1>6. Mirrors(log[n], d, commit_index[n], r)
  <2>1. commit_index[n] >= commit_index[n]
      BY <1>2
  <2> HIDE DEF d
  <2> QED BY <1>2, <1>5, <2>1, MirrorsStays
<1> HIDE DEF d
<1>7. /\ Mirrors(l, e, commit_index[n], r) /\ ~panics
      /\ AllLed(term_leaders, e.log_entries)
  <2>1. CASE suffix = << >>
    <3>1. l = log[n] /\ e = d /\ ~panics
        BY <2>1
    <3> QED BY <1>2, <1>5, <1>6, <3>1
  <2>2. CASE suffix # << >>
    <3>1. term_at(log[n], m.prev_log_index) # None
        BY <1>1, <1>3, NoneAssumption
    <3>2. \A k \in 1..Len(m.entries) : m.entries[k].index = m.prev_log_index + k
        BY <1>4
    <3>3. /\ attach \in Nat /\ attach > first_index(log[n])
          /\ attach - first_index(log[n]) <= Len(log[n])
          /\ suffix \in Seq(LogEntry)
          /\ \A k \in 1..Len(suffix) : /\ held + k \in 1..Len(m.entries)
                                       /\ suffix[k] = m.entries[held + k]
                                       /\ suffix[k].index = attach + k - 1
        BY <1>2, <1>3, <2>2, <3>1, <3>2, AcceptPlace
    <3> DEFINE a == truncate_and_append(log[n], attach, suffix)
               f == disk_truncate_and_append(d, attach, suffix)
    <3> HIDE DEF held, attach, suffix
    <3>4. /\ Mirrors(a, f, commit_index[n], r)
          /\ truncate_ok(log[n], attach) /\ ~disk_truncate_panics(d, attach, suffix)
          /\ \A k \in 2..Len(f.log_entries) :
                 \/ \E j \in 1..Len(suffix) : f.log_entries[k] = suffix[j]
                 \/ \E j \in 2..Len(d.log_entries) : f.log_entries[k] = d.log_entries[j]
      <4>1. \A k \in 1..Len(suffix) : suffix[k].index = attach + k - 1
          BY <3>3
      <4>2. /\ attach \in Nat /\ suffix \in Seq(LogEntry) /\ suffix # << >>
            /\ attach > first_index(log[n])
            /\ attach - first_index(log[n]) <= Len(log[n])
          BY <2>2, <3>3
      <4> DEFINE b == log[n]
                 c == commit_index[n]
      <4>3. b \in Log /\ d \in Disk /\ c \in Nat /\ Mirrors(b, d, c, r)
          BY <1>2, <1>5, <1>6
      <4> HIDE DEF l, e, commit, panics, b, c
      <4>4. /\ Mirrors(truncate_and_append(b, attach, suffix), f, c, r)
            /\ truncate_ok(b, attach) /\ ~disk_truncate_panics(d, attach, suffix)
            /\ \A k \in 2..Len(f.log_entries) :
                   \/ \E j \in 1..Len(suffix) : f.log_entries[k] = suffix[j]
                   \/ \E j \in 2..Len(d.log_entries) : f.log_entries[k] = d.log_entries[j]
        <5>1. attach > first_index(b) /\ attach - first_index(b) <= Len(b)
            BY <4>2 DEF b
        <5> QED BY <4>1, <4>2, <4>3, <5>1, MirrorsSplice
      <4> QED BY <4>4 DEF b, c
    <3>5. l = a /\ e = f /\ ~panics
        BY <2>2, <3>4
    <3>6. AllLed(term_leaders, f.log_entries)
      <4>1. \A j \in 1..Len(suffix) : Led(term_leaders, suffix[j])
          BY <1>4, <3>3, Zenon
      <4>2. \A j \in 2..Len(d.log_entries) : Led(term_leaders, d.log_entries[j])
          BY <1>2, <1>5 DEF AllLed
      <4> HIDE DEF f
      <4> QED BY <3>4, <4>1, <4>2, Zenon DEF AllLed
    <3> QED BY <3>4, <3>5, <3>6
  <2> QED BY <2>1, <2>2
<1> HIDE DEF l, e, panics
<1>8. log'[n] = l /\ disk'[n] = e
    BY <1>1 DEF TypeOK
<1> QED BY <1>1, <1>7, <1>8 DEF DurabilityInv, NoPanic

\* An accepted AppendEntries: log and disk are cut at the same place and get
\* the same entries.
LEMMA AcceptTidy ==
    ASSUME TypeOK, TypeOK', DurabilityInv, NEW n \in Server, NEW m \in Message,
           handle_append_entries_accept(n, m)
    PROVE  Tidy(n)
<1> DEFINE commit == Min2(m.leader_commit, last_index(log'[n]))
<1>1. /\ m.kind = "AppendEntries" /\ Follow(n, m) /\ UNCHANGED term_leaders
      /\ \E l : log' = [log EXCEPT ![n] = l] /\ CommitTo(n, l, Min2(m.leader_commit, last_index(l)))
      /\ \E e : disk' = [disk EXCEPT ![n] = e]
      /\ Handle(n, m, m.term, {AppendResponse(n, m.from, m.term, TRUE, None, None)})
    BY DEF handle_append_entries_accept, Receives
<1>2. /\ \A p \in Server : p # n => log'[p] = log[p] /\ disk'[p] = disk[p]
      /\ CommitTo(n, log'[n], commit)
    BY <1>1 DEF TypeOK
<1>3. /\ role'[n] = "Follower"
      /\ \A p \in Server : p # n => /\ role'[p] = role[p]
                                    /\ current_term'[p] = current_term[p]
    BY <1>1 DEF TypeOK, Follow
<1>4. /\ Mirrors(log[n], disk[n], commit_index[n], role[n])
      /\ log[n] \in Log /\ disk[n] \in Disk /\ commit_index[n] \in Nat
    BY LogIsOrderly
<1>5. Mirrors(log[n], disk[n], commit_index[n], "Follower")
    BY <1>4 DEF Mirrors
<1>6. /\ Mirrors(log'[n], disk'[n], commit_index[n], "Follower") /\ ~panicked'
      /\ AllLed(term_leaders, disk'[n].log_entries)
    BY <1>5, AcceptWrites
<1>7. /\ log'[n] \in Log /\ disk'[n] \in Disk /\ commit_index'[n] \in Nat
    BY DEF TypeOK
<1>8. commit \in Nat
    BY <1>1, <1>7, LogType, MessageFields DEF Min2
<1> HIDE DEF commit
<1>9. /\ \A p \in Server : p # n => commit_index'[p] = commit_index[p]
      /\ commit_index'[n] >= commit_index[n]
    BY <1>2, <1>8, CommitGrows
<1>10. Mirrors(log'[n], disk'[n], commit_index'[n], "Follower")
    BY <1>4, <1>6, <1>7, <1>9, MirrorsStays
<1>11. \A x \in in_flight' : x \in in_flight \/ InOrder(term_leaders, x)
  <2>1. in_flight' \subseteq in_flight
            \cup {AppendResponse(n, m.from, m.term, TRUE, None, None)}
      BY <1>1, InFlight
  <2> QED BY <2>1, OthersInOrder
<1> QED BY <1>1, <1>2, <1>3, <1>6, <1>9, <1>10, <1>11 DEF Tidy

\* An answer to AppendEntries.
LEMMA AppendResponseTidy ==
    ASSUME TypeOK, TypeOK', DurabilityInv, NEW n \in Server, NEW m \in Message,
           handle_append_entries_response(n, m)
    PROVE  Tidy(n)
<1> DEFINE match == [match_index[n] EXCEPT ![m.from] = last_index(log[n])]
           commit == advanced_commit(n, match)
           next == backtracked_next(log[n], next_index[n][m.from], m)
<1>1. m.kind = "AppendEntriesResponse" /\ Current(n, m)
      /\ UNCHANGED <<log, panicked, term_leaders>>
    BY DEF handle_append_entries_response, Receives
<1>2. commit_index[n] >= commit_index[n] /\ commit_index[n] \in Nat /\ log[n] \in Log
    BY DEF TypeOK
<1>3. CASE UNCHANGED <<termVars, disk>> /\ CommitTo(n, log[n], commit) /\ Handle(n, m, m.term, {})
  <2>1. commit \in Nat
      BY <1>2, AdvancedCommitType
  <2> HIDE DEF commit
  <2>2. /\ \A p \in Server : p # n => commit_index'[p] = commit_index[p]
        /\ commit_index'[n] >= commit_index[n]
      BY <1>3, <2>1, CommitGrows
  <2>3. in_flight' \subseteq in_flight
      BY <1>3, InFlight
  <2> QED BY <1>1, <1>3, <2>2, <2>3, SteadyStep DEF termVars
<1>4. CASE /\ UNCHANGED <<termVars, disk, commit_index>>
           /\ Handle(n, m, m.term, {replicate_to_peer(n, m.from, current_term[n], log[n],
                                                      commit_index[n], next)})
  <2>1. next \in Nat
    <3>1. /\ m.conflict_term \in OptNat /\ m.conflict_index \in OptNat
          /\ next_index[n][m.from] \in Nat
        BY <1>1, MessageFields DEF TypeOK
    <3> QED BY <1>2, <3>1, BacktrackedType
  <2> HIDE DEF next
  <2>2. InOrder(term_leaders, replicate_to_peer(n, m.from, current_term[n], log[n],
                                                commit_index[n], next))
      BY <2>1, LogIsOrderly, ReplicateInOrder
  <2>3. \A x \in in_flight' : x \in in_flight \/ InOrder(term_leaders, x)
      BY <1>4, <2>2, InFlight
  <2> QED BY <1>1, <1>2, <1>4, <2>3, SteadyStep DEF termVars
<1>5. CASE Observe(n, m) /\ Handle(n, m, m.term, {}) /\ UNCHANGED commit_index
  <2>1. in_flight' \subseteq in_flight
      BY <1>5, InFlight
  <2> QED BY <1>1, <1>5, <2>1, TermTidy DEF Observe
<1> QED BY <1>3, <1>4, <1>5 DEF handle_append_entries_response

\* A snapshot, ignored or installed, and the answer to one.
LEMMA SnapshotTidy ==
    ASSUME TypeOK, TypeOK', DurabilityInv, NEW n \in Server, NEW m \in Message,
           handle_install_snapshot(n, m) \/ handle_install_snapshot_response(n, m)
    PROVE  Tidy(n)
<1>1. CASE handle_install_snapshot(n, m)
  <2> DEFINE i == m.last_included_index
             u == m.last_included_term
             d == hard_state_seen(n, m)
             e == write_snapshot(d, SnapshotMeta(i, u))
             l == install_snapshot(i, u)
  <2>1. /\ Current(n, m) /\ Follow(n, m) /\ m.kind = "InstallSnapshot"
        /\ Handle(n, m, m.term, {SnapshotResponse(n, m.from, m.term)})
        /\ UNCHANGED <<panicked, term_leaders>>
      BY <1>1 DEF handle_install_snapshot, Receives, histVars
  <2>2. \A x \in in_flight' : x \in in_flight \/ InOrder(term_leaders, x)
    <3>1. in_flight' \subseteq in_flight \cup {SnapshotResponse(n, m.from, m.term)}
        BY <2>1, InFlight
    <3> QED BY <3>1, OthersInOrder
  <2>3. CASE i <= commit_index[n]
    <3>1. disk' = [disk EXCEPT ![n] = d] /\ UNCHANGED <<log, commit_index>>
        BY <1>1, <2>3 DEF handle_install_snapshot
    <3> QED BY <2>1, <2>2, <3>1, TermTidy
  <2>4. CASE ~(i <= commit_index[n])
    <3>1. /\ log' = [log EXCEPT ![n] = l] /\ disk' = [disk EXCEPT ![n] = e]
          /\ commit_index' = [commit_index EXCEPT ![n] = i]
        BY <1>1, <2>4 DEF handle_install_snapshot
    <3>2. /\ Mirrors(log[n], disk[n], commit_index[n], role[n])
          /\ log[n] \in Log /\ disk[n] \in Disk /\ commit_index[n] \in Nat
          /\ AllLed(term_leaders, disk[n].log_entries)
        BY LogIsOrderly
    <3>3. /\ d \in Disk /\ d.log_entries = disk[n].log_entries
          /\ d.snapshot = disk[n].snapshot
        BY HardStateSeenType, SeenStore
    <3>4. Mirrors(log[n], d, commit_index[n], "Follower")
      <4>1. commit_index[n] >= commit_index[n] /\ "Follower" # "Leader"
          BY <3>2
      <4> HIDE DEF d
      <4> QED BY <3>2, <3>3, <4>1, MirrorsStays
    <3>5. i \in Nat /\ u \in Nat /\ i > commit_index[n]
        BY <2>1, <2>4, <3>2, MessageFields
    <3> HIDE DEF d, i, u
    <3>6. Mirrors(l, e, i, "Follower") /\ From(e.log_entries, d.log_entries)
        BY <3>2, <3>3, <3>4, <3>5, MirrorsInstall
    <3> HIDE DEF l, e
    <3>7. AllLed(term_leaders, e.log_entries)
        BY <3>2, <3>3, <3>6, Zenon DEF AllLed, From
    <3>8. /\ log'[n] = l /\ disk'[n] = e /\ commit_index'[n] = i /\ role'[n] = "Follower"
          /\ \A p \in Server : p # n => /\ log'[p] = log[p] /\ disk'[p] = disk[p]
                                        /\ commit_index'[p] = commit_index[p]
                                        /\ role'[p] = role[p]
                                        /\ current_term'[p] = current_term[p]
        BY <2>1, <3>1 DEF TypeOK, Follow
    <3> QED BY <2>1, <2>2, <3>6, <3>7, <3>8 DEF Tidy, DurabilityInv, NoPanic
  <2> QED BY <2>3, <2>4
<1>2. CASE handle_install_snapshot_response(n, m)
  <2> DEFINE match == [match_index[n] EXCEPT ![m.from] = first_index(log[n])]
             commit == advanced_commit(n, match)
  <2>1. Current(n, m) /\ UNCHANGED <<log, panicked, term_leaders>>
        /\ Handle(n, m, m.term, {})
      BY <1>2 DEF handle_install_snapshot_response, histVars
  <2>2. in_flight' \subseteq in_flight
      BY <2>1, InFlight
  <2>3. CASE UNCHANGED <<termVars, disk>> /\ CommitTo(n, log[n], commit)
    <3>1. commit \in Nat
      <4>1. commit_index[n] \in Nat /\ log[n] \in Log
          BY DEF TypeOK
      <4> QED BY <4>1, AdvancedCommitType
    <3> HIDE DEF commit
    <3>2. /\ \A p \in Server : p # n => commit_index'[p] = commit_index[p]
          /\ commit_index'[n] >= commit_index[n]
        BY <2>3, <3>1, CommitGrows
    <3> QED BY <2>1, <2>2, <2>3, <3>2, SteadyStep DEF termVars
  <2>4. CASE Observe(n, m) /\ UNCHANGED commit_index
      BY <2>1, <2>2, <2>4, TermTidy DEF Observe
  <2> QED BY <1>2, <2>3, <2>4 DEF handle_install_snapshot_response
<1> QED BY <1>1, <1>2

------------------------------------------------------------------------------
(* Terms that were led.                                                     *)

\* A step that elects nobody and starts no candidacy.
LEMMA QuietTerms ==
    ASSUME TypeOK, TypeOK', DurabilityInv, Quiet
    PROVE  LeadersKept' /\ CandidatesAreNew'
<1>1. LeadersKept'
  <2> SUFFICES ASSUME NEW a \in term_leaders PROVE a[1] <= current_term'[a[2]]
      BY DEF Quiet, LeadersKept
  <2>1. a[1] \in Nat /\ a[2] \in Server
      BY DEF TypeOK
  <2>2. /\ a[1] <= current_term[a[2]] /\ current_term'[a[2]] >= current_term[a[2]]
        /\ current_term[a[2]] \in Nat /\ current_term'[a[2]] \in Nat
      BY <2>1 DEF DurabilityInv, LeadersKept, Quiet, VotesKept, TypeOK
  <2> QED BY <2>1, <2>2
<1>2. CandidatesAreNew'
    BY DEF Quiet, DurabilityInv, CandidatesAreNew
<1> QED BY <1>1, <1>2

\* The three handlers that are not quiet.
LEMMA ElectionTerms ==
    ASSUME TypeOK, TypeOK', DurabilityInv, NEW n \in Server, NEW m \in Message,
           \/ handle_pre_vote_response(n, m)
           \/ handle_request_vote(n, m)
           \/ handle_request_vote_response(n, m),
           VotesKept
    PROVE  LeadersKept' /\ CandidatesAreNew'
<1>1. term_leaders' \subseteq term_leaders \cup {<<current_term'[n], n>>}
  <2>1. CASE handle_pre_vote_response(n, m)
      BY <2>1 DEF handle_pre_vote_response, start_real_election, histVars
  <2>2. CASE handle_request_vote(n, m)
      BY <2>2 DEF handle_request_vote
  <2>3. CASE handle_request_vote_response(n, m)
      BY <2>3 DEF handle_request_vote_response, become_leader, histVars
  <2> QED BY <2>1, <2>2, <2>3
<1>2. LeadersKept'
  <2> SUFFICES ASSUME NEW a \in term_leaders' PROVE a[1] <= current_term'[a[2]]
      BY DEF LeadersKept
  <2>1. a[1] \in Nat /\ a[2] \in Server
      BY DEF TypeOK
  <2>2. /\ current_term'[a[2]] >= current_term[a[2]]
        /\ current_term[a[2]] \in Nat /\ current_term'[a[2]] \in Nat
      BY <2>1 DEF VotesKept, TypeOK
  <2>3. CASE a \in term_leaders
    <3>1. a[1] <= current_term[a[2]]
        BY <2>3 DEF DurabilityInv, LeadersKept
    <3> QED BY <2>1, <2>2, <3>1
  <2>4. CASE a = <<current_term'[n], n>>
      BY <2>1, <2>2, <2>4
  <2> QED BY <1>1, <2>3, <2>4
<1>3. \/ /\ \A p \in Server : role'[p] = "Candidate" =>
                role[p] = "Candidate" /\ current_term'[p] = current_term[p]
         /\ term_leaders' \subseteq term_leaders \cup {<<current_term'[n], n>>}
         /\ term_leaders' # term_leaders => role'[n] # "Candidate"
      \/ /\ current_term' = [current_term EXCEPT ![n] = current_term[n] + 1]
         /\ role' = [role EXCEPT ![n] = "Candidate"]
         /\ UNCHANGED term_leaders
  <2>1. CASE handle_pre_vote_response(n, m)
      BY <2>1 DEF handle_pre_vote_response, start_real_election, termVars, histVars
  <2>2. CASE handle_request_vote(n, m)
    <3>1. /\ role' = [role EXCEPT ![n] = role_seen(n, m)] /\ Current(n, m)
          /\ current_term' = [current_term EXCEPT ![n] = m.term] /\ UNCHANGED term_leaders
        BY <2>2 DEF handle_request_vote
    <3>2. m.term \in Nat /\ current_term[n] \in Nat /\ m.term >= current_term[n]
        BY <3>1, MessageFields DEF TypeOK, Current
    <3>3. role'[n] = "Candidate" => role[n] = "Candidate" /\ m.term = current_term[n]
      <4>1. role'[n] = role_seen(n, m)
          BY <3>1 DEF TypeOK
      <4> QED BY <3>2, <4>1 DEF role_seen, Newer
    <3> QED BY <3>1, <3>3 DEF TypeOK
  <2>3. CASE handle_request_vote_response(n, m) /\ counts_vote(n, m)
    <3>1. \/ UNCHANGED <<role, current_term, term_leaders>>
          \/ become_leader(n, m)
        BY <2>3 DEF handle_request_vote_response, termVars, histVars
    <3>2. CASE become_leader(n, m)
      <4>1. /\ role' = [role EXCEPT ![n] = "Leader"] /\ UNCHANGED current_term
          BY <3>2 DEF become_leader
      <4> QED BY <1>1, <4>1 DEF TypeOK
    <3> QED BY <3>1, <3>2
  <2>4. CASE handle_request_vote_response(n, m) /\ ~counts_vote(n, m)
    <3>1. /\ role' = [role EXCEPT ![n] = role_seen(n, m)] /\ Current(n, m)
          /\ current_term' = [current_term EXCEPT ![n] = m.term] /\ UNCHANGED term_leaders
        BY <2>4 DEF handle_request_vote_response, Observe, histVars
    <3>2. m.term \in Nat /\ current_term[n] \in Nat /\ m.term >= current_term[n]
        BY <3>1, MessageFields DEF TypeOK, Current
    <3>3. role'[n] = "Candidate" => role[n] = "Candidate" /\ m.term = current_term[n]
      <4>1. role'[n] = role_seen(n, m)
          BY <3>1 DEF TypeOK
      <4> QED BY <3>2, <4>1 DEF role_seen, Newer
    <3> QED BY <3>1, <3>3 DEF TypeOK
  <2> QED BY <2>1, <2>2, <2>3, <2>4
<1>4. CandidatesAreNew'
  <2> SUFFICES ASSUME NEW p \in Server, role'[p] = "Candidate",
                      <<current_term'[p], p>> \in term_leaders'
               PROVE  FALSE
      BY DEF CandidatesAreNew
  <2>1. CASE role[p] = "Candidate" /\ current_term'[p] = current_term[p]
             /\ <<current_term'[p], p>> \in term_leaders
      BY <2>1 DEF DurabilityInv, CandidatesAreNew
  <2>2. CASE current_term' = [current_term EXCEPT ![n] = current_term[n] + 1]
             /\ role' = [role EXCEPT ![n] = "Candidate"] /\ UNCHANGED term_leaders
    <3>1. CASE p = n
      <4>1. current_term'[p] = current_term[n] + 1 /\ current_term[n] \in Nat
          BY <2>2, <3>1 DEF TypeOK
      <4>2. current_term'[p] <= current_term[p]
          BY <2>2 DEF DurabilityInv, LeadersKept
      <4> QED BY <3>1, <4>1, <4>2
    <3>2. CASE p # n
      <4>1. current_term'[p] = current_term[p] /\ role[p] = "Candidate"
          BY <2>2, <3>2 DEF TypeOK
      <4> QED BY <2>1, <2>2, <4>1
    <3> QED BY <3>1, <3>2
  <2> QED BY <1>3, <2>1, <2>2
<1> QED BY <1>2, <1>4

------------------------------------------------------------------------------
\* The invariant holds of an empty cluster.
LEMMA DurabilityInit == Init => DurabilityInv
<1> SUFFICES ASSUME Init PROVE DurabilityInv
    OBVIOUS
<1>1. ASSUME NEW n \in Server PROVE Mirrors(log[n], disk[n], commit_index[n], role[n])
  <2>1. /\ log[n] = new_log /\ disk[n] = new_disk /\ commit_index[n] = 0
        /\ role[n] = "Follower"
      BY DEF Init
  <2>2. BaseOf(new_disk) = SnapshotMeta(0, 0) /\ new_disk.log_entries = new_log
      BY DEF BaseOf, new_disk
  <2>3. Len(new_log) = 1 /\ new_log[1] = sentinel(0, 0)
      BY DEF new_log
  <2>4. /\ SnapshotMeta(0, 0).last_included_index = 0
        /\ SnapshotMeta(0, 0).last_included_term = 0
      BY DEF SnapshotMeta
  <2>5. first_index(new_log) = 0
      BY <2>3 DEF first_index, sentinel
  <2>6. Contiguous(new_log)
    <3>1. new_log[1].index = 0
        BY <2>3 DEF sentinel
    <3> QED BY <2>3, <3>1 DEF Contiguous
  <2> QED BY <2>1, <2>2, <2>3, <2>4, <2>5, <2>6 DEF Mirrors
<1>2. EntriesWereLed
  <2>1. Len(new_disk.log_entries) = 1
      BY DEF new_disk, new_log
  <2> QED BY <2>1 DEF Init, EntriesWereLed, AllLed
<1> QED BY <1>1, <1>2 DEF Init, DurabilityInv, DiskMirrorsLog, SentInOrder, LeadersKept,
        CandidatesAreNew, LeadersAreListed, NoPanic

\* Every step of the cluster keeps it.
LEMMA DurabilityStep ==
    ASSUME TypeOK, ElectionInv, DurabilityInv, [Next]_vars
    PROVE  DurabilityInv'
<1>1. TypeOK'
    BY NextType
<1>2. ASSUME NEW n \in Server, Tidy(n), LeadersKept' /\ CandidatesAreNew'
      PROVE  DurabilityInv'
    BY <1>2, TidyStep DEF DurabilityInv
<1>3. ASSUME NEW n \in Server, Tidy(n), Quiet PROVE DurabilityInv'
    BY <1>1, <1>2, <1>3, QuietTerms
<1>4. ASSUME NEW m \in in_flight, Deliver(m.to, m) PROVE DurabilityInv'
  <2> DEFINE n == m.to
  <2>1. m \in Message /\ n \in Server
      BY MessageFields DEF TypeOK
  <2> HIDE DEF n
  <2>2. VotesKept
      BY ElectionStep
  <2>3. CASE handle_pre_vote(n, m)
      BY <1>1, <1>3, <2>1, <2>3, PreVoteTidy, PreVoteQuiet
  <2>4. CASE handle_pre_vote_response(n, m)
      BY <1>1, <1>2, <2>1, <2>2, <2>4, PreVoteTidy, ElectionTerms
  <2>5. CASE handle_request_vote(n, m)
      BY <1>1, <1>2, <2>1, <2>2, <2>5, RequestVoteTidy, ElectionTerms
  <2>6. CASE handle_request_vote_response(n, m)
      BY <1>1, <1>2, <2>1, <2>2, <2>6, RequestVoteResponseTidy, ElectionTerms
  <2>7. CASE handle_append_entries_missing(n, m) \/ handle_append_entries_conflict(n, m)
      BY <1>1, <1>3, <2>1, <2>7, RejectTidy, AppendEntriesQuiet
  <2>8. CASE handle_append_entries_accept(n, m)
      BY <1>1, <1>3, <2>1, <2>8, AcceptTidy, AppendEntriesQuiet
  <2>9. CASE handle_append_entries_response(n, m)
      BY <1>1, <1>3, <2>1, <2>9, AppendResponseTidy, AppendResponseQuiet
  <2>10. CASE handle_install_snapshot(n, m) \/ handle_install_snapshot_response(n, m)
      BY <1>1, <1>3, <2>1, <2>10, SnapshotTidy, SnapshotQuiet
  <2> QED BY <1>4, <2>3, <2>4, <2>5, <2>6, <2>7, <2>8, <2>9, <2>10 DEF Deliver, n
<1>5. CASE UNCHANGED vars
    BY <1>5 DEF vars, nodeVars, termVars, logVars, histVars, DurabilityInv, DiskMirrorsLog,
       EntriesWereLed, SentInOrder, LeadersKept, CandidatesAreNew, LeadersAreListed, NoPanic
<1>6. ASSUME NEW n \in Server, tick_idle(n) \/ tick_election_timeout(n) \/ tick_leader(n)
      PROVE  DurabilityInv'
    BY <1>1, <1>3, <1>6, TickTidy, TickQuiet
<1>7. ASSUME NEW n \in Server, NEW c \in Command, propose_command(n, c) PROVE DurabilityInv'
    BY <1>1, <1>3, <1>7, ProposeTidy, ProposeQuiet
<1>8. ASSUME NEW n \in Server, compaction_pass(n) PROVE DurabilityInv'
    BY <1>1, <1>3, <1>8, CompactionTidy, CompactionQuiet
<1>9. ASSUME NEW n \in Server, crash_node(n) \/ spawn_node(n) PROVE DurabilityInv'
    BY <1>1, <1>3, <1>9, FaultTidy, SpawnTidy, FaultQuiet
<1>10. ASSUME NEW m \in in_flight, drop_message(m) PROVE DurabilityInv'
  <2>1. m.to \in Server
      BY MessageFields DEF TypeOK
  <2> QED BY <1>1, <1>3, <1>10, <2>1, FaultTidy, FaultQuiet
<1> QED BY <1>4, <1>5, <1>6, <1>7, <1>8, <1>9, <1>10 DEF Next

\* A restart would read back the disk, and the log is a prefix of it.
LEMMA InvImpliesDurable ==
    ASSUME TypeOK, DurabilityInv
    PROVE  LogIsDurable
<1> SUFFICES ASSUME NEW n \in Server
             PROVE  /\ Contiguous(restored(n)) /\ Len(log[n]) <= Len(restored(n))
                    /\ log[n] = SubSeq(restored(n), 1, Len(log[n]))
    BY DEF LogIsDurable, TypeOK
<1> DEFINE l  == log[n]
           dl == disk[n].log_entries
<1>1. /\ Mirrors(l, disk[n], commit_index[n], role[n])
      /\ l \in Log /\ disk[n] \in Disk /\ commit_index[n] \in Nat
    BY LogIsOrderly
<1>2. restored(n) = dl
  <2>1. restored(n) = restore_log(BaseOf(disk[n]), Tail(dl))
      BY DEF restored, BaseOf
  <2> QED BY <1>1, <2>1, MirrorsRestore
<1>3. /\ Contiguous(dl) /\ Len(l) <= Len(dl) /\ \A k \in 1..Len(l) : l[k] = dl[k]
    BY <1>1 DEF Mirrors
<1>4. dl \in Log
    BY <1>1, DiskType
<1> HIDE DEF l, dl
<1>5. l = SubSeq(dl, 1, Len(l))
  <2>1. Len(l) \in Nat /\ Len(l) >= 1 /\ l \in Seq(LogEntry)
      BY <1>1, LogType
  <2>2. \A i \in 1..Len(l) : dl[i] \in LogEntry
      BY <1>3, <1>4, <2>1, LogType
  <2>3. /\ SubSeq(dl, 1, Len(l)) \in Seq(LogEntry)
        /\ Len(SubSeq(dl, 1, Len(l))) = IF 1 <= Len(l) THEN Len(l) - 1 + 1 ELSE 0
        /\ \A i \in 1..(Len(l) - 1 + 1) : SubSeq(dl, 1, Len(l))[i] = dl[1 + i - 1]
      BY <2>1, <2>2, SubSeqProperties
  <2> DEFINE s == SubSeq(dl, 1, Len(l))
  <2>4. s \in Seq(LogEntry) /\ Len(s) = Len(l) /\ \A i \in 1..Len(l) : s[i] = dl[i]
      BY <2>1, <2>3
  <2> HIDE DEF s
  <2>5. Len(s) = Len(l) /\ \A i \in 1..Len(l) : l[i] = s[i]
      BY <1>3, <2>4
  <2>6. l = s
      BY <2>1, <2>4, <2>5, SeqEqual
  <2> QED BY <2>6 DEF s
<1> QED BY <1>2, <1>3, <1>5 DEF l

------------------------------------------------------------------------------
(* Leader append-only.                                                      *)

\* While a node goes on leading, only propose and a compaction touch its log:
\* whoever accepts entries, installs a snapshot or restarts is a follower.
LEMMA LeaderLog ==
    ASSUME TypeOK, [Next]_vars, NEW n \in Server, role[n] = "Leader", role'[n] = "Leader"
    PROVE  \/ log'[n] = log[n]
           \/ \E c \in Command : propose_command(n, c)
           \/ compaction_pass(n)
<1>1. ASSUME NEW m \in in_flight, Deliver(m.to, m) PROVE log'[n] = log[n]
  <2> DEFINE q == m.to
  <2>1. q \in Server
      BY MessageFields DEF TypeOK
  <2> HIDE DEF q
  <2>2. CASE UNCHANGED log
      BY <2>2
  <2>3. CASE handle_request_vote_response(q, m) /\ ~UNCHANGED log
    <3>1. counts_vote(q, m) /\ become_leader(q, m)
        BY <2>3 DEF handle_request_vote_response, logVars
    <3>2. q # n /\ log' = [log EXCEPT ![q] = log'[q]]
        BY <2>1, <3>1 DEF counts_vote, become_leader, TypeOK
    <3> QED BY <3>2 DEF TypeOK
  <2>4. CASE handle_append_entries_accept(q, m) \/ handle_install_snapshot(q, m)
    <3>1. role' = [role EXCEPT ![q] = "Follower"]
        BY <2>4 DEF handle_append_entries_accept, handle_install_snapshot, Follow
    <3>2. \E l : log' = [log EXCEPT ![q] = l] \/ UNCHANGED log
        BY <2>4 DEF handle_append_entries_accept, handle_install_snapshot
    <3>3. q # n
        BY <2>1, <3>1 DEF TypeOK
    <3> QED BY <3>2, <3>3 DEF TypeOK
  <2> QED BY <1>1, <2>2, <2>3, <2>4
          DEF Deliver, q, handle_pre_vote, handle_pre_vote_response, start_real_election,
              handle_request_vote, handle_append_entries_missing,
              handle_append_entries_conflict, handle_append_entries_response,
              handle_install_snapshot_response, logVars
<1>2. ASSUME NEW q \in Server,
             \/ tick_idle(q) \/ tick_election_timeout(q) \/ tick_leader(q)
             \/ crash_node(q)
      PROVE  log'[n] = log[n]
    BY <1>2 DEF tick_idle, tick_lease_lapses, tick_election_timeout, start_pre_vote,
       tick_leader, tick_heartbeat, crash_node, nodeVars, logVars
<1>3. ASSUME NEW m \in in_flight, drop_message(m) PROVE log'[n] = log[n]
    BY <1>3 DEF drop_message, logVars
<1>4. ASSUME NEW q \in Server, spawn_node(q) PROVE log'[n] = log[n]
  <2>1. /\ role' = [role EXCEPT ![q] = "Follower"]
        /\ \E l : log' = [log EXCEPT ![q] = l]
      BY <1>4 DEF spawn_node, restore
  <2>2. q # n
      BY <2>1 DEF TypeOK
  <2> QED BY <2>1, <2>2 DEF TypeOK
<1>5. ASSUME NEW q \in Server, q # n,
             compaction_pass(q) \/ \E c \in Command : propose_command(q, c)
      PROVE  log'[n] = log[n]
  <2>1. \E l : log' = [log EXCEPT ![q] = l]
      BY <1>5 DEF compaction_pass, compact_logs, propose_command, propose
  <2> QED BY <1>5, <2>1 DEF TypeOK
<1>6. CASE UNCHANGED vars
    BY <1>6 DEF vars, nodeVars, logVars
<1> QED BY <1>1, <1>2, <1>3, <1>4, <1>5, <1>6 DEF Next

\* Appending keeps every entry.
LEMMA AppendKeeps ==
    ASSUME NEW l \in Log, NEW e \in LogEntry
    PROVE  /\ first_index(Append(l, e)) = first_index(l)
           /\ \A b \in Nat : EntriesAfter(l, b) \subseteq EntriesAfter(Append(l, e), b)
<1> DEFINE a == Append(l, e)
<1>1. Len(l) \in Nat /\ Len(l) >= 1 /\ l \in Seq(LogEntry)
    BY LogType
<1>2. Len(a) = Len(l) + 1 /\ \A k \in 1..Len(l) : a[k] = l[k]
    BY <1>1, AppendProperties
<1> HIDE DEF a
<1>3. first_index(a) = first_index(l)
    BY <1>1, <1>2 DEF first_index
<1>4. ASSUME NEW b \in Nat, NEW k \in 2..Len(l), l[k].index > b
      PROVE  l[k] \in EntriesAfter(a, b)
  <2>1. k \in 2..Len(a) /\ a[k] = l[k]
      BY <1>1, <1>2
  <2> QED BY <1>4, <2>1 DEF EntriesAfter
<1> QED BY <1>3, <1>4 DEF EntriesAfter, a

\* Compacting a log without a gap keeps every entry above its new base.
LEMMA CompactKeeps ==
    ASSUME NEW l \in Log, Contiguous(l), NEW i \in Nat, NEW t \in Nat
    PROVE  LET a == compact(l, i, t)
           IN  EntriesAfter(l, first_index(a)) \subseteq EntriesAfter(a, first_index(a))
<1> DEFINE a == compact(l, i, t)
           s == i - first_index(l)
<1>1. first_index(l) \in Nat /\ Len(l) \in Nat
    BY LogType
<1>2. CASE i <= first_index(l)
  <2>1. a = l
      BY <1>2 DEF compact
  <2> QED BY <2>1
<1>3. CASE ~(i <= first_index(l))
  <2>1. i > first_index(l)
      BY <1>1, <1>3
  <2>2. /\ Len(a) = IF s + 1 < Len(l) THEN Len(l) - s ELSE 1
        /\ a[1] = sentinel(i, t)
        /\ \A k \in 2..Len(a) : a[k] = l[k + s] /\ k + s \in 2..Len(l)
      BY <2>1, CompactIs
  <2> HIDE DEF a
  <2>3. first_index(a) = i
      BY <2>2 DEF first_index, sentinel
  <2>4. ASSUME NEW k \in 2..Len(l), l[k].index > i PROVE l[k] \in EntriesAfter(a, i)
    <3>1. l[k].index = first_index(l) + k - 1
      <4>1. k \in 1..Len(l)
          BY <1>1
      <4> QED BY <4>1 DEF Contiguous, first_index
    <3>2. k > s + 1
        BY <1>1, <2>4, <3>1
    <3>3. k - s \in 2..Len(a) /\ (k - s) + s = k
        BY <1>1, <2>1, <2>2, <3>2
    <3>4. a[k - s] = l[k]
        BY <2>2, <3>3
    <3> QED BY <2>4, <3>3, <3>4 DEF EntriesAfter
  <2>5. EntriesAfter(l, i) \subseteq EntriesAfter(a, i)
      BY <2>4 DEF EntriesAfter
  <2> QED BY <2>3, <2>5 DEF a
<1> QED BY <1>2, <1>3

\* What LeaderAppendOnly says of one step.
LEMMA LeaderKeeps ==
    ASSUME TypeOK, DurabilityInv, [Next]_vars, NEW n \in Server,
           role[n] = "Leader", role'[n] = "Leader"
    PROVE  EntriesAfter(log[n], first_index(log'[n]))
               \subseteq EntriesAfter(log'[n], first_index(log'[n]))
<1>1. /\ log[n] \in Log /\ Contiguous(log[n]) /\ current_term[n] \in Nat
      /\ commit_index[n] \in Nat
    BY LogIsOrderly
<1>2. CASE log'[n] = log[n]
    BY <1>2
<1>3. ASSUME NEW c \in Command, propose_command(n, c)
      PROVE  EntriesAfter(log[n], first_index(log'[n]))
                 \subseteq EntriesAfter(log'[n], first_index(log'[n]))
  <2> DEFINE entry == Entry(last_index(log[n]) + 1, current_term[n], c)
  <2>1. log'[n] = Append(log[n], entry)
      BY <1>3 DEF propose_command, propose, TypeOK
  <2>2. entry \in LogEntry
    <3>1. last_index(log[n]) + 1 \in Nat
        BY <1>1, LogType
    <3> QED BY <1>1, <3>1, EntryType
  <2> HIDE DEF entry
  <2>3. first_index(log[n]) \in Nat
      BY <1>1, LogType
  <2> QED BY <1>1, <2>1, <2>2, <2>3, AppendKeeps
<1>4. CASE compaction_pass(n)
  <2> DEFINE i == commit_index[n]
             t == IF term_at(log[n], i) = None THEN 0 ELSE term_at(log[n], i)
  <2>1. log'[n] = compact(log[n], i, t)
      BY <1>4 DEF compaction_pass, compact_logs, TypeOK
  <2>2. i \in Nat /\ t \in Nat
      BY <1>1, TermAtType DEF OptNat
  <2> HIDE DEF i, t
  <2> QED BY <1>1, <2>1, <2>2, CompactKeeps
<1> QED BY <1>2, <1>3, <1>4, LeaderLog

------------------------------------------------------------------------------
\* The three invariants together.
LEMMA DurabilityAlways == Spec => [](TypeOK /\ ElectionInv /\ DurabilityInv)
<1>1. TypeOK /\ ElectionInv /\ [Next]_vars => ElectionInv'
    BY ElectionStep
<1>2. TypeOK /\ ElectionInv /\ DurabilityInv /\ [Next]_vars => DurabilityInv'
    BY DurabilityStep
<1> QED BY <1>1, <1>2, ElectionInit, DurabilityInit, TypeCorrect, PTL DEF Spec

\* log.rs and storage.rs: no assert! and no panic! of the log or the disk ever
\* fires, whatever is lost, repeated, compacted, installed or restarted.
THEOREM NeverPanics == Spec => []NoPanic
<1>1. DurabilityInv => NoPanic
    BY DEF DurabilityInv
<1> QED BY <1>1, DurabilityAlways, PTL

\* A crash loses nothing of a node's log: what a restart would read back has
\* no gap and begins with everything the node holds in memory.
THEOREM NothingHeldIsLost == Spec => []LogIsDurable
<1>1. TypeOK /\ DurabilityInv => LogIsDurable
    BY InvImpliesDurable
<1> QED BY <1>1, DurabilityAlways, PTL

\* README.md:46, "Leader Append-Only": no step of the cluster overwrites or
\* drops an entry of a node that goes on leading its term, compaction aside.
THEOREM LeadersOnlyAppend == Spec => LeaderAppendOnly
<1>1. TypeOK /\ DurabilityInv /\ [Next]_vars =>
          [\A n \in Server :
              (/\ role[n] = "Leader" /\ role'[n] = "Leader"
               /\ current_term'[n] = current_term[n]) =>
                  EntriesAfter(log[n], first_index(log'[n]))
                      \subseteq EntriesAfter(log'[n], first_index(log'[n]))]_vars
    BY LeaderKeeps
<1> QED BY <1>1, DurabilityAlways, PTL DEF Spec, LeaderAppendOnly
==============================================================================
