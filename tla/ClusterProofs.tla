---------------------------- MODULE ClusterProofs ----------------------------
(***************************************************************************)
(* What the nodes of a cluster agree on, and what they tell clients, for   *)
(* every cluster and every value of the bounds.                            *)
(*                                                                         *)
(* Log matching: two logs that share an entry agree on everything before   *)
(* it.  A link is an entry together with the term in front of it.  Whoever *)
(* holds an entry, in its log or in a message, holds the same link: an     *)
(* entry and its predecessor are made together by the one leader of the    *)
(* term, are sent together, and are taken over only behind an entry of     *)
(* that predecessor's term.  The exception is a restart after a snapshot   *)
(* was installed: the disk still holds what followed the old log, and puts *)
(* it behind the snapshot (node.rs:659).  The theorem is about behaviours  *)
(* in which a restart reads back what the node held.                       *)
(*                                                                         *)
(* Leader hints: a client is never sent to a node that was not elected.    *)
(***************************************************************************)
EXTENDS ServerCluster, DurabilityProofs

\* The links of a log, and of the entries an AppendEntries carries.
LinksOf(l) == {<<l[k - 1].term, l[k]>> : k \in 2..Len(l)}

PlaceTerm(m, k) == IF k = 0 THEN m.prev_log_term ELSE m.entries[k].term

SentLinks(m) ==
    IF m.kind = "AppendEntries"
    THEN {<<PlaceTerm(m, k - 1), m.entries[k]>> : k \in 1..Len(m.entries)}
    ELSE {}

Links == (UNION {LinksOf(log[n]) : n \in Server}) \cup (UNION {SentLinks(m) : m \in in_flight})

\* An entry has the same predecessor, and the same command, wherever it is.
OneLink ==
    \A x, y \in Links : x[2].index = y[2].index /\ x[2].term = y[2].term => x = y

\* Nobody holds an entry of a leader's term that its own log does not reach.
LeadersAhead ==
    \A n \in Server : role[n] = "Leader" =>
        \A x \in Links : x[2].term = current_term[n] => x[2].index <= last_index(log[n])

MatchInv == OneLink /\ LeadersAhead

\* A node that starts again reads back the log it had: its disk holds nothing
\* that a snapshot had made it forget.
AsBefore == \A n \in Server : n \in alive' \ alive => log'[n] = log[n]

RestartsAsBefore == [][AsBefore]_vars

------------------------------------------------------------------------------
(* The links of the operators on logs and messages.                         *)

\* Links are those of the logs and of the messages.
LEMMA LinkIn ==
    /\ \A x : x \in Links <=> \/ \E n \in Server : x \in LinksOf(log[n])
                              \/ \E m \in in_flight : x \in SentLinks(m)
    /\ \A x : x \in Links' <=> \/ \E n \in Server : x \in LinksOf(log'[n])
                               \/ \E m \in in_flight' : x \in SentLinks(m)
<1>1. \A x : x \in Links <=> \/ \E n \in Server : x \in LinksOf(log[n])
                             \/ \E m \in in_flight : x \in SentLinks(m)
    BY Zenon DEF Links
<1>2. \A x : x \in Links' <=> \/ \E n \in Server : x \in LinksOf(log'[n])
                              \/ \E m \in in_flight' : x \in SentLinks(m)
    BY Zenon DEF Links
<1> QED BY <1>1, <1>2, Zenon

\* A step that writes one log and sends some messages makes the links of both.
LEMMA LinksFrom ==
    ASSUME NEW n \in Server, NEW S, Links \subseteq S, NEW A,
           \A p \in Server : p # n => log'[p] = log[p],
           LinksOf(log'[n]) \subseteq S,
           in_flight' \subseteq in_flight \cup A, \A m \in A : SentLinks(m) \subseteq S
    PROVE  Links' \subseteq S
<1> SUFFICES ASSUME NEW x, x \in Links' PROVE x \in S
    OBVIOUS
<1>1. ASSUME NEW p \in Server, x \in LinksOf(log'[p]) PROVE x \in S
  <2>1. CASE p = n
      BY <1>1, <2>1
  <2>2. CASE p # n
    <3>1. x \in LinksOf(log[p])
        BY <1>1, <2>2
    <3> QED BY <3>1, LinkIn
  <2> QED BY <2>1, <2>2
<1>2. ASSUME NEW m \in in_flight', x \in SentLinks(m) PROVE x \in S
  <2>1. CASE m \in in_flight
    <3>1. x \in Links
        BY <1>2, <2>1, LinkIn
    <3> QED BY <3>1
  <2>2. CASE m \in A
      BY <1>2, <2>2
  <2> QED BY <2>1, <2>2
<1> QED BY <1>1, <1>2, LinkIn

\* The same for a step that leaves the logs alone.
LEMMA SentFrom ==
    ASSUME NEW S, Links \subseteq S, NEW A, UNCHANGED log,
           in_flight' \subseteq in_flight \cup A, \A m \in A : SentLinks(m) \subseteq S
    PROVE  Links' \subseteq S
<1> SUFFICES ASSUME NEW x, x \in Links' PROVE x \in S
    OBVIOUS
<1>1. ASSUME NEW p \in Server, x \in LinksOf(log'[p]) PROVE x \in S
  <2>1. x \in LinksOf(log[p])
      BY <1>1
  <2> QED BY <2>1, LinkIn
<1>2. ASSUME NEW m \in in_flight', x \in SentLinks(m) PROVE x \in S
  <2>1. CASE m \in in_flight
    <3>1. x \in Links
        BY <1>2, <2>1, LinkIn
    <3> QED BY <3>1
  <2>2. CASE m \in A
      BY <1>2, <2>2
  <2> QED BY <2>1, <2>2
<1> QED BY <1>1, <1>2, LinkIn

\* Only AppendEntries carries links.
LEMMA OthersUnlinked ==
    /\ \A k \in {"PreVote", "RequestVote"} : \A n, p, t, l :
           SentLinks(Vote(k, n, p, t, l)) = {}
    /\ \A k \in Refusals : \A n, p, t, g : SentLinks(VoteResponse(k, n, p, t, g)) = {}
    /\ \A n, p, t, ok, ct, ci : SentLinks(AppendResponse(n, p, t, ok, ct, ci)) = {}
    /\ \A n, p, t : SentLinks(SnapshotResponse(n, p, t)) = {}
BY DEF SentLinks, Vote, VoteResponse, AppendResponse, SnapshotResponse, Refusals

\* What replicate_to_peer sends are links of the sender's log.
LEMMA ReplicateLinks ==
    ASSUME NEW n, NEW p, NEW t, NEW l \in Log, NEW c, NEW next \in Nat
    PROVE  SentLinks(replicate_to_peer(n, p, t, l, c, next)) \subseteq LinksOf(l)
<1> DEFINE m == replicate_to_peer(n, p, t, l, c, next)
           s == next - first_index(l)
<1>1. first_index(l) \in Nat /\ Len(l) \in Nat
    BY LogType
<1>2. CASE next <= first_index(l)
    BY <1>2 DEF replicate_to_peer, SentLinks
<1>3. CASE ~(next <= first_index(l))
  <2>1. next > first_index(l) /\ s \in Nat /\ s >= 1
      BY <1>1, <1>3
  <2>2. /\ m.kind = "AppendEntries" /\ m.entries = entries_from(l, next)
        /\ m.prev_log_term = IF term_at(l, next - 1) = None THEN 0 ELSE term_at(l, next - 1)
      BY <1>3 DEF replicate_to_peer
  <2>3. /\ m.entries \in Seq(LogEntry)
        /\ \A k \in 1..Len(m.entries) : m.entries[k] = l[k + s] /\ k + s \in 2..Len(l)
      BY <2>1, <2>2, EntriesFromIs
  <2> HIDE DEF m
  <2>4. ASSUME NEW k \in 1..Len(m.entries)
        PROVE  <<PlaceTerm(m, k - 1), m.entries[k]>> \in LinksOf(l)
    <3>1. m.entries[k] = l[k + s] /\ k + s \in 2..Len(l)
        BY <2>3
    <3>2. PlaceTerm(m, k - 1) = l[(k + s) - 1].term
      <4>1. CASE k = 1
        <5>1. s < Len(l) /\ next - 1 - first_index(l) + 1 = s
            BY <1>1, <2>1, <3>1, <4>1
        <5>2. first_index(l) <= next - 1 /\ next - 1 - first_index(l) < Len(l)
            BY <1>1, <2>1, <5>1
        <5>3. term_at(l, next - 1) = l[s].term
            BY <5>1, <5>2 DEF term_at
        <5>4. l[s].term \in Nat
          <6>1. s \in 1..Len(l)
              BY <1>1, <2>1, <5>1
          <6>2. l[s] \in LogEntry
              BY <6>1, LogType
          <6> QED BY <6>2 DEF LogEntry
        <5>5. m.prev_log_term = l[s].term
            BY <2>2, <5>3, <5>4, NoneAssumption
        <5>6. (k + s) - 1 = s /\ k - 1 = 0
            BY <2>1, <4>1
        <5> QED BY <5>5, <5>6 DEF PlaceTerm
      <4>2. CASE k # 1
        <5>1. k - 1 \in 1..Len(m.entries) /\ k - 1 # 0 /\ (k - 1) + s = (k + s) - 1
            BY <2>1, <2>3, <4>2
        <5>2. m.entries[k - 1] = l[(k - 1) + s]
            BY <2>3, <5>1
        <5> QED BY <5>1, <5>2 DEF PlaceTerm
      <4> QED BY <4>1, <4>2
    <3> QED BY <3>1, <3>2 DEF LinksOf
  <2> QED BY <2>2, <2>4 DEF SentLinks, m
<1> QED BY <1>2, <1>3

\* The same for a broadcast.
LEMMA BroadcastLinks ==
    ASSUME NEW n \in Server, NEW t, NEW l \in Log, NEW c, NEW next \in [Server -> Nat]
    PROVE  \A m \in broadcast(n, t, l, c, next) : SentLinks(m) \subseteq LinksOf(l)
<1> SUFFICES ASSUME NEW p \in Peers(n)
             PROVE  SentLinks(replicate_to_peer(n, p, t, l, c, next[p])) \subseteq LinksOf(l)
    BY DEF broadcast
<1>1. next[p] \in Nat
    BY DEF Peers
<1> QED BY <1>1, ReplicateLinks

\* Appending an entry adds the link to the last term.
LEMMA AppendLinks ==
    ASSUME NEW l \in Log, NEW e \in LogEntry
    PROVE  /\ LinksOf(Append(l, e)) \subseteq LinksOf(l) \cup {<<last_term(l), e>>}
           /\ last_index(Append(l, e)) = e.index
<1> DEFINE a == Append(l, e)
<1>1. Len(l) \in Nat /\ Len(l) >= 1 /\ l \in Seq(LogEntry)
    BY LogType
<1>2. /\ Len(a) = Len(l) + 1 /\ a[Len(l) + 1] = e
      /\ \A k \in 1..Len(l) : a[k] = l[k]
    BY <1>1, AppendProperties
<1> HIDE DEF a
<1>3. ASSUME NEW k \in 2..Len(a)
      PROVE  <<a[k - 1].term, a[k]>> \in LinksOf(l) \cup {<<last_term(l), e>>}
  <2>1. CASE k = Len(l) + 1
    <3>1. k - 1 = Len(l) /\ Len(l) \in 1..Len(l)
        BY <1>1, <2>1
    <3>2. a[k - 1] = l[Len(l)] /\ a[k] = e
        BY <1>2, <2>1, <3>1
    <3> QED BY <3>2 DEF last_term
  <2>2. CASE k # Len(l) + 1
    <3>1. k \in 2..Len(l) /\ k \in 1..Len(l) /\ k - 1 \in 1..Len(l)
        BY <1>1, <1>2, <2>2
    <3>2. a[k - 1] = l[k - 1] /\ a[k] = l[k]
        BY <1>2, <3>1
    <3> QED BY <3>1, <3>2 DEF LinksOf
  <2> QED BY <2>1, <2>2
<1>4. last_index(a) = e.index
    BY <1>2 DEF last_index
<1> QED BY <1>3, <1>4 DEF LinksOf, a

\* Compaction adds none: the new base has the term of the entry it stands for.
LEMMA CompactLinks ==
    ASSUME NEW l \in Log, NEW i \in Nat, NEW t \in Nat, term_at(l, i) \in {None, t}
    PROVE  LinksOf(compact(l, i, t)) \subseteq LinksOf(l)
<1> DEFINE c == compact(l, i, t)
           s == i - first_index(l)
<1>1. first_index(l) \in Nat /\ Len(l) \in Nat /\ Len(l) >= 1
    BY LogType
<1>2. CASE i <= first_index(l)
    BY <1>2 DEF compact
<1>3. CASE ~(i <= first_index(l))
  <2>1. i > first_index(l) /\ s \in Nat /\ s >= 1
      BY <1>1, <1>3
  <2>2. /\ Len(c) = IF s + 1 < Len(l) THEN Len(l) - s ELSE 1
        /\ c[1] = sentinel(i, t)
        /\ \A k \in 2..Len(c) : c[k] = l[k + s] /\ k + s \in 2..Len(l)
      BY <2>1, CompactIs
  <2> HIDE DEF c, s
  <2>3. ASSUME NEW k \in 2..Len(c) PROVE <<c[k - 1].term, c[k]>> \in LinksOf(l)
    <3>1. c[k] = l[k + s] /\ k + s \in 2..Len(l)
        BY <2>2
    <3>2. c[k - 1].term = l[(k + s) - 1].term
      <4>1. CASE k = 2
        <5>1. first_index(l) <= i /\ i - first_index(l) < Len(l) /\ (k + s) - 1 = s + 1
            BY <1>1, <2>1, <3>1, <4>1 DEF s
        <5>2. term_at(l, i) = l[s + 1].term
            BY <5>1 DEF term_at, s
        <5>3. l[s + 1].term \in Nat
          <6>1. s + 1 \in 1..Len(l)
              BY <1>1, <2>1, <5>1 DEF s
          <6>2. l[s + 1] \in LogEntry
              BY <6>1, LogType
          <6> QED BY <6>2 DEF LogEntry
        <5>4. l[s + 1].term = t
            BY <5>2, <5>3, NoneAssumption
        <5>5. c[1].term = t
            BY <2>2 DEF sentinel
        <5> QED BY <4>1, <5>1, <5>4, <5>5
      <4>2. CASE k # 2
        <5>1. k - 1 \in 2..Len(c) /\ (k - 1) + s = (k + s) - 1
          <6>1. Len(c) \in Nat
              BY <1>1, <2>1, <2>2
          <6> QED BY <2>1, <4>2, <6>1
        <5>2. c[k - 1] = l[(k - 1) + s]
            BY <2>2, <5>1
        <5> QED BY <5>1, <5>2
      <4> QED BY <4>1, <4>2
    <3> QED BY <3>1, <3>2 DEF LinksOf
  <2> QED BY <2>3 DEF LinksOf, c
<1> QED BY <1>2, <1>3

\* Compaction does not shorten a log without a gap.
LEMMA CompactReaches ==
    ASSUME NEW l \in Log, Contiguous(l), NEW i \in Nat, NEW t \in Nat
    PROVE  last_index(compact(l, i, t)) >= last_index(l)
<1> DEFINE c == compact(l, i, t)
           s == i - first_index(l)
<1>1. /\ first_index(l) \in Nat /\ Len(l) \in Nat /\ Len(l) >= 1
      /\ last_index(l) \in Nat
    BY LogType
<1>2. last_index(l) = first_index(l) + Len(l) - 1
    BY <1>1 DEF Contiguous, last_index, first_index
<1>3. CASE i <= first_index(l)
  <2>1. c = l
      BY <1>3 DEF compact
  <2> QED BY <1>1, <2>1
<1>4. CASE ~(i <= first_index(l))
  <2>1. i > first_index(l) /\ s \in Nat /\ s >= 1
      BY <1>1, <1>4
  <2>2. /\ Len(c) = IF s + 1 < Len(l) THEN Len(l) - s ELSE 1
        /\ c[1] = sentinel(i, t)
        /\ \A k \in 2..Len(c) : c[k] = l[k + s] /\ k + s \in 2..Len(l)
      BY <2>1, CompactIs
  <2> HIDE DEF c, s
  <2>3. CASE s + 1 < Len(l)
    <3>1. Len(c) \in 2..Len(c) /\ Len(c) + s = Len(l)
        BY <1>1, <2>1, <2>2, <2>3
    <3>2. c[Len(c)] = l[Len(l)]
        BY <2>2, <3>1
    <3> QED BY <1>1, <3>2 DEF last_index, c
  <2>4. CASE ~(s + 1 < Len(l))
    <3>1. Len(c) = 1 /\ c[1].index = i
        BY <2>2, <2>4 DEF sentinel
    <3>2. last_index(c) = i
        BY <3>1 DEF last_index
    <3> QED BY <1>1, <1>2, <2>1, <2>4, <3>2 DEF c, s
  <2> QED BY <2>3, <2>4
<1> QED BY <1>3, <1>4

\* A snapshot has no links.
LEMMA InstallLinks ==
    ASSUME NEW i, NEW t
    PROVE  LinksOf(install_snapshot(i, t)) = {}
BY DEF LinksOf, install_snapshot

\* Entries that are taken over keep their links: the first of them comes
\* behind an entry of the term that was in front of it in the message.
LEMMA AcceptLinks ==
    ASSUME NEW l \in Log, NEW m \in Message, m.kind = "AppendEntries",
           term_at(l, m.prev_log_index) = m.prev_log_term,
           \A k \in 1..Len(m.entries) : m.entries[k].index = m.prev_log_index + k,
           SubSeq(m.entries, already_held(l, m.entries) + 1, Len(m.entries)) # << >>
    PROVE  LET held   == already_held(l, m.entries)
               suffix == SubSeq(m.entries, held + 1, Len(m.entries))
           IN  LinksOf(truncate_and_append(l, m.entries[1].index + held, suffix))
                   \subseteq LinksOf(l) \cup SentLinks(m)
<1> DEFINE es     == m.entries
           prev   == m.prev_log_index
           held   == already_held(l, es)
           suffix == SubSeq(es, held + 1, Len(es))
           attach == es[1].index + held
           k      == attach - first_index(l)
           a      == truncate(l, k) \o suffix
<1>1. /\ es \in Seq(LogEntry) /\ prev \in Nat /\ m.prev_log_term \in Nat
      /\ Len(es) \in Nat
    BY MessageFields
<1>2. /\ \A j \in 1..Len(es) : es[j].index = prev + j
      /\ term_at(l, prev) = m.prev_log_term /\ suffix # << >>
    OBVIOUS
<1> HIDE DEF es, prev
<1>3. term_at(l, prev) # None
    BY <1>1, <1>2, NoneAssumption
<1>4. first_index(l) \in Nat /\ Len(l) \in Nat /\ Len(l) >= 1
    BY LogType
<1>5. /\ attach \in Nat /\ attach > first_index(l)
      /\ attach - first_index(l) <= Len(l)
      /\ attach = prev + 1 + held /\ held \in 0..Len(es)
      /\ suffix \in Seq(LogEntry) /\ Len(suffix) = Len(es) - held
      /\ \A j \in 1..Len(suffix) : held + j \in 1..Len(es) /\ suffix[j] = es[held + j]
  <2>1. /\ attach \in Nat /\ attach > first_index(l)
        /\ attach - first_index(l) <= Len(l)
        /\ attach = prev + 1 + held /\ held \in 0..Len(es)
        /\ suffix \in Seq(LogEntry) /\ Len(suffix) = Len(es) - held
        /\ \A j \in 1..Len(suffix) : /\ held + j \in 1..Len(es)
                                     /\ suffix[j] = es[held + j]
                                     /\ suffix[j].index = attach + j - 1
      BY <1>1, <1>3, <1>2, AcceptPlace
  <2> QED BY <2>1
<1>6. held # 0 => term_at(l, es[held].index) = es[held].term
  <2> SUFFICES ASSUME held # 0 PROVE term_at(l, es[held].index) = es[held].term
      OBVIOUS
  <2>1. \A j \in 1..held : term_at(l, es[j].index) = es[j].term
      BY <1>1, AlreadyHeldIs
  <2> HIDE DEF held
  <2>2. held \in 1..held
      BY <1>1, <1>5
  <2> QED BY <2>1, <2>2
<1>7. truncate_and_append(l, attach, suffix) = a
    BY Zenon DEF truncate_and_append
<1> HIDE DEF held, suffix, attach
<1>8. k \in Nat /\ k >= 1 /\ k <= Len(l) /\ attach = first_index(l) + k
    BY <1>4, <1>5
<1> HIDE DEF k
<1>9. /\ Len(a) = k + Len(suffix)
      /\ \A i \in 1..k : a[i] = l[i]
      /\ \A i \in 1..Len(suffix) : a[k + i] = suffix[i]
    BY <1>5, <1>8, SpliceIs
<1> HIDE DEF a
<1>10. l[k].term = PlaceTerm(m, held)
  <2>1. held \in Nat
      BY <1>5
  <2>2. prev + held = first_index(l) + k - 1
    <3>1. attach = prev + 1 + held
        BY <1>5, Zenon
    <3>2. attach = first_index(l) + k
        BY <1>8, Zenon
    <3>3. prev \in Nat /\ k \in Nat /\ first_index(l) \in Nat
        BY <1>1, <1>4, <1>8, Zenon
    <3> HIDE DEF k
    <3> QED BY <2>1, <3>1, <3>2, <3>3
  <2>3. /\ first_index(l) <= prev + held /\ (prev + held) - first_index(l) < Len(l)
        /\ (prev + held) - first_index(l) + 1 = k
      BY <1>1, <1>4, <1>8, <2>2
  <2>4. term_at(l, prev + held) = l[k].term
      BY <2>3 DEF term_at
  <2>5. CASE held = 0
    <3>1. prev + held = prev
        BY <1>1, <2>5
    <3> QED BY <1>2, <2>4, <2>5, <3>1 DEF PlaceTerm
  <2>6. CASE held # 0
    <3>1. held \in 1..Len(es)
        BY <1>1, <1>5, <2>6
    <3>2. es[held].index = prev + held
        BY <1>2, <3>1
    <3> QED BY <1>6, <2>4, <2>6, <3>2 DEF PlaceTerm, es
  <2> QED BY <2>5, <2>6
<1>11. ASSUME NEW i \in 2..Len(a)
       PROVE  <<a[i - 1].term, a[i]>> \in LinksOf(l) \cup SentLinks(m)
  <2>1. Len(suffix) \in Nat /\ held \in Nat
      BY <1>5
  <2>2. CASE i <= k
    <3>1. i \in 1..k /\ i - 1 \in 1..k /\ i \in 2..Len(l)
        BY <1>4, <1>8, <2>2
    <3>2. a[i] = l[i] /\ a[i - 1] = l[i - 1]
        BY <1>9, <3>1
    <3> QED BY <3>1, <3>2 DEF LinksOf
  <2>3. CASE ~(i <= k)
    <3> DEFINE j == i - k
    <3>1. j \in 1..Len(suffix) /\ i = k + j
      <4>1. k \in Nat /\ Len(a) = k + Len(suffix)
          BY <1>8, <1>9
      <4> QED BY <2>1, <2>3, <4>1
    <3>2. a[i] = es[held + j] /\ held + j \in 1..Len(es)
      <4> HIDE DEF j
      <4>1. a[k + j] = suffix[j]
          BY <1>9, <3>1
      <4>2. suffix[j] = es[held + j] /\ held + j \in 1..Len(es)
          BY <1>5, <3>1
      <4> QED BY <3>1, <4>1, <4>2
    <3>3. a[i - 1].term = PlaceTerm(m, (held + j) - 1)
      <4>1. CASE j = 1
        <5>1. i - 1 = k /\ k \in 1..k /\ (held + j) - 1 = held
          <6> HIDE DEF j
          <6>1. k \in Nat /\ k >= 1
              BY <1>8
          <6> QED BY <2>1, <3>1, <4>1, <6>1
        <5>2. a[i - 1] = l[k]
            BY <1>9, <5>1
        <5> QED BY <1>10, <5>1, <5>2
      <4>2. CASE j # 1
        <5>1. /\ j - 1 \in 1..Len(suffix) /\ i - 1 = k + (j - 1)
              /\ held + (j - 1) = (held + j) - 1 /\ (held + j) - 1 # 0
          <6> HIDE DEF j
          <6>1. k \in Nat
              BY <1>8
          <6> QED BY <2>1, <3>1, <4>2, <6>1
        <5>2. a[i - 1] = suffix[j - 1] /\ suffix[j - 1] = es[held + (j - 1)]
            BY <1>5, <1>9, <5>1
        <5> QED BY <5>1, <5>2 DEF PlaceTerm, es
      <4> QED BY <4>1, <4>2
    <3> HIDE DEF j
    <3> QED BY <3>2, <3>3 DEF SentLinks, es
  <2> QED BY <2>2, <2>3
<1>12. LinksOf(a) \subseteq LinksOf(l) \cup SentLinks(m)
    BY <1>11 DEF LinksOf
<1> QED BY <1>7, <1>12 DEF held, suffix, attach, es

------------------------------------------------------------------------------
(* Who leads after a step.                                                  *)

\* The vote that makes n a leader arrives.
Elected(n, m) ==
    /\ Receives(n, m, "RequestVoteResponse") /\ counts_vote(n, m)
    /\ Cardinality(votes_received[n] \cup {m.from}) >= majority
    /\ become_leader(n, m)

\* Whoever leads has led the same term before.
NoNewLeader ==
    \A p \in Server : role'[p] = "Leader" =>
        role[p] = "Leader" /\ current_term'[p] = current_term[p]

\* step() on a message of a newer term makes no leader,
LEMMA SeenNoLeader ==
    ASSUME TypeOK, NEW n \in Server, NEW m \in Message, Current(n, m),
           role' = [role EXCEPT ![n] = role_seen(n, m)],
           current_term' = [current_term EXCEPT ![n] = m.term]
    PROVE  NoNewLeader
<1> SUFFICES ASSUME NEW p \in Server, role'[p] = "Leader"
             PROVE  role[p] = "Leader" /\ current_term'[p] = current_term[p]
    BY DEF NoNewLeader
<1>1. CASE p # n
    BY <1>1 DEF TypeOK
<1>2. CASE p = n
  <2>1. role'[n] = role_seen(n, m) /\ current_term'[n] = m.term
      BY DEF TypeOK
  <2>2. ~Newer(n, m) /\ role[n] = "Leader"
      BY <1>2, <2>1 DEF role_seen
  <2>3. m.term \in Nat /\ current_term[n] \in Nat
      BY MessageFields DEF TypeOK
  <2>4. m.term = current_term[n]
      BY <2>2, <2>3 DEF Newer, Current
  <2> QED BY <1>2, <2>1, <2>2, <2>4
<1> QED BY <1>1, <1>2

\* nor does becoming something else.
LEMMA OtherRoleNoLeader ==
    ASSUME TypeOK, NEW n \in Server, NEW r, r # "Leader",
           role' = [role EXCEPT ![n] = r],
           \A p \in Server : p # n => current_term'[p] = current_term[p]
    PROVE  NoNewLeader
BY DEF TypeOK, NoNewLeader

\* A delivered message makes a leader only if it is the deciding vote.
LEMMA DeliverLeaders ==
    ASSUME TypeOK, NEW m \in in_flight, Deliver(m.to, m)
    PROVE  NoNewLeader \/ Elected(m.to, m)
<1> DEFINE n == m.to
<1>1. m \in Message /\ n \in Server
    BY MessageFields DEF TypeOK
<1> HIDE DEF n
<1>2. CASE UNCHANGED <<role, current_term>>
    BY <1>2 DEF NoNewLeader
<1>3. CASE handle_pre_vote_response(n, m)
  <2>1. CASE start_real_election(n, m)
    <3>1. /\ role' = [role EXCEPT ![n] = "Candidate"]
          /\ current_term' = [current_term EXCEPT ![n] = current_term[n] + 1]
        BY <2>1 DEF start_real_election
    <3> QED BY <1>1, <3>1, OtherRoleNoLeader DEF TypeOK
  <2> QED BY <1>2, <1>3, <2>1 DEF handle_pre_vote_response, termVars
<1>4. CASE handle_request_vote(n, m)
    BY <1>1, <1>4, SeenNoLeader DEF handle_request_vote
<1>5. ASSUME Observe(n, m), Current(n, m) PROVE NoNewLeader
    BY <1>1, <1>5, SeenNoLeader DEF Observe
<1>6. CASE handle_request_vote_response(n, m)
  <2>1. CASE counts_vote(n, m) /\ Cardinality(votes_received[n] \cup {m.from}) >= majority
      BY <1>6, <2>1 DEF handle_request_vote_response, Elected, n
  <2>2. CASE counts_vote(n, m) /\ ~(Cardinality(votes_received[n] \cup {m.from}) >= majority)
      BY <1>2, <1>6, <2>2 DEF handle_request_vote_response, termVars
  <2>3. CASE ~counts_vote(n, m)
      BY <1>5, <1>6, <2>3 DEF handle_request_vote_response
  <2> QED BY <2>1, <2>2, <2>3
<1>7. CASE \/ handle_append_entries_missing(n, m) \/ handle_append_entries_conflict(n, m)
           \/ handle_append_entries_accept(n, m) \/ handle_install_snapshot(n, m)
  <2>1. Follow(n, m)
      BY <1>7 DEF handle_append_entries_missing, handle_append_entries_conflict,
         handle_append_entries_accept, handle_install_snapshot
  <2>2. /\ role' = [role EXCEPT ![n] = "Follower"]
        /\ current_term' = [current_term EXCEPT ![n] = m.term]
      BY <2>1 DEF Follow
  <2> QED BY <1>1, <2>2, OtherRoleNoLeader DEF TypeOK
<1>8. CASE handle_append_entries_response(n, m) \/ handle_install_snapshot_response(n, m)
    BY <1>2, <1>5, <1>8 DEF handle_append_entries_response,
       handle_install_snapshot_response, termVars
<1>9. CASE handle_pre_vote(n, m)
    BY <1>2, <1>9 DEF handle_pre_vote, termVars
<1> QED BY <1>3, <1>4, <1>6, <1>7, <1>8, <1>9 DEF Deliver, n

\* No other step makes one.
LEMMA NextLeaders ==
    ASSUME TypeOK, [Next]_vars
    PROVE  NoNewLeader \/ \E m \in in_flight : Elected(m.to, m)
<1>1. CASE UNCHANGED <<role, current_term>>
    BY <1>1 DEF NoNewLeader
<1>2. ASSUME NEW n \in Server, tick_election_timeout(n) PROVE NoNewLeader
  <2>1. role' = [role EXCEPT ![n] = "PreCandidate"] /\ UNCHANGED current_term
      BY <1>2 DEF tick_election_timeout, start_pre_vote
  <2> QED BY <2>1, OtherRoleNoLeader
<1>3. ASSUME NEW n \in Server, spawn_node(n) PROVE NoNewLeader
  <2>1. /\ role' = [role EXCEPT ![n] = "Follower"]
        /\ current_term' = [current_term EXCEPT ![n] = disk[n].current_term]
      BY <1>3 DEF spawn_node, restore
  <2> QED BY <2>1, OtherRoleNoLeader DEF TypeOK
<1>4. ASSUME NEW n \in Server,
             \/ tick_idle(n) \/ tick_leader(n) \/ compaction_pass(n) \/ crash_node(n)
             \/ \E c \in Command : propose_command(n, c)
      PROVE  UNCHANGED <<role, current_term>>
    BY <1>4 DEF tick_idle, tick_lease_lapses, tick_leader, tick_heartbeat, termVars,
       compaction_pass, compact_logs, crash_node, nodeVars, propose_command, propose
<1>5. ASSUME NEW m \in in_flight, drop_message(m) PROVE UNCHANGED <<role, current_term>>
    BY <1>5 DEF drop_message, termVars
<1>6. CASE UNCHANGED vars
    BY <1>1, <1>6 DEF vars, nodeVars, termVars
<1> QED BY <1>1, <1>2, <1>3, <1>4, <1>5, <1>6, DeliverLeaders DEF Next

\* The log of a node that goes on leading does not become shorter.
LEMMA LeaderReaches ==
    ASSUME TypeOK, DurabilityInv, [Next]_vars, NEW n \in Server,
           role[n] = "Leader", role'[n] = "Leader"
    PROVE  last_index(log'[n]) >= last_index(log[n])
<1>1. /\ log[n] \in Log /\ Contiguous(log[n]) /\ current_term[n] \in Nat
      /\ commit_index[n] \in Nat
    BY LogIsOrderly
<1>2. last_index(log[n]) \in Nat
    BY <1>1, LogType
<1>3. CASE log'[n] = log[n]
    BY <1>2, <1>3
<1>4. ASSUME NEW c \in Command, propose_command(n, c)
      PROVE  last_index(log'[n]) >= last_index(log[n])
  <2> DEFINE entry == Entry(last_index(log[n]) + 1, current_term[n], c)
  <2>1. log'[n] = Append(log[n], entry)
      BY <1>4 DEF propose_command, propose, TypeOK
  <2>2. entry \in LogEntry
    <3>1. last_index(log[n]) + 1 \in Nat /\ c \in Command \cup {Noop}
        BY <1>2
    <3> QED BY <1>1, <3>1, EntryType
  <2>3. entry.index = last_index(log[n]) + 1
      BY DEF Entry
  <2> HIDE DEF entry
  <2>4. last_index(log'[n]) = entry.index
      BY <1>1, <2>1, <2>2, AppendLinks
  <2> QED BY <1>2, <2>3, <2>4
<1>5. CASE compaction_pass(n)
  <2> DEFINE i == commit_index[n]
             t == IF term_at(log[n], i) = None THEN 0 ELSE term_at(log[n], i)
  <2>1. log'[n] = compact(log[n], i, t)
      BY <1>5 DEF compaction_pass, compact_logs, TypeOK
  <2>2. i \in Nat /\ t \in Nat
      BY <1>1, TermAtType DEF OptNat
  <2> HIDE DEF i, t
  <2> QED BY <1>1, <2>1, <2>2, CompactReaches
<1> QED BY <1>3, <1>4, <1>5, LeaderLog

------------------------------------------------------------------------------
(* The links after a step.                                                  *)

\* Timers, compaction, faults and restarts make no link.
LEMMA LocalLinks ==
    ASSUME TypeOK, DurabilityInv, AsBefore, NEW n \in Server,
           \/ tick_idle(n) \/ tick_election_timeout(n) \/ tick_leader(n)
           \/ compaction_pass(n) \/ crash_node(n) \/ spawn_node(n)
    PROVE  Links' \subseteq Links
<1>1. /\ log[n] \in Log /\ commit_index[n] \in Nat /\ current_term[n] \in Nat
      /\ next_index[n] \in [Server -> Nat]
    BY LogIsOrderly
<1>2. LinksOf(log[n]) \subseteq Links
    BY LinkIn
<1>3. CASE UNCHANGED <<log, in_flight>>
    BY <1>3 DEF Links
<1>4. CASE tick_election_timeout(n)
  <2> DEFINE A == {Vote("PreVote", n, p, current_term[n] + 1, log[n]) : p \in Peers(n)}
  <2>1. Send(n, A) /\ UNCHANGED log
      BY <1>4 DEF tick_election_timeout, start_pre_vote, logVars
  <2>2. in_flight' \subseteq in_flight \cup A
      BY <2>1, InFlight
  <2>3. \A m \in A : SentLinks(m) \subseteq Links
      BY OthersUnlinked
  <2> HIDE DEF A
  <2> QED BY <2>1, <2>2, <2>3, SentFrom
<1>5. CASE tick_leader(n)
  <2> DEFINE A == broadcast(n, current_term[n], log[n], commit_index[n], next_index[n])
  <2>1. Send(n, A) /\ UNCHANGED log
      BY <1>5 DEF tick_leader, tick_heartbeat, logVars
  <2>2. in_flight' \subseteq in_flight \cup A
      BY <2>1, InFlight
  <2>3. \A m \in A : SentLinks(m) \subseteq Links
      BY <1>1, <1>2, BroadcastLinks
  <2> HIDE DEF A
  <2> QED BY <2>1, <2>2, <2>3, SentFrom
<1>6. CASE compaction_pass(n)
  <2> DEFINE i == commit_index[n]
             t == IF term_at(log[n], i) = None THEN 0 ELSE term_at(log[n], i)
  <2>1. /\ log' = [log EXCEPT ![n] = compact(log[n], i, t)] /\ UNCHANGED in_flight
      BY <1>6 DEF compaction_pass, compact_logs
  <2>2. i \in Nat /\ t \in Nat /\ term_at(log[n], i) \in {None, t}
      BY <1>1, TermAtType DEF OptNat
  <2> HIDE DEF i, t
  <2>3. /\ log'[n] = compact(log[n], i, t)
        /\ \A p \in Server : p # n => log'[p] = log[p]
      BY <2>1 DEF TypeOK
  <2>4. LinksOf(log'[n]) \subseteq Links
      BY <1>1, <1>2, <2>2, <2>3, CompactLinks
  <2> DEFINE A == {}
  <2>5. in_flight' \subseteq in_flight \cup A /\ \A m \in A : SentLinks(m) \subseteq Links
      BY <2>1
  <2> HIDE DEF A
  <2> QED BY <2>3, <2>4, <2>5, LinksFrom
<1>7. CASE spawn_node(n)
  <2>1. /\ alive' = alive \cup {n} /\ n \notin alive /\ UNCHANGED in_flight
        /\ \E l : log' = [log EXCEPT ![n] = l]
      BY <1>7 DEF spawn_node, restore
  <2>2. log'[n] = log[n]
      BY <2>1 DEF AsBefore
  <2>3. \A p \in Server : p # n => log'[p] = log[p]
      BY <2>1 DEF TypeOK
  <2>4. LinksOf(log'[n]) \subseteq Links
      BY <1>2, <2>2
  <2> DEFINE A == {}
  <2>5. in_flight' \subseteq in_flight \cup A /\ \A m \in A : SentLinks(m) \subseteq Links
      BY <2>1
  <2> HIDE DEF A
  <2> QED BY <2>3, <2>4, <2>5, LinksFrom
<1>8. CASE tick_idle(n) \/ crash_node(n)
    BY <1>3, <1>8 DEF tick_idle, tick_lease_lapses, crash_node, nodeVars, logVars
<1> QED BY <1>4, <1>5, <1>6, <1>7, <1>8

\* Votes make none, unless they decide an election.
LEMMA VoteLinks ==
    ASSUME TypeOK, NEW n \in Server, NEW m \in Message,
           \/ handle_pre_vote(n, m) \/ handle_pre_vote_response(n, m)
           \/ handle_request_vote(n, m)
           \/ handle_request_vote_response(n, m) /\ ~Elected(n, m)
    PROVE  Links' \subseteq Links
<1>1. ASSUME UNCHANGED log, NEW t, NEW A, Handle(n, m, t, A), \A x \in A : SentLinks(x) = {}
      PROVE  Links' \subseteq Links
  <2>1. in_flight' \subseteq in_flight \cup A
      BY <1>1, InFlight
  <2>2. \A x \in A : SentLinks(x) \subseteq Links
      BY <1>1
  <2> QED BY <1>1, <2>1, <2>2, SentFrom
<1>2. ASSUME UNCHANGED log, NEW t, Handle(n, m, t, {})
      PROVE  Links' \subseteq Links
    BY <1>1, <1>2
<1>3. CASE handle_pre_vote(n, m)
  <2> DEFINE A == {VoteResponse("PreVoteResponse", n, m.from, current_term[n],
                                pre_vote_granted(n, m))}
  <2>1. Handle(n, m, current_term[n], A) /\ UNCHANGED log
      BY <1>3 DEF handle_pre_vote, logVars
  <2>2. \A x \in A : SentLinks(x) = {}
      BY OthersUnlinked DEF Refusals
  <2> HIDE DEF A
  <2> QED BY <1>1, <2>1, <2>2
<1>4. CASE handle_pre_vote_response(n, m)
  <2>1. CASE start_real_election(n, m)
    <3> DEFINE t == current_term[n] + 1
               A == {Vote("RequestVote", n, p, t, log[n]) : p \in Peers(n)}
    <3>1. Handle(n, m, t, A) /\ UNCHANGED log
        BY <2>1 DEF start_real_election, logVars
    <3>2. \A x \in A : SentLinks(x) = {}
        BY OthersUnlinked
    <3> HIDE DEF A, t
    <3> QED BY <1>1, <3>1, <3>2
  <2>2. CASE Handle(n, m, current_term[n], {}) /\ UNCHANGED logVars
      BY <1>2, <2>2 DEF logVars
  <2> QED BY <1>4, <2>1, <2>2 DEF handle_pre_vote_response
<1>5. CASE handle_request_vote(n, m)
  <2> DEFINE A == {VoteResponse("RequestVoteResponse", n, m.from, m.term,
                                vote_granted(n, m))}
  <2>1. Handle(n, m, m.term, A) /\ UNCHANGED log
      BY <1>5 DEF handle_request_vote, logVars
  <2>2. \A x \in A : SentLinks(x) = {}
      BY OthersUnlinked DEF Refusals
  <2> HIDE DEF A
  <2> QED BY <1>1, <2>1, <2>2
<1>6. CASE handle_request_vote_response(n, m) /\ ~Elected(n, m)
  <2>1. Handle(n, m, m.term, {}) /\ UNCHANGED log
      BY <1>6 DEF handle_request_vote_response, Elected, logVars
  <2> QED BY <1>2, <2>1
<1> QED BY <1>3, <1>4, <1>5, <1>6

\* Neither do AppendEntries, snapshots and their answers.
LEMMA ReplicationLinks ==
    ASSUME TypeOK, DurabilityInv, NEW n \in Server, NEW m \in Message,
           \/ handle_append_entries_missing(n, m) \/ handle_append_entries_conflict(n, m)
           \/ handle_append_entries_accept(n, m) \/ handle_append_entries_response(n, m)
           \/ handle_install_snapshot(n, m) \/ handle_install_snapshot_response(n, m)
    PROVE  Links' \subseteq Links
<1>1. /\ log[n] \in Log /\ commit_index[n] \in Nat /\ current_term[n] \in Nat
      /\ next_index[n] \in [Server -> Nat]
    BY LogIsOrderly
<1>2. LinksOf(log[n]) \subseteq Links
    BY LinkIn
<1>3. ASSUME NEW l, log' = [log EXCEPT ![n] = l], LinksOf(l) \subseteq Links, NEW t, NEW x,
             Handle(n, m, t, {x}), SentLinks(x) \subseteq Links
      PROVE  Links' \subseteq Links
  <2>1. in_flight' \subseteq in_flight \cup {x}
      BY <1>3, InFlight
  <2>2. log'[n] = l /\ \A p \in Server : p # n => log'[p] = log[p]
      BY <1>3 DEF TypeOK
  <2> QED BY <1>3, <2>1, <2>2, LinksFrom
<1>4. ASSUME UNCHANGED log, NEW t, NEW x, Handle(n, m, t, {x}), SentLinks(x) \subseteq Links
      PROVE  Links' \subseteq Links
  <2>1. in_flight' \subseteq in_flight \cup {x}
      BY <1>4, InFlight
  <2> QED BY <1>4, <2>1, SentFrom
<1>5. ASSUME UNCHANGED log, NEW t, Handle(n, m, t, {}) PROVE Links' \subseteq Links
  <2> DEFINE A == {}
  <2>1. in_flight' \subseteq in_flight \cup A /\ \A x \in A : SentLinks(x) \subseteq Links
      BY <1>5, InFlight
  <2> HIDE DEF A
  <2> QED BY <1>5, <2>1, SentFrom
<1>6. CASE handle_append_entries_missing(n, m)
  <2> DEFINE x == AppendResponse(n, m.from, m.term, FALSE, None, last_index(log[n]) + 1)
  <2>1. Handle(n, m, m.term, {x}) /\ UNCHANGED log
      BY <1>6 DEF handle_append_entries_missing, logVars
  <2>2. SentLinks(x) \subseteq Links
      BY OthersUnlinked
  <2> HIDE DEF x
  <2> QED BY <1>4, <2>1, <2>2
<1>7. CASE handle_append_entries_conflict(n, m)
  <2> DEFINE t == term_at(log[n], m.prev_log_index)
             x == AppendResponse(n, m.from, m.term, FALSE, t,
                                 first_of_run(log[n], m.prev_log_index, t))
  <2>1. Handle(n, m, m.term, {x}) /\ UNCHANGED log
      BY <1>7 DEF handle_append_entries_conflict, logVars
  <2>2. SentLinks(x) \subseteq Links
      BY OthersUnlinked
  <2> HIDE DEF x
  <2> QED BY <1>4, <2>1, <2>2
<1>8. CASE handle_append_entries_accept(n, m)
  <2> DEFINE held   == already_held(log[n], m.entries)
             suffix == SubSeq(m.entries, held + 1, Len(m.entries))
             l      == IF suffix = << >> THEN log[n]
                       ELSE truncate_and_append(log[n], m.entries[1].index + held, suffix)
             x      == AppendResponse(n, m.from, m.term, TRUE, None, None)
  <2>1. /\ Handle(n, m, m.term, {x}) /\ log' = [log EXCEPT ![n] = l]
        /\ m \in in_flight /\ m.kind = "AppendEntries"
        /\ term_at(log[n], m.prev_log_index) = m.prev_log_term
      BY <1>8 DEF handle_append_entries_accept, Receives
  <2>2. SentLinks(x) \subseteq Links
      BY OthersUnlinked
  <2>3. SentLinks(m) \subseteq Links
      BY <2>1, LinkIn
  <2>4. \A k \in 1..Len(m.entries) : m.entries[k].index = m.prev_log_index + k
      BY <2>1 DEF DurabilityInv, SentInOrder, InOrder
  <2>5. suffix # << >> => LinksOf(l) \subseteq LinksOf(log[n]) \cup SentLinks(m)
      BY <1>1, <2>1, <2>4, AcceptLinks
  <2>6. LinksOf(l) \subseteq Links
    <3> HIDE DEF suffix
    <3> QED BY <1>2, <2>3, <2>5
  <2> HIDE DEF l, x
  <2> QED BY <1>3, <2>1, <2>2, <2>6
<1>9. CASE handle_append_entries_response(n, m)
  <2> DEFINE next == backtracked_next(log[n], next_index[n][m.from], m)
             x == replicate_to_peer(n, m.from, current_term[n], log[n], commit_index[n], next)
  <2>1. /\ UNCHANGED log /\ m.kind = "AppendEntriesResponse"
        /\ Handle(n, m, m.term, {}) \/ Handle(n, m, m.term, {x})
      BY <1>9 DEF handle_append_entries_response, Receives
  <2>2. m.from \in Server /\ m.conflict_term \in OptNat /\ m.conflict_index \in OptNat
      BY <2>1, MessageFields
  <2>3. next_index[n][m.from] \in Nat
      BY <1>1, <2>2
  <2>4. next \in Nat
      BY <1>1, <2>2, <2>3, BacktrackedType
  <2> HIDE DEF next
  <2>5. SentLinks(x) \subseteq Links
      BY <1>1, <1>2, <2>4, ReplicateLinks
  <2> HIDE DEF x
  <2> QED BY <1>4, <1>5, <2>1, <2>5
<1>10. CASE handle_install_snapshot(n, m)
  <2> DEFINE x == SnapshotResponse(n, m.from, m.term)
             l == install_snapshot(m.last_included_index, m.last_included_term)
  <2>1. Handle(n, m, m.term, {x}) /\ (UNCHANGED log \/ log' = [log EXCEPT ![n] = l])
      BY <1>10 DEF handle_install_snapshot
  <2>2. SentLinks(x) \subseteq Links
      BY OthersUnlinked
  <2>3. LinksOf(l) \subseteq Links
      BY InstallLinks
  <2> HIDE DEF x, l
  <2> QED BY <1>3, <1>4, <2>1, <2>2, <2>3
<1>11. CASE handle_install_snapshot_response(n, m)
    BY <1>5, <1>11 DEF handle_install_snapshot_response
<1> QED BY <1>6, <1>7, <1>8, <1>9, <1>10, <1>11

------------------------------------------------------------------------------
(* The invariant.                                                           *)

\* A link ends in an entry, whose term somebody led.
LEMMA LinkEntry ==
    ASSUME TypeOK, DurabilityInv, NEW x \in Links
    PROVE  x[2] \in LogEntry /\ x[2].index \in Nat /\ Led(term_leaders, x[2])
<1>1. ASSUME NEW n \in Server, x \in LinksOf(log[n])
      PROVE  x[2] \in LogEntry /\ Led(term_leaders, x[2])
  <2>1. log[n] \in Log /\ AllLed(term_leaders, log[n])
      BY LogIsOrderly
  <2>2. PICK k \in 2..Len(log[n]) : x = <<log[n][k - 1].term, log[n][k]>>
      BY <1>1 DEF LinksOf
  <2>3. k \in 1..Len(log[n])
      BY <2>1, <2>2, LogType
  <2>4. log[n][k] \in LogEntry
      BY <2>1, <2>3, LogType
  <2> QED BY <2>1, <2>2, <2>4 DEF AllLed
<1>2. ASSUME NEW m \in in_flight, x \in SentLinks(m)
      PROVE  x[2] \in LogEntry /\ Led(term_leaders, x[2])
  <2>1. m.kind = "AppendEntries"
      BY <1>2 DEF SentLinks
  <2>2. m.entries \in Seq(LogEntry)
      BY <2>1, MessageFields DEF TypeOK
  <2>3. PICK k \in 1..Len(m.entries) : x = <<PlaceTerm(m, k - 1), m.entries[k]>>
      BY <1>2, <2>1 DEF SentLinks
  <2>4. m.entries[k] \in LogEntry
      BY <2>2, <2>3
  <2>5. Led(term_leaders, m.entries[k])
      BY <2>1 DEF DurabilityInv, SentInOrder, InOrder
  <2> QED BY <2>3, <2>4, <2>5
<1>3. x[2] \in LogEntry /\ Led(term_leaders, x[2])
    BY <1>1, <1>2, LinkIn
<1> QED BY <1>3 DEF LogEntry

\* A step that makes no link and no leader keeps the invariant.
LEMMA OldLinksStep ==
    ASSUME TypeOK, DurabilityInv, MatchInv, [Next]_vars, TypeOK',
           Links' \subseteq Links, NoNewLeader
    PROVE  MatchInv'
<1>1. OneLink'
  <2> SUFFICES ASSUME NEW x \in Links', NEW y \in Links',
                      x[2].index = y[2].index, x[2].term = y[2].term
               PROVE  x = y
      BY DEF OneLink
  <2> QED BY DEF MatchInv, OneLink
<1>2. LeadersAhead'
  <2> SUFFICES ASSUME NEW n \in Server, role'[n] = "Leader",
                      NEW x \in Links', x[2].term = current_term'[n]
               PROVE  x[2].index <= last_index(log'[n])
      BY DEF LeadersAhead
  <2>1. x \in Links /\ role[n] = "Leader" /\ current_term'[n] = current_term[n]
      BY DEF NoNewLeader
  <2>2. x[2].index <= last_index(log[n])
      BY <2>1 DEF MatchInv, LeadersAhead
  <2>3. last_index(log'[n]) >= last_index(log[n])
      BY <2>1, LeaderReaches
  <2>4. last_index(log[n]) \in Nat /\ last_index(log'[n]) \in Nat /\ x[2].index \in Nat
      BY <2>1, LinkEntry, LogType DEF TypeOK
  <2> QED BY <2>2, <2>3, <2>4
<1> QED BY <1>1, <1>2 DEF MatchInv

\* So does one in which the leader of a term makes a link beyond all others of
\* that term.
LEMMA NewLinkStep ==
    ASSUME TypeOK, DurabilityInv, MatchInv, [Next]_vars, TypeOK',
           ElectionSafety', LeadersAreListed', NEW n \in Server, NEW x,
           Links' \subseteq Links \cup {x},
           role'[n] = "Leader", x[2].term = current_term'[n],
           x[2].index = last_index(log'[n]),
           \A y \in Links : y[2].term = current_term'[n] =>
               y[2].index <= x[2].index /\ y[2].index # x[2].index,
           \A p \in Server : p # n /\ role'[p] = "Leader" =>
               role[p] = "Leader" /\ current_term'[p] = current_term[p]
    PROVE  MatchInv'
<1>1. OneLink'
  <2> SUFFICES ASSUME NEW y \in Links', NEW z \in Links',
                      y[2].index = z[2].index, y[2].term = z[2].term
               PROVE  y = z
      BY DEF OneLink
  <2>1. CASE y \in Links /\ z \in Links
      BY <2>1 DEF MatchInv, OneLink
  <2>2. CASE y = x /\ z \in Links
      BY <2>2
  <2>3. CASE z = x /\ y \in Links
      BY <2>3
  <2> QED BY <2>1, <2>2, <2>3
<1>2. LeadersAhead'
  <2> SUFFICES ASSUME NEW p \in Server, role'[p] = "Leader",
                      NEW y \in Links', y[2].term = current_term'[p]
               PROVE  y[2].index <= last_index(log'[p])
      BY DEF LeadersAhead
  <2>1. last_index(log[p]) \in Nat /\ last_index(log'[p]) \in Nat
      BY LogType DEF TypeOK
  <2>2. CASE p = n
    <3>1. CASE y = x
        BY <2>1, <2>2, <3>1
    <3>2. CASE y \in Links
        BY <2>2, <3>2
    <3> QED BY <3>1, <3>2
  <2>3. CASE p # n
    <3>1. role[p] = "Leader" /\ current_term'[p] = current_term[p]
        BY <2>3
    <3>2. y # x
      <4> SUFFICES ASSUME y = x PROVE FALSE
          OBVIOUS
      <4>1. <<current_term'[p], p>> \in term_leaders' /\ <<current_term'[n], n>> \in term_leaders'
          BY DEF LeadersAreListed
      <4>2. current_term'[p] = current_term'[n]
          OBVIOUS
      <4> QED BY <2>3, <4>1, <4>2 DEF ElectionSafety
    <3>3. y \in Links
        BY <3>2
    <3>4. y[2].index <= last_index(log[p])
        BY <3>1, <3>3 DEF MatchInv, LeadersAhead
    <3>5. last_index(log'[p]) >= last_index(log[p])
        BY <3>1, LeaderReaches
    <3>6. y[2].index \in Nat
        BY <3>3, LinkEntry
    <3> QED BY <2>1, <3>4, <3>5, <3>6
  <2> QED BY <2>2, <2>3
<1> QED BY <1>1, <1>2 DEF MatchInv

\* propose on a leader,
LEMMA ProposeLinks ==
    ASSUME TypeOK, DurabilityInv, MatchInv, [Next]_vars, TypeOK',
           ElectionSafety', LeadersAreListed', NEW n \in Server, NEW c \in Command,
           propose_command(n, c)
    PROVE  MatchInv'
<1> DEFINE e == Entry(last_index(log[n]) + 1, current_term[n], c)
           l == Append(log[n], e)
           x == <<last_term(log[n]), e>>
           A == broadcast(n, current_term[n], l, commit_index[n], next_index[n])
<1>1. /\ log[n] \in Log /\ commit_index[n] \in Nat /\ current_term[n] \in Nat
      /\ next_index[n] \in [Server -> Nat]
    BY LogIsOrderly
<1>2. last_index(log[n]) \in Nat
    BY <1>1, LogType
<1>3. e \in LogEntry /\ e.index = last_index(log[n]) + 1 /\ e.term = current_term[n]
  <2>1. e \in LogEntry
    <3>1. last_index(log[n]) + 1 \in Nat /\ c \in Command \cup {Noop}
        BY <1>2
    <3> QED BY <1>1, <3>1, EntryType
  <2> QED BY <2>1 DEF Entry
<1>4. /\ role[n] = "Leader" /\ log' = [log EXCEPT ![n] = l] /\ Send(n, A)
      /\ UNCHANGED <<role, current_term>>
    BY DEF propose_command, propose, termVars
<1> HIDE DEF e
<1>5. l \in Log /\ LinksOf(l) \subseteq LinksOf(log[n]) \cup {x} /\ last_index(l) = e.index
  <2>1. log'[n] \in Log /\ log'[n] = l
      BY <1>4 DEF TypeOK
  <2> QED BY <1>1, <1>3, <2>1, AppendLinks
<1> HIDE DEF l
<1>6. in_flight' \subseteq in_flight \cup A
    BY <1>4, InFlight
<1>7. \A m \in A : SentLinks(m) \subseteq LinksOf(l)
    BY <1>1, <1>5, BroadcastLinks
<1> HIDE DEF A
<1>8. log'[n] = l /\ \A p \in Server : p # n => log'[p] = log[p]
    BY <1>4 DEF TypeOK
<1>9. LinksOf(log[n]) \subseteq Links
    BY LinkIn
<1>10. x[2] = e
    OBVIOUS
<1> HIDE DEF x
<1>11. Links' \subseteq Links \cup {x}
  <2> DEFINE S == Links \cup {x}
  <2>1. Links \subseteq S /\ LinksOf(l) \subseteq S
      BY <1>5, <1>9
  <2>2. LinksOf(log'[n]) \subseteq S /\ \A m \in A : SentLinks(m) \subseteq S
      BY <1>7, <1>8, <2>1
  <2> HIDE DEF S
  <2>3. Links' \subseteq S
      BY <1>6, <1>8, <2>1, <2>2, LinksFrom
  <2> QED BY <2>3 DEF S
<1>12. ASSUME NEW y \in Links, y[2].term = current_term'[n]
       PROVE  y[2].index <= x[2].index /\ y[2].index # x[2].index
  <2>1. y[2].index <= last_index(log[n]) /\ y[2].index \in Nat
      BY <1>4, <1>12, LinkEntry DEF MatchInv, LeadersAhead
  <2> QED BY <1>2, <1>3, <1>10, <2>1
<1>13. /\ x[2].term = current_term'[n] /\ x[2].index = last_index(log'[n])
       /\ role'[n] = "Leader"
    BY <1>3, <1>4, <1>5, <1>8, <1>10
<1>14. \A p \in Server : p # n /\ role'[p] = "Leader" =>
           role[p] = "Leader" /\ current_term'[p] = current_term[p]
    BY <1>4
<1> QED BY <1>11, <1>12, <1>13, <1>14, NewLinkStep

\* and become_leader: nobody holds an entry of the new term yet.
LEMMA ElectedLinks ==
    ASSUME TypeOK, ElectionInv, DurabilityInv, MatchInv, [Next]_vars, TypeOK',
           ElectionSafety', LeadersAreListed', NEW m \in in_flight, Elected(m.to, m)
    PROVE  MatchInv'
<1> DEFINE n == m.to
           e == Entry(last_index(log[n]) + 1, current_term[n], Noop)
           l == Append(log[n], e)
           x == <<last_term(log[n]), e>>
           next == [p \in Server |-> last_index(log[n]) + 1]
           A == broadcast(n, current_term[n], l, commit_index[n], next)
<1>1. m \in Message /\ n \in Server /\ Elected(n, m)
    BY MessageFields DEF TypeOK
<1> HIDE DEF n
<1>2. /\ log[n] \in Log /\ commit_index[n] \in Nat /\ current_term[n] \in Nat
    BY <1>1, LogIsOrderly
<1>3. last_index(log[n]) \in Nat
    BY <1>2, LogType
<1>4. e \in LogEntry /\ e.index = last_index(log[n]) + 1 /\ e.term = current_term[n]
    BY <1>2, <1>3 DEF Entry, LogEntry
<1>5. /\ role' = [role EXCEPT ![n] = "Leader"] /\ log' = [log EXCEPT ![n] = l]
      /\ Handle(n, m, m.term, A) /\ UNCHANGED current_term
    BY <1>1 DEF Elected, become_leader
<1>6. \A q \in Server : <<current_term[n], q>> \notin term_leaders
  <2> DEFINE Q == votes_received[n] \cup {m.from}
  <2>1. Q \in SUBSET Server /\ ElectedBy(Q, current_term[n], n)
      BY <1>1, CountedElect DEF Elected
  <2>2. role[n] = "Candidate"
      BY <1>1 DEF Elected, counts_vote
  <2> HIDE DEF Q
  <2> QED BY <1>1, <2>1, <2>2, NobodyLed DEF DurabilityInv
<1> HIDE DEF e
<1>7. l \in Log /\ LinksOf(l) \subseteq LinksOf(log[n]) \cup {x} /\ last_index(l) = e.index
  <2>1. log'[n] \in Log /\ log'[n] = l
      BY <1>1, <1>5 DEF TypeOK
  <2> QED BY <1>2, <1>4, <2>1, AppendLinks
<1> HIDE DEF l
<1>8. in_flight' \subseteq in_flight \cup A
    BY <1>5, InFlight
<1>9. \A z \in A : SentLinks(z) \subseteq LinksOf(l)
  <2>1. next \in [Server -> Nat]
      BY <1>3
  <2> HIDE DEF next
  <2> QED BY <1>1, <1>7, <2>1, BroadcastLinks
<1> HIDE DEF A
<1>10. log'[n] = l /\ \A p \in Server : p # n => log'[p] = log[p]
    BY <1>1, <1>5 DEF TypeOK
<1>11. LinksOf(log[n]) \subseteq Links
    BY <1>1, LinkIn
<1>12. x[2] = e
    OBVIOUS
<1> HIDE DEF x
<1>13. Links' \subseteq Links \cup {x}
  <2> DEFINE S == Links \cup {x}
  <2>1. Links \subseteq S /\ LinksOf(l) \subseteq S
      BY <1>7, <1>11
  <2>2. LinksOf(log'[n]) \subseteq S /\ \A z \in A : SentLinks(z) \subseteq S
      BY <1>9, <1>10, <2>1
  <2> HIDE DEF S
  <2>3. Links' \subseteq S
      BY <1>1, <1>8, <1>10, <2>1, <2>2, LinksFrom
  <2> QED BY <2>3 DEF S
<1>14. ASSUME NEW y \in Links, y[2].term = current_term'[n]
       PROVE  FALSE
  <2>1. Led(term_leaders, y[2])
      BY LinkEntry
  <2> QED BY <1>5, <1>6, <1>14, <2>1 DEF Led
<1>15. /\ x[2].term = current_term'[n] /\ x[2].index = last_index(log'[n])
       /\ role'[n] = "Leader"
    BY <1>1, <1>4, <1>5, <1>7, <1>10, <1>12 DEF TypeOK
<1>16. \A p \in Server : p # n /\ role'[p] = "Leader" =>
           role[p] = "Leader" /\ current_term'[p] = current_term[p]
    BY <1>5 DEF TypeOK
<1> QED BY <1>1, <1>13, <1>14, <1>15, <1>16, NewLinkStep

\* The logs of an empty cluster have no links.
LEMMA MatchInit == Init => MatchInv
<1> SUFFICES ASSUME Init PROVE MatchInv
    OBVIOUS
<1>1. \A n \in Server : log[n] = new_log /\ role[n] = "Follower"
    BY DEF Init
<1>2. LinksOf(new_log) = {}
    BY DEF LinksOf, new_log
<1>3. in_flight = {}
    BY DEF Init
<1>4. \A x : x \notin Links
    BY <1>1, <1>2, <1>3, LinkIn
<1> QED BY <1>4 DEF MatchInv, OneLink, LeadersAhead

\* Every step of the cluster keeps the invariant, a restart as long as the
\* node reads back the log it had.
LEMMA MatchStep ==
    ASSUME TypeOK, ElectionInv, DurabilityInv, MatchInv, [Next]_vars, AsBefore
    PROVE  MatchInv'
<1>1. TypeOK'
    BY NextType
<1>2. ElectionSafety'
  <2>1. ElectionInv'
      BY ElectionStep
  <2>2. TypeOK /\ ElectionInv => ElectionSafety
      BY InvImpliesSafety
  <2>3. (TypeOK /\ ElectionInv => ElectionSafety)'
      BY InvImpliesSafety, PTL
  <2> QED BY <1>1, <2>1, <2>3
<1>3. LeadersAreListed'
    BY DurabilityStep DEF DurabilityInv
<1>4. CASE \E m \in in_flight : Elected(m.to, m)
    BY <1>1, <1>2, <1>3, <1>4, ElectedLinks
<1>5. CASE ~\E m \in in_flight : Elected(m.to, m)
  <2>1. NoNewLeader
      BY <1>5, NextLeaders
  <2>2. ASSUME Links' \subseteq Links PROVE MatchInv'
      BY <1>1, <2>1, <2>2, OldLinksStep
  <2>3. ASSUME NEW m \in in_flight, Deliver(m.to, m) PROVE MatchInv'
    <3> DEFINE n == m.to
    <3>1. m \in Message /\ n \in Server /\ ~Elected(n, m)
        BY <1>5, MessageFields DEF TypeOK
    <3> HIDE DEF n
    <3>2. Links' \subseteq Links
        BY <2>3, <3>1, VoteLinks, ReplicationLinks DEF Deliver, n
    <3> QED BY <2>2, <3>2
  <2>4. ASSUME NEW n \in Server, NEW c \in Command, propose_command(n, c) PROVE MatchInv'
      BY <1>1, <1>2, <1>3, <2>4, ProposeLinks
  <2>5. ASSUME NEW n \in Server,
               \/ tick_idle(n) \/ tick_election_timeout(n) \/ tick_leader(n)
               \/ compaction_pass(n) \/ crash_node(n) \/ spawn_node(n)
        PROVE  MatchInv'
      BY <2>2, <2>5, LocalLinks
  <2>6. ASSUME NEW m \in in_flight, drop_message(m) PROVE MatchInv'
    <3> DEFINE A == {}
    <3>1. /\ in_flight' \subseteq in_flight \cup A /\ UNCHANGED log
          /\ \A x \in A : SentLinks(x) \subseteq Links
        BY <2>6 DEF drop_message, logVars
    <3> HIDE DEF A
    <3>2. Links' \subseteq Links
        BY <3>1, SentFrom
    <3> QED BY <2>2, <3>2
  <2>7. CASE UNCHANGED vars
    <3>1. Links' = Links
        BY <2>7 DEF vars, nodeVars, logVars, Links
    <3> QED BY <2>2, <3>1
  <2> QED BY <2>3, <2>4, <2>5, <2>6, <2>7 DEF Next
<1> QED BY <1>4, <1>5

------------------------------------------------------------------------------
(* Log matching.                                                            *)

\* The entry of a log at an index behind its base, and its link.
LEMMA LinkAt ==
    ASSUME TypeOK, DurabilityInv, NEW n \in Server, NEW i \in Nat,
           i > first_index(log[n]), i <= last_index(log[n])
    PROVE  LET k == i - first_index(log[n])
           IN  /\ <<log[n][k].term, log[n][k + 1]>> \in Links
               /\ log[n][k + 1].index = i
<1> DEFINE l == log[n]
           k == i - first_index(l)
<1>1. l \in Log /\ Contiguous(l)
    BY LogIsOrderly
<1>2. /\ first_index(l) \in Nat /\ Len(l) \in Nat /\ Len(l) >= 1
      /\ last_index(l) \in Nat
    BY <1>1, LogType
<1>3. last_index(l) = first_index(l) + Len(l) - 1
  <2> HIDE DEF l
  <2>1. Len(l) \in 1..Len(l)
      BY <1>2
  <2>2. l[Len(l)].index = l[1].index + Len(l) - 1
      BY <1>1, <2>1 DEF Contiguous
  <2> QED BY <2>2 DEF last_index, first_index
<1>4. k + 1 \in 2..Len(l) /\ k + 1 \in 1..Len(l) /\ (k + 1) - 1 = k
    BY <1>2, <1>3
<1>5. l[k + 1].index = l[1].index + (k + 1) - 1
    BY <1>1, <1>4 DEF Contiguous
<1>6. l[k + 1].index = i
    BY <1>2, <1>5 DEF first_index
<1> HIDE DEF k
<1>7. <<l[k].term, l[k + 1]>> \in LinksOf(l)
    BY <1>4 DEF LinksOf
<1>8. <<l[k].term, l[k + 1]>> \in Links
    BY <1>7, LinkIn
<1> QED BY <1>6, <1>8 DEF k

\* Equal links, from the shared entry down, make equal logs.
LEMMA InvImpliesMatching ==
    ASSUME TypeOK, DurabilityInv, MatchInv
    PROVE  LogMatching
<1> DEFINE at(q, i) == log[q][i - first_index(log[q]) + 1]
           base(n, p) == Max2(first_index(log[n]), first_index(log[p]))
<1> SUFFICES ASSUME NEW n \in Server, NEW p \in Server,
                    NEW i \in base(n, p)+1 .. Min2(last_index(log[n]), last_index(log[p])),
                    at(n, i).term = at(p, i).term
             PROVE  \A j \in base(n, p)+1 .. i : at(n, j) = at(p, j)
    BY Zenon DEF LogMatching
<1>1. /\ first_index(log[n]) \in Nat /\ first_index(log[p]) \in Nat
      /\ last_index(log[n]) \in Nat /\ last_index(log[p]) \in Nat
    BY LogType DEF TypeOK
<1> DEFINE b == base(n, p)
<1>2. /\ b \in Nat /\ b >= first_index(log[n]) /\ b >= first_index(log[p])
      /\ i \in Nat /\ i > b /\ i <= last_index(log[n]) /\ i <= last_index(log[p])
    BY <1>1 DEF Max2, Min2
<1> HIDE DEF b
<1>3. ASSUME NEW q \in {n, p}, NEW j \in Nat, j > b, j <= i
      PROVE  /\ <<log[q][j - first_index(log[q])].term, at(q, j)>> \in Links
             /\ at(q, j).index = j
  <2>1. q \in Server /\ j > first_index(log[q]) /\ j <= last_index(log[q])
      BY <1>1, <1>2, <1>3
  <2> QED BY <2>1, LinkAt
<1>4. ASSUME NEW j \in Nat, j > b, j <= i, at(n, j).term = at(p, j).term
      PROVE  /\ at(n, j) = at(p, j)
             /\ log[n][j - first_index(log[n])].term = log[p][j - first_index(log[p])].term
  <2> DEFINE x == <<log[n][j - first_index(log[n])].term, at(n, j)>>
             y == <<log[p][j - first_index(log[p])].term, at(p, j)>>
  <2>1. x \in Links /\ y \in Links /\ x[2].index = y[2].index /\ x[2].term = y[2].term
      BY <1>3, <1>4
  <2>2. x = y
    <3> HIDE DEF x, y
    <3> QED BY <2>1 DEF MatchInv, OneLink
  <2> QED BY <2>2
<1> DEFINE D == {j \in b+1 .. i : at(n, j) # at(p, j)}
<1>5. CASE D = {}
    BY <1>5 DEF b
<1>6. CASE D # {}
  <2> DEFINE k == Max(D)
  <2>1. D \subseteq Nat /\ \A j \in D : j <= i
      BY <1>2
  <2>2. k \in D /\ \A j \in D : j <= k
    <3> HIDE DEF D
    <3> QED BY <1>2, <1>6, <2>1, MaxIn
  <2> HIDE DEF k
  <2>3. k \in Nat /\ k > b /\ k <= i /\ at(n, k) # at(p, k)
      BY <1>2, <2>2
  <2>4. CASE k = i
      BY <1>2, <1>4, <2>3, <2>4
  <2>5. CASE k # i
    <3>1. k + 1 \in Nat /\ k + 1 > b /\ k + 1 <= i /\ k + 1 \in b+1 .. i /\ ~(k + 1 <= k)
        BY <1>2, <2>3, <2>5
    <3>2. at(n, k + 1) = at(p, k + 1)
        BY <2>2, <3>1
    <3>3. log[n][(k + 1) - first_index(log[n])].term = log[p][(k + 1) - first_index(log[p])].term
        BY <1>4, <3>1, <3>2
    <3>4. /\ (k + 1) - first_index(log[n]) = k - first_index(log[n]) + 1
          /\ (k + 1) - first_index(log[p]) = k - first_index(log[p]) + 1
        BY <1>1, <2>3
    <3>5. at(n, k).term = at(p, k).term
        BY <3>3, <3>4
    <3> QED BY <1>4, <2>3, <3>5
  <2> QED BY <2>4, <2>5
<1> QED BY <1>5, <1>6

\* README.md:45: when two logs hold an entry of the same index and term, they
\* agree on everything before it that both retain.  Messages may be lost, late,
\* repeated and out of order, nodes crash, logs are compacted and snapshots
\* installed; but a node that has installed one must not find on its disk,
\* after a crash, the entries the snapshot made it forget.
THEOREM LogsMatch == Spec /\ RestartsAsBefore => []LogMatching
<1>1. TypeOK /\ ElectionInv /\ DurabilityInv /\ MatchInv /\ [Next]_vars /\ [AsBefore]_vars
          => MatchInv'
  <2>1. CASE AsBefore
      BY <2>1, MatchStep
  <2>2. CASE UNCHANGED vars
    <3>1. AsBefore
        BY <2>2 DEF vars, simVars, AsBefore
    <3> QED BY <3>1, MatchStep
  <2> QED BY <2>1, <2>2
<1>2. TypeOK /\ DurabilityInv /\ MatchInv => LogMatching
    BY InvImpliesMatching
<1> QED BY <1>1, <1>2, MatchInit, DurabilityAlways, PTL DEF Spec, RestartsAsBefore

------------------------------------------------------------------------------
(* Clusters that never compact.  raft-server has no call of compact_logs: its *)
(* logs start at index 0, no snapshot is ever sent, and the disk is the log. *)

\* A step in which no node compacts its log.
NoCompaction == \A n \in Server : ~compaction_pass(n)

\* No step of the behaviour compacts.
NeverCompacts == [][NoCompaction]_vars

\* What is left of the steps of the nodes.
Uncompacted ==
    \/ \E n \in Server : \/ tick_idle(n) \/ tick_election_timeout(n) \/ tick_leader(n)
                         \/ crash_node(n) \/ spawn_node(n)
                         \/ \E c \in Command : propose_command(n, c)
    \/ \E m \in in_flight : Deliver(m.to, m) \/ drop_message(m)

LEMMA UncompactedIs ==
    /\ [Next]_vars /\ [NoCompaction]_vars => [Uncompacted]_vars
    /\ [Uncompacted]_vars => [Next]_vars
BY DEF Next, NoCompaction, Uncompacted

\* The disk is as long as the log, both start at 0, and no snapshot is under way.
WholeInv ==
    /\ \A n \in Server : /\ first_index(log[n]) = 0
                         /\ Len(log[n]) = Len(disk[n].log_entries)
                         /\ \A p \in Server : next_index[n][p] >= 1
    /\ \A m \in in_flight : m.kind # "InstallSnapshot"

\* What a step of node n that keeps the logs whole looks like.
KeepsWhole(n) ==
    /\ \A p \in Server : p # n => /\ log'[p] = log[p] /\ disk'[p] = disk[p]
                                  /\ next_index'[p] = next_index[p]
    /\ first_index(log'[n]) = 0
    /\ Len(log'[n]) = Len(disk'[n].log_entries)
    /\ \A p \in Server : next_index'[n][p] >= 1
    /\ \A x \in in_flight' : x \in in_flight \/ x.kind # "InstallSnapshot"

\* What one node's step keeps whole there, it keeps whole everywhere.
LEMMA WholeStays ==
    ASSUME WholeInv, NEW n \in Server, KeepsWhole(n)
    PROVE  WholeInv'
<1>1. ASSUME NEW p \in Server
      PROVE  /\ first_index(log'[p]) = 0
             /\ Len(log'[p]) = Len(disk'[p].log_entries)
             /\ \A q \in Server : next_index'[p][q] >= 1
  <2>1. CASE p = n
      BY <2>1 DEF KeepsWhole
  <2>2. CASE p # n
      BY <2>2 DEF KeepsWhole, WholeInv
  <2> QED BY <2>1, <2>2
<1>2. \A x \in in_flight' : x.kind # "InstallSnapshot"
    BY DEF KeepsWhole, WholeInv
<1> QED BY <1>1, <1>2 DEF WholeInv

\* A step that leaves the logs alone, in memory and on disk.
LEMMA SameWhole ==
    ASSUME TypeOK, WholeInv, NEW n \in Server, UNCHANGED log, NEW d,
           disk' = [disk EXCEPT ![n] = d], d.log_entries = disk[n].log_entries,
           \A p \in Server : p # n => next_index'[p] = next_index[p],
           \A p \in Server : next_index'[n][p] >= 1,
           \A x \in in_flight' : x \in in_flight \/ x.kind # "InstallSnapshot"
    PROVE  KeepsWhole(n)
<1>1. disk'[n] = d /\ \A p \in Server : p # n => disk'[p] = disk[p]
    BY DEF TypeOK
<1> QED BY <1>1 DEF KeepsWhole, WholeInv

\* No snapshot is sent from a log that starts at 0,
LEMMA ReplicateKind ==
    ASSUME NEW n, NEW p, NEW t, NEW l, first_index(l) = 0, NEW c, NEW next \in Nat,
           next >= 1
    PROVE  replicate_to_peer(n, p, t, l, c, next).kind # "InstallSnapshot"
<1>1. ~(next <= first_index(l))
    OBVIOUS
<1> QED BY <1>1 DEF replicate_to_peer

\* nor in a broadcast,
LEMMA BroadcastKind ==
    ASSUME NEW n \in Server, NEW t, NEW l, first_index(l) = 0, NEW c,
           NEW next \in [Server -> Nat], \A p \in Server : next[p] >= 1
    PROVE  \A x \in broadcast(n, t, l, c, next) : x.kind # "InstallSnapshot"
<1> SUFFICES ASSUME NEW p \in Peers(n)
             PROVE  replicate_to_peer(n, p, t, l, c, next[p]).kind # "InstallSnapshot"
    BY DEF broadcast
<1>1. next[p] \in Nat /\ next[p] >= 1
    BY DEF Peers
<1> QED BY <1>1, ReplicateKind

\* nor as any other message.
LEMMA OtherMessageKinds ==
    /\ \A k \in {"PreVote", "RequestVote"} : \A n, p, t, l :
           Vote(k, n, p, t, l).kind # "InstallSnapshot"
    /\ \A k \in Refusals : \A n, p, t, g :
           VoteResponse(k, n, p, t, g).kind # "InstallSnapshot"
    /\ \A n, p, t, ok, ct, ci :
           AppendResponse(n, p, t, ok, ct, ci).kind # "InstallSnapshot"
    /\ \A n, p, t : SnapshotResponse(n, p, t).kind # "InstallSnapshot"
BY DEF Vote, VoteResponse, AppendResponse, SnapshotResponse, Refusals

\* Timers, proposals, crashes and restarts keep the logs whole.
LEMMA LocalWhole ==
    ASSUME TypeOK, TypeOK', DurabilityInv, DurabilityInv', WholeInv, NEW n \in Server,
           \/ tick_idle(n) \/ tick_election_timeout(n) \/ tick_leader(n)
           \/ crash_node(n) \/ spawn_node(n) \/ \E c \in Command : propose_command(n, c)
    PROVE  KeepsWhole(n) /\ (spawn_node(n) => log'[n] = log[n])
<1>1. /\ log[n] \in Log /\ commit_index[n] \in Nat /\ current_term[n] \in Nat
      /\ next_index[n] \in [Server -> Nat] /\ disk[n] \in Disk
      /\ Mirrors(log[n], disk[n], commit_index[n], role[n])
    BY LogIsOrderly
<1>2. /\ first_index(log[n]) = 0 /\ Len(log[n]) = Len(disk[n].log_entries)
      /\ \A p \in Server : next_index[n][p] >= 1
    BY DEF WholeInv
<1>3. ASSUME UNCHANGED <<log, disk, next_index>>,
             \A x \in in_flight' : x \in in_flight \/ x.kind # "InstallSnapshot"
      PROVE  KeepsWhole(n)
    BY <1>2, <1>3 DEF KeepsWhole
<1>4. log[n] = disk[n].log_entries
  <2>1. /\ disk[n].log_entries \in Seq(LogEntry) /\ log[n] \in Seq(LogEntry)
      BY <1>1, DiskType, LogType
  <2>2. \A k \in 1..Len(log[n]) : log[n][k] = disk[n].log_entries[k]
      BY <1>1 DEF Mirrors
  <2> QED BY <1>2, <2>1, <2>2, SeqEqual
<1>5. CASE tick_election_timeout(n)
  <2> DEFINE A == {Vote("PreVote", n, p, current_term[n] + 1, log[n]) : p \in Peers(n)}
  <2>1. Send(n, A) /\ UNCHANGED <<log, disk, next_index>>
      BY <1>5 DEF tick_election_timeout, start_pre_vote, logVars, leaderVars
  <2>2. in_flight' \subseteq in_flight \cup A
      BY <2>1, InFlight
  <2>3. \A x \in A : x.kind # "InstallSnapshot"
      BY OtherMessageKinds
  <2> QED BY <1>3, <2>1, <2>2, <2>3
<1>6. CASE tick_leader(n)
  <2> DEFINE A == broadcast(n, current_term[n], log[n], commit_index[n], next_index[n])
  <2>1. Send(n, A) /\ UNCHANGED <<log, disk, next_index>>
      BY <1>6 DEF tick_leader, tick_heartbeat, logVars, leaderVars
  <2>2. in_flight' \subseteq in_flight \cup A
      BY <2>1, InFlight
  <2>3. \A x \in A : x.kind # "InstallSnapshot"
      BY <1>1, <1>2, BroadcastKind
  <2> QED BY <1>3, <2>1, <2>2, <2>3
<1>7. CASE tick_idle(n) \/ crash_node(n)
    BY <1>3, <1>7 DEF tick_idle, tick_lease_lapses, crash_node, nodeVars, logVars,
       leaderVars
<1>8. CASE spawn_node(n)
  <2> DEFINE d == disk[n]
             l == restore_log(BaseOf(d), Tail(d.log_entries))
  <2>1. /\ log' = [log EXCEPT ![n] = l] /\ UNCHANGED <<disk, in_flight>>
        /\ next_index' = [next_index EXCEPT ![n] = [p \in Server |-> 1]]
      BY <1>8 DEF spawn_node, restore, BaseOf
  <2>2. l = log[n]
      BY <1>1, <1>4, MirrorsRestore
  <2> HIDE DEF l
  <2>3. /\ log'[n] = log[n] /\ \A p \in Server : log'[p] = log[p]
        /\ \A p \in Server : next_index'[n][p] >= 1
        /\ \A p \in Server : p # n => next_index'[p] = next_index[p]
      BY <2>1, <2>2 DEF TypeOK
  <2> QED BY <1>2, <2>1, <2>3 DEF KeepsWhole
<1>9. ASSUME NEW c \in Command, propose_command(n, c) PROVE KeepsWhole(n)
  <2> DEFINE e == Entry(last_index(log[n]) + 1, current_term[n], c)
             l == Append(log[n], e)
             d == append_entries(disk[n], << e >>)
             A == broadcast(n, current_term[n], l, commit_index[n], next_index[n])
  <2>1. /\ role[n] = "Leader" /\ log' = [log EXCEPT ![n] = l] /\ Send(n, A)
        /\ disk' = [disk EXCEPT ![n] = d] /\ UNCHANGED <<role, next_index>>
      BY <1>9 DEF propose_command, propose, termVars, leaderVars
  <2>2. e \in LogEntry
    <3>1. last_index(log[n]) + 1 \in Nat
        BY <1>1, LogType
    <3> QED BY <1>1, <3>1, EntryType
  <2> HIDE DEF e, d
  <2>3. /\ log'[n] = l
        /\ \A p \in Server : p # n => log'[p] = log[p] /\ disk'[p] = disk[p]
      BY <2>1 DEF TypeOK
  <2>4. first_index(l) = 0
      BY <1>1, <1>2, <2>2, AppendKeeps
  <2>5. Len(log'[n]) = Len(disk'[n].log_entries)
      BY <2>1 DEF DurabilityInv, DiskMirrorsLog, Mirrors
  <2> HIDE DEF l
  <2>6. in_flight' \subseteq in_flight \cup A
      BY <2>1, InFlight
  <2>7. \A x \in A : x.kind # "InstallSnapshot"
      BY <1>1, <1>2, <2>4, BroadcastKind
  <2> QED BY <1>2, <2>1, <2>3, <2>4, <2>5, <2>6, <2>7 DEF KeepsWhole
<1>10. CASE ~spawn_node(n)
    BY <1>5, <1>6, <1>7, <1>9, <1>10
<1> QED BY <1>8, <1>10

\* Votes keep them whole: of the entries, only a new leader's no-op is written.
LEMMA VoteWhole ==
    ASSUME TypeOK, TypeOK', DurabilityInv, DurabilityInv', WholeInv, NEW n \in Server,
           NEW m \in Message,
           \/ handle_pre_vote(n, m) \/ handle_pre_vote_response(n, m)
           \/ handle_request_vote(n, m) \/ handle_request_vote_response(n, m)
    PROVE  KeepsWhole(n)
<1>1. /\ log[n] \in Log /\ commit_index[n] \in Nat /\ current_term[n] \in Nat
      /\ next_index[n] \in [Server -> Nat] /\ disk[n] \in Disk
    BY LogIsOrderly
<1>2. /\ first_index(log[n]) = 0 /\ Len(log[n]) = Len(disk[n].log_entries)
      /\ \A p \in Server : next_index[n][p] >= 1
    BY DEF WholeInv
<1>3. ASSUME NEW d, disk' = [disk EXCEPT ![n] = d], d.log_entries = disk[n].log_entries,
             UNCHANGED <<log, next_index>>, NEW t, NEW A, Handle(n, m, t, A),
             \A x \in A : x.kind # "InstallSnapshot"
      PROVE  KeepsWhole(n)
  <2>1. in_flight' \subseteq in_flight \cup A
      BY <1>3, InFlight
  <2>2. \A x \in in_flight' : x \in in_flight \/ x.kind # "InstallSnapshot"
      BY <1>3, <2>1
  <2> QED BY <1>2, <1>3, <2>2, SameWhole
<1>4. ASSUME UNCHANGED <<log, disk, next_index>>, NEW t, NEW A, Handle(n, m, t, A),
             \A x \in A : x.kind # "InstallSnapshot"
      PROVE  KeepsWhole(n)
  <2>1. in_flight' \subseteq in_flight \cup A
      BY <1>4, InFlight
  <2> QED BY <1>2, <1>4, <2>1 DEF KeepsWhole
<1>5. hard_state_seen(n, m).log_entries = disk[n].log_entries
    BY SeenStore
<1>6. CASE handle_pre_vote(n, m)
  <2> DEFINE A == {VoteResponse("PreVoteResponse", n, m.from, current_term[n],
                                pre_vote_granted(n, m))}
  <2>1. Handle(n, m, current_term[n], A) /\ UNCHANGED <<log, disk, next_index>>
      BY <1>6 DEF handle_pre_vote, logVars, leaderVars
  <2>2. \A x \in A : x.kind # "InstallSnapshot"
      BY OtherMessageKinds DEF Refusals
  <2> HIDE DEF A
  <2> QED BY <1>4, <2>1, <2>2
<1>7. CASE handle_pre_vote_response(n, m)
  <2>1. CASE start_real_election(n, m)
    <3> DEFINE t == current_term[n] + 1
               A == {Vote("RequestVote", n, p, t, log[n]) : p \in Peers(n)}
               d == write_hard_state(disk[n], t, n)
    <3>1. /\ Handle(n, m, t, A) /\ UNCHANGED <<log, next_index>>
          /\ disk' = [disk EXCEPT ![n] = d]
        BY <2>1 DEF start_real_election, logVars, leaderVars
    <3>2. \A x \in A : x.kind # "InstallSnapshot"
        BY OtherMessageKinds
    <3>3. d.log_entries = disk[n].log_entries
        BY <1>1 DEF write_hard_state, Disk
    <3> HIDE DEF A, t, d
    <3> QED BY <1>3, <3>1, <3>2, <3>3
  <2>2. CASE Handle(n, m, current_term[n], {}) /\ UNCHANGED <<logVars, disk, leaderVars>>
      BY <1>4, <2>2 DEF logVars, leaderVars
  <2> QED BY <1>7, <2>1, <2>2 DEF handle_pre_vote_response
<1>8. CASE handle_request_vote(n, m)
  <2> DEFINE g == vote_granted(n, m)
             A == {VoteResponse("RequestVoteResponse", n, m.from, m.term, g)}
             d == IF g THEN write_hard_state(disk[n], m.term, m.from)
                  ELSE hard_state_seen(n, m)
  <2>1. /\ Handle(n, m, m.term, A) /\ UNCHANGED <<log, next_index>>
        /\ disk' = [disk EXCEPT ![n] = d]
      BY <1>8 DEF handle_request_vote, logVars, leaderVars
  <2>2. \A x \in A : x.kind # "InstallSnapshot"
      BY OtherMessageKinds DEF Refusals
  <2>3. d.log_entries = disk[n].log_entries
    <3>1. write_hard_state(disk[n], m.term, m.from).log_entries = disk[n].log_entries
        BY <1>1 DEF write_hard_state, Disk
    <3> HIDE DEF g
    <3> QED BY <1>5, <3>1
  <2> HIDE DEF A, d
  <2> QED BY <1>3, <2>1, <2>2, <2>3
<1>9. CASE handle_request_vote_response(n, m)
  <2>1. CASE become_leader(n, m)
    <3> DEFINE last == last_index(log[n])
               e == Entry(last + 1, current_term[n], Noop)
               l == Append(log[n], e)
               next == [p \in Server |-> last + 1]
               A == broadcast(n, current_term[n], l, commit_index[n], next)
    <3>1. /\ role' = [role EXCEPT ![n] = "Leader"] /\ log' = [log EXCEPT ![n] = l]
          /\ \E d : disk' = [disk EXCEPT ![n] = d]
          /\ next_index' = [next_index EXCEPT ![n] = next]
          /\ Handle(n, m, m.term, A)
        BY <2>1 DEF become_leader
    <3>2. last \in Nat
        BY <1>1, LogType
    <3> HIDE DEF last
    <3>3. e \in LogEntry
        BY <1>1, <3>2 DEF Entry, LogEntry
    <3> HIDE DEF e
    <3>4. next \in [Server -> Nat] /\ \A p \in Server : next[p] >= 1
        BY <3>2
    <3> HIDE DEF next
    <3>5. /\ log'[n] = l /\ next_index'[n] = next /\ role'[n] = "Leader"
          /\ \A p \in Server : p # n => /\ log'[p] = log[p] /\ disk'[p] = disk[p]
                                        /\ next_index'[p] = next_index[p]
        BY <3>1 DEF TypeOK
    <3>6. first_index(l) = 0
        BY <1>1, <1>2, <3>3, AppendKeeps
    <3>7. Len(log'[n]) = Len(disk'[n].log_entries)
        BY <3>5 DEF DurabilityInv, DiskMirrorsLog, Mirrors
    <3> HIDE DEF l
    <3>8. in_flight' \subseteq in_flight \cup A
        BY <3>1, InFlight
    <3>9. \A x \in A : x.kind # "InstallSnapshot"
        BY <3>4, <3>6, BroadcastKind
    <3> HIDE DEF A
    <3> QED BY <3>4, <3>5, <3>6, <3>7, <3>8, <3>9 DEF KeepsWhole
  <2>2. CASE Handle(n, m, m.term, {}) /\ UNCHANGED <<logVars, disk, leaderVars>>
      BY <1>4, <2>2 DEF logVars, leaderVars
  <2>3. CASE Observe(n, m) /\ Handle(n, m, m.term, {}) /\ UNCHANGED <<logVars, leaderVars>>
    <3>1. disk' = [disk EXCEPT ![n] = hard_state_seen(n, m)]
        BY <2>3 DEF Observe
    <3>2. UNCHANGED <<log, next_index>> /\ Handle(n, m, m.term, {})
        BY <2>3 DEF logVars, leaderVars
    <3> DEFINE d == hard_state_seen(n, m)
    <3>3. disk' = [disk EXCEPT ![n] = d] /\ d.log_entries = disk[n].log_entries
        BY <1>5, <3>1
    <3> DEFINE A == {}
    <3>4. Handle(n, m, m.term, A) /\ \A x \in A : x.kind # "InstallSnapshot"
        BY <3>2
    <3> HIDE DEF d, A
    <3> QED BY <1>3, <3>2, <3>3, <3>4
  <2> QED BY <1>9, <2>1, <2>2, <2>3 DEF handle_request_vote_response
<1> QED BY <1>6, <1>7, <1>8, <1>9

\* So do AppendEntries and its answers; a snapshot never arrives.
LEMMA ReplicationWhole ==
    ASSUME TypeOK, TypeOK', DurabilityInv, DurabilityInv', WholeInv, NEW n \in Server,
           NEW m \in Message,
           \/ handle_append_entries_missing(n, m) \/ handle_append_entries_conflict(n, m)
           \/ handle_append_entries_accept(n, m) \/ handle_append_entries_response(n, m)
           \/ handle_install_snapshot(n, m) \/ handle_install_snapshot_response(n, m)
    PROVE  KeepsWhole(n)
<1>1. /\ log[n] \in Log /\ commit_index[n] \in Nat /\ current_term[n] \in Nat
      /\ next_index[n] \in [Server -> Nat] /\ disk[n] \in Disk
      /\ Mirrors(log[n], disk[n], commit_index[n], role[n])
    BY LogIsOrderly
<1>2. /\ first_index(log[n]) = 0 /\ Len(log[n]) = Len(disk[n].log_entries)
      /\ \A p \in Server : next_index[n][p] >= 1
    BY DEF WholeInv
<1>3. hard_state_seen(n, m).log_entries = disk[n].log_entries
    BY SeenStore
<1>4. disk' = [disk EXCEPT ![n] = disk[n]] \/ ~UNCHANGED disk
    BY DEF TypeOK
<1>5. ASSUME disk' = [disk EXCEPT ![n] = hard_state_seen(n, m)] \/ UNCHANGED disk,
             UNCHANGED log, NEW t, NEW A, Handle(n, m, t, A),
             \A x \in A : x.kind # "InstallSnapshot",
             \A p \in Server : p # n => next_index'[p] = next_index[p],
             \A p \in Server : next_index'[n][p] >= 1
      PROVE  KeepsWhole(n)
  <2>1. in_flight' \subseteq in_flight \cup A
      BY <1>5, InFlight
  <2>2. \A x \in in_flight' : x \in in_flight \/ x.kind # "InstallSnapshot"
      BY <1>5, <2>1
  <2>3. CASE disk' = [disk EXCEPT ![n] = hard_state_seen(n, m)]
      BY <1>2, <1>3, <1>5, <2>2, <2>3, SameWhole
  <2>4. CASE UNCHANGED disk
      BY <1>2, <1>4, <1>5, <2>2, <2>4, SameWhole
  <2> QED BY <1>5, <2>3, <2>4
<1>6. CASE handle_append_entries_missing(n, m)
  <2> DEFINE x == AppendResponse(n, m.from, m.term, FALSE, None, last_index(log[n]) + 1)
  <2>1. /\ Handle(n, m, m.term, {x}) /\ UNCHANGED <<log, next_index>>
        /\ disk' = [disk EXCEPT ![n] = hard_state_seen(n, m)]
      BY <1>6 DEF handle_append_entries_missing, logVars, leaderVars
  <2>2. x.kind # "InstallSnapshot"
      BY OtherMessageKinds
  <2> HIDE DEF x
  <2> QED BY <1>2, <1>5, <2>1, <2>2
<1>7. CASE handle_append_entries_conflict(n, m)
  <2> DEFINE t == term_at(log[n], m.prev_log_index)
             x == AppendResponse(n, m.from, m.term, FALSE, t,
                                 first_of_run(log[n], m.prev_log_index, t))
  <2>1. /\ Handle(n, m, m.term, {x}) /\ UNCHANGED <<log, next_index>>
        /\ disk' = [disk EXCEPT ![n] = hard_state_seen(n, m)]
      BY <1>7 DEF handle_append_entries_conflict, logVars, leaderVars
  <2>2. x.kind # "InstallSnapshot"
      BY OtherMessageKinds
  <2> HIDE DEF x
  <2> QED BY <1>2, <1>5, <2>1, <2>2
<1>8. CASE handle_append_entries_accept(n, m)
  <2> DEFINE x == AppendResponse(n, m.from, m.term, TRUE, None, None)
  <2>1. /\ Handle(n, m, m.term, {x}) /\ UNCHANGED next_index
        /\ \E l : log' = [log EXCEPT ![n] = l] /\ \E d : disk' = [disk EXCEPT ![n] = d]
      BY <1>8 DEF handle_append_entries_accept, leaderVars
  <2>2. \A p \in Server : p # n => log'[p] = log[p] /\ disk'[p] = disk[p]
      BY <2>1 DEF TypeOK
  <2>3. Mirrors(log[n], disk[n], commit_index[n], "Leader")
      BY <1>1, <1>2 DEF Mirrors
  <2>4. Mirrors(log'[n], disk'[n], commit_index[n], "Leader")
      BY <1>8, <2>3, AcceptWrites
  <2>5. Len(log'[n]) = Len(disk'[n].log_entries)
      BY <2>4 DEF Mirrors
  <2>6. first_index(log'[n]) = 0
    <3> DEFINE held   == already_held(log[n], m.entries)
               suffix == SubSeq(m.entries, held + 1, Len(m.entries))
               attach == m.entries[1].index + held
    <3>1. /\ m \in in_flight /\ m.kind = "AppendEntries"
          /\ term_at(log[n], m.prev_log_index) = m.prev_log_term
          /\ log'[n] = IF suffix = << >> THEN log[n]
                       ELSE truncate_and_append(log[n], attach, suffix)
        BY <1>8 DEF handle_append_entries_accept, Receives, TypeOK
    <3>2. CASE suffix = << >>
        BY <1>2, <3>1, <3>2
    <3>3. CASE suffix # << >>
      <4>1. /\ m.entries \in Seq(LogEntry) /\ m.prev_log_index \in Nat
            /\ m.prev_log_term \in Nat
          BY <3>1, MessageFields
      <4>2. \A k \in 1..Len(m.entries) : m.entries[k].index = m.prev_log_index + k
          BY <3>1 DEF DurabilityInv, SentInOrder, InOrder
      <4>3. term_at(log[n], m.prev_log_index) # None
          BY <3>1, <4>1, NoneAssumption
      <4>4. /\ attach \in Nat /\ attach > first_index(log[n])
            /\ attach - first_index(log[n]) <= Len(log[n])
            /\ suffix \in Seq(LogEntry)
          BY <1>1, <3>3, <4>1, <4>2, <4>3, AcceptPlace
      <4>5. log'[n] = truncate(log[n], attach - first_index(log[n])) \o suffix
          BY <3>1, <3>3 DEF truncate_and_append
      <4> HIDE DEF attach, suffix
      <4> DEFINE k == attach - first_index(log[n])
      <4>6. k \in Nat /\ k >= 1 /\ k <= Len(log[n]) /\ 1 \in 1..k
          BY <1>2, <4>4
      <4> HIDE DEF k
      <4>7. (truncate(log[n], k) \o suffix)[1] = log[n][1]
          BY <1>1, <4>4, <4>6, SpliceIs
      <4> QED BY <1>2, <4>5, <4>7 DEF first_index, k
    <3> QED BY <3>2, <3>3
  <2>7. in_flight' \subseteq in_flight \cup {x}
      BY <2>1, InFlight
  <2>8. x.kind # "InstallSnapshot"
      BY OtherMessageKinds
  <2> HIDE DEF x
  <2> QED BY <1>2, <2>1, <2>2, <2>5, <2>6, <2>7, <2>8 DEF KeepsWhole
<1>9. CASE handle_append_entries_response(n, m)
  <2> DEFINE last == last_index(log[n])
             next == backtracked_next(log[n], next_index[n][m.from], m)
             x == replicate_to_peer(n, m.from, current_term[n], log[n], commit_index[n], next)
  <2>1. UNCHANGED log /\ m.kind = "AppendEntriesResponse"
      BY <1>9 DEF handle_append_entries_response, Receives
  <2>2. m.from \in Server /\ m.conflict_term \in OptNat /\ m.conflict_index \in OptNat
      BY <2>1, MessageFields
  <2>3. next_index[n][m.from] \in Nat
      BY <1>1, <2>2
  <2>4. next \in Nat
      BY <1>1, <2>2, <2>3, BacktrackedType
  <2>5. next >= 1
    <3>1. \E i : next = Max2(i, 1)
        BY DEF backtracked_next
    <3> HIDE DEF next
    <3> QED BY <2>4, <3>1 DEF Max2
  <2>6. last + 1 \in Nat /\ last + 1 >= 1
      BY <1>1, LogType
  <2> HIDE DEF next, last
  <2>7. x.kind # "InstallSnapshot"
      BY <1>2, <2>4, <2>5, ReplicateKind
  <2> HIDE DEF x
  <2>8. \/ /\ UNCHANGED disk /\ Handle(n, m, m.term, {})
           /\ next_index' = [next_index EXCEPT ![n][m.from] = last + 1]
        \/ /\ UNCHANGED disk /\ Handle(n, m, m.term, {x})
           /\ next_index' = [next_index EXCEPT ![n][m.from] = next]
        \/ /\ Observe(n, m) /\ Handle(n, m, m.term, {}) /\ UNCHANGED next_index
      BY <1>9 DEF handle_append_entries_response, leaderVars, x, next, last
  <2>9. ASSUME NEW i \in Nat, i >= 1, next_index' = [next_index EXCEPT ![n][m.from] = i]
        PROVE  /\ \A p \in Server : p # n => next_index'[p] = next_index[p]
               /\ \A p \in Server : next_index'[n][p] >= 1
      BY <1>2, <2>2, <2>9 DEF TypeOK
  <2>10. CASE /\ UNCHANGED disk /\ Handle(n, m, m.term, {})
              /\ next_index' = [next_index EXCEPT ![n][m.from] = last + 1]
    <3>1. /\ \A p \in Server : p # n => next_index'[p] = next_index[p]
          /\ \A p \in Server : next_index'[n][p] >= 1
        BY <2>6, <2>9, <2>10
    <3> QED BY <1>5, <2>1, <2>10, <3>1
  <2>11. CASE /\ UNCHANGED disk /\ Handle(n, m, m.term, {x})
              /\ next_index' = [next_index EXCEPT ![n][m.from] = next]
    <3>1. /\ \A p \in Server : p # n => next_index'[p] = next_index[p]
          /\ \A p \in Server : next_index'[n][p] >= 1
        BY <2>4, <2>5, <2>9, <2>11
    <3> QED BY <1>5, <2>1, <2>7, <2>11, <3>1
  <2>12. CASE Observe(n, m) /\ Handle(n, m, m.term, {}) /\ UNCHANGED next_index
      BY <1>2, <1>5, <2>1, <2>12 DEF Observe
  <2> QED BY <2>8, <2>10, <2>11, <2>12
<1>10. CASE handle_install_snapshot(n, m)
  <2>1. m \in in_flight /\ m.kind = "InstallSnapshot"
      BY <1>10 DEF handle_install_snapshot, Receives
  <2> QED BY <2>1 DEF WholeInv
<1>11. CASE handle_install_snapshot_response(n, m)
  <2> DEFINE first == first_index(log[n])
  <2>1. UNCHANGED log /\ Handle(n, m, m.term, {})
      BY <1>11 DEF handle_install_snapshot_response
  <2>2. \/ UNCHANGED disk /\ next_index' = [next_index EXCEPT ![n][m.from] = first + 1]
        \/ Observe(n, m) /\ UNCHANGED next_index
      BY <1>11 DEF handle_install_snapshot_response, leaderVars
  <2>3. CASE UNCHANGED disk /\ next_index' = [next_index EXCEPT ![n][m.from] = first + 1]
    <3>1. /\ \A p \in Server : p # n => next_index'[p] = next_index[p]
          /\ \A p \in Server : next_index'[n][p] >= 1
        BY <1>2, <2>3, MessageFields DEF TypeOK
    <3> QED BY <1>5, <2>1, <2>3, <3>1
  <2>4. CASE Observe(n, m) /\ UNCHANGED next_index
      BY <1>2, <1>5, <2>1, <2>4 DEF Observe
  <2> QED BY <2>2, <2>3, <2>4
<1> QED BY <1>6, <1>7, <1>8, <1>9, <1>10, <1>11

\* Every step but a compaction.
LEMMA WholeStep ==
    ASSUME TypeOK, ElectionInv, DurabilityInv, WholeInv, [Uncompacted]_vars
    PROVE  WholeInv' /\ AsBefore
<1>1. TypeOK' /\ DurabilityInv'
    BY UncompactedIs, NextType, DurabilityStep
<1>2. CASE UNCHANGED vars
    BY <1>2 DEF vars, nodeVars, simVars, logVars, leaderVars, WholeInv, AsBefore
<1>3. ASSUME NEW m \in in_flight, Deliver(m.to, m) PROVE WholeInv' /\ AsBefore
  <2> DEFINE n == m.to
  <2>1. m \in Message /\ n \in Server
      BY MessageFields DEF TypeOK
  <2> HIDE DEF n
  <2>2. KeepsWhole(n)
      BY <1>1, <1>3, <2>1, VoteWhole, ReplicationWhole DEF Deliver, n
  <2>3. UNCHANGED alive
      BY <1>3 DEF Deliver, simVars
  <2> QED BY <2>1, <2>2, <2>3, WholeStays DEF AsBefore
<1>4. ASSUME NEW n \in Server,
             \/ tick_idle(n) \/ tick_election_timeout(n) \/ tick_leader(n)
             \/ crash_node(n) \/ spawn_node(n) \/ \E c \in Command : propose_command(n, c)
      PROVE  WholeInv' /\ AsBefore
  <2>1. KeepsWhole(n) /\ (spawn_node(n) => log'[n] = log[n])
      BY <1>1, <1>4, LocalWhole
  <2>2. CASE spawn_node(n)
    <3>1. alive' = alive \cup {n}
        BY <2>2 DEF spawn_node, restore
    <3> QED BY <2>1, <2>2, <3>1, WholeStays DEF AsBefore
  <2>3. CASE ~spawn_node(n)
    <3>1. alive' \subseteq alive
        BY <1>4, <2>3 DEF tick_idle, tick_election_timeout, tick_leader, crash_node,
           propose_command, simVars
    <3> QED BY <2>1, <3>1, WholeStays DEF AsBefore
  <2> QED BY <2>2, <2>3
<1>5. ASSUME NEW m \in in_flight, drop_message(m) PROVE WholeInv' /\ AsBefore
  <2>1. UNCHANGED <<log, disk, next_index, alive>> /\ in_flight' \subseteq in_flight
      BY <1>5 DEF drop_message, logVars, leaderVars
  <2> QED BY <2>1 DEF WholeInv, AsBefore
<1> QED BY <1>2, <1>3, <1>4, <1>5 DEF Uncompacted

\* It holds of an empty cluster.
LEMMA WholeInit == Init => WholeInv
<1> SUFFICES ASSUME Init PROVE WholeInv
    OBVIOUS
<1>1. first_index(new_log) = 0 /\ new_disk.log_entries = new_log
    BY DEF first_index, new_log, new_disk, sentinel
<1> QED BY <1>1 DEF Init, WholeInv

------------------------------------------------------------------------------
(* raft-servers that come back with the log they had.                       *)

\* Such a restart is one from StableDisk, which holds the log.
LEMMA RestartIsSpawn ==
    ASSUME TypeOK, DurabilityInv, WholeInv, NEW n \in Server, restart_server(n), ~misread'
    PROVE  spawn_node(n)
<1> DEFINE d == disk[n]
<1>1. /\ log[n] \in Log /\ d \in Disk /\ commit_index[n] \in Nat
      /\ Mirrors(log[n], d, commit_index[n], role[n])
    BY LogIsOrderly
<1>2. log[n] = d.log_entries
  <2>1. d.log_entries \in Seq(LogEntry) /\ log[n] \in Seq(LogEntry)
      BY <1>1, DiskType, LogType
  <2>2. /\ Len(log[n]) = Len(d.log_entries)
        /\ \A k \in 1..Len(log[n]) : log[n][k] = d.log_entries[k]
      BY <1>1 DEF Mirrors, WholeInv
  <2> QED BY <2>1, <2>2, SeqEqual
<1>3. restore_log(BaseOf(d), Tail(d.log_entries)) = log[n]
    BY <1>1, <1>2, MirrorsRestore
<1>4. BaseOf(d).last_included_index = 0
  <2>1. /\ d.log_entries[1] = sentinel(BaseOf(d).last_included_index,
                                       BaseOf(d).last_included_term)
        /\ first_index(d.log_entries) = 0
      BY <1>1, <1>2 DEF Mirrors, WholeInv
  <2> QED BY <2>1 DEF first_index, sentinel
<1>5. /\ n \notin alive /\ alive' = alive \cup {n}
      /\ restore(n, d.current_term, d.voted_for, log[n], 0)
      /\ disk' = [disk EXCEPT ![n].log_entries = log[n]]
      /\ UNCHANGED <<in_flight, panicked, histVars, applied, proposed, timeouts,
                     heartbeats, crashes, losses>>
    BY DEF restart_server
<1>6. UNCHANGED disk
  <2>1. [disk[n] EXCEPT !.log_entries = log[n]] = disk[n]
      BY <1>1, <1>2 DEF Disk
  <2> QED BY <1>5, <2>1 DEF TypeOK
<1> QED BY <1>3, <1>4, <1>5, <1>6 DEF spawn_node, BaseOf

\* A log that was misread stays misread.
LEMMA MisreadStays ==
    ASSUME [ClusterNext]_clusterVars, ~misread'
    PROVE  ~misread
BY DEF ClusterNext, clusterVars, client_request_accepted, client_request_redirected,
       restart_server

\* A step of the cluster without such a misreading is one of the nodes.
LEMMA ReadBackStep ==
    ASSUME TypeOK, DurabilityInv, WholeInv, [ClusterNext]_clusterVars, ~misread'
    PROVE  [Uncompacted]_vars
<1>1. ASSUME NEW n \in Server, NEW c \in Command,
             client_request_accepted(n, c) \/ client_request_redirected(n, c)
      PROVE  [Uncompacted]_vars
    BY <1>1 DEF client_request_accepted, client_request_redirected, Uncompacted
<1>2. ASSUME NEW n \in Server, restart_server(n) PROVE [Uncompacted]_vars
    BY <1>2, RestartIsSpawn DEF Uncompacted
<1>3. CASE ServerStep /\ UNCHANGED <<answers, misread>>
    BY <1>3 DEF ServerStep, Uncompacted
<1>4. CASE UNCHANGED clusterVars
    BY <1>4 DEF clusterVars
<1> QED BY <1>1, <1>2, <1>3, <1>4 DEF ClusterNext

\* What the logs of a cluster keep until a server misreads its file.
MatchWhileReadBack ==
    ~misread => TypeOK /\ ElectionInv /\ DurabilityInv /\ WholeInv /\ MatchInv

\* README.md:45, for a cluster of raft-servers, any number of nodes and clients,
\* kills, losses and duplicates: logs match, up to the first server that does not
\* come back with the log it had.
THEOREM ServerLogsMatch == ClusterSpec => []MatchingWhileReadBack
<1>1. MatchWhileReadBack /\ [ClusterNext]_clusterVars => MatchWhileReadBack'
  <2> SUFFICES ASSUME MatchWhileReadBack, [ClusterNext]_clusterVars, ~misread'
               PROVE  TypeOK' /\ ElectionInv' /\ DurabilityInv' /\ WholeInv' /\ MatchInv'
      BY DEF MatchWhileReadBack
  <2>1. ~misread
      BY MisreadStays
  <2>2. TypeOK /\ ElectionInv /\ DurabilityInv /\ WholeInv /\ MatchInv
      BY <2>1 DEF MatchWhileReadBack
  <2>3. [Uncompacted]_vars
      BY <2>2, ReadBackStep
  <2>4. TypeOK' /\ ElectionInv' /\ DurabilityInv'
      BY <2>2, <2>3, UncompactedIs, NextType, ElectionStep, DurabilityStep
  <2>5. WholeInv' /\ AsBefore
      BY <2>2, <2>3, WholeStep
  <2> QED BY <2>2, <2>3, <2>4, <2>5, UncompactedIs, MatchStep
<1>2. MatchWhileReadBack => MatchingWhileReadBack
    BY InvImpliesMatching DEF MatchWhileReadBack, MatchingWhileReadBack
<1>3. ClusterInit => MatchWhileReadBack
    BY InitType, ElectionInit, DurabilityInit, WholeInit, MatchInit
       DEF ClusterInit, MatchWhileReadBack
<1> QED BY <1>1, <1>2, <1>3, PTL DEF ClusterSpec

------------------------------------------------------------------------------
(* Leader hints.                                                            *)

\* Only a leader of its term, going by the leaders T, sends entries or snapshots.
FromLeader(T, m) ==
    m.kind \in {"AppendEntries", "InstallSnapshot"} => <<m.term, m.from>> \in T

LeadersSend == \A m \in in_flight : FromLeader(term_leaders, m)

\* Node q was elected in term t or before it.
ElectedUntil(T, q, t) == \E u \in 1..t : <<u, q>> \in T

HeardOfLeaders ==
    \A n \in Server : leader_id[n] # None =>
        ElectedUntil(term_leaders, leader_id[n], current_term[n])

\* Nobody leads or stands in term 0.
TermsAreReal ==
    /\ \A a \in term_leaders : a[1] >= 1
    /\ \A n \in Server : role[n] = "Candidate" => current_term[n] >= 1

HintInv == LeadersSend /\ HeardOfLeaders /\ TermsAreReal /\ LeadersAreListed

\* A step of node n that takes leadership from nobody's word but a leader's.
Heedful(n) ==
    /\ \A p \in Server : p # n => /\ leader_id'[p] = leader_id[p]
                                  /\ current_term'[p] = current_term[p]
                                  /\ role'[p] = role[p]
    /\ current_term'[n] >= current_term[n]
    /\ term_leaders \subseteq term_leaders'
    /\ \A a \in term_leaders' :
           a \in term_leaders \/ (a[1] = current_term[n] /\ role[n] = "Candidate")
    /\ \/ leader_id'[n] \in {None, leader_id[n]}
       \/ <<current_term'[n], leader_id'[n]>> \in term_leaders'
    /\ role'[n] = "Candidate" =>
           role[n] = "Candidate" \/ current_term'[n] > current_term[n]
    /\ role'[n] = "Leader" =>
           \/ role[n] = "Leader" /\ current_term'[n] = current_term[n]
           \/ <<current_term'[n], n>> \in term_leaders'
    /\ \A x \in in_flight' : x \in in_flight \/ FromLeader(term_leaders', x)
------------------------------------------------------------------------------
\* A heedful step keeps the invariant.
LEMMA HeedfulStep ==
    ASSUME TypeOK, TypeOK', HintInv, NEW n \in Server, Heedful(n)
    PROVE  HintInv'
<1>1. LeadersSend'
    BY DEF HintInv, LeadersSend, Heedful, FromLeader
<1>2. TermsAreReal'
  <2>1. ASSUME NEW a \in term_leaders' PROVE a[1] >= 1
      BY DEF HintInv, TermsAreReal, Heedful
  <2>2. ASSUME NEW p \in Server, role'[p] = "Candidate" PROVE current_term'[p] >= 1
    <3>1. current_term[p] \in Nat /\ current_term'[p] \in Nat
        BY DEF TypeOK
    <3>2. role[p] = "Candidate" => current_term[p] >= 1
        BY DEF HintInv, TermsAreReal
    <3>3. CASE p = n
      <4>1. current_term'[n] >= current_term[n]
          BY DEF Heedful
      <4>2. role[n] = "Candidate" \/ current_term'[n] > current_term[n]
          BY <2>2, <3>3 DEF Heedful
      <4> QED BY <3>1, <3>2, <3>3, <4>1, <4>2
    <3>4. CASE p # n
        BY <2>2, <3>2, <3>4 DEF Heedful
    <3> QED BY <3>3, <3>4
  <2> QED BY <2>1, <2>2 DEF TermsAreReal
<1>3. HeardOfLeaders'
  <2> SUFFICES ASSUME NEW p \in Server, leader_id'[p] # None
               PROVE  \E u \in 1..current_term'[p] : <<u, leader_id'[p]>> \in term_leaders'
      BY DEF HeardOfLeaders, ElectedUntil
  <2>1. current_term[p] \in Nat /\ current_term'[p] \in Nat
      BY DEF TypeOK
  <2>2. ASSUME leader_id'[p] = leader_id[p], current_term'[p] >= current_term[p]
        PROVE  \E u \in 1..current_term'[p] : <<u, leader_id'[p]>> \in term_leaders'
    <3>1. PICK u \in 1..current_term[p] : <<u, leader_id[p]>> \in term_leaders
        BY <2>2 DEF HintInv, HeardOfLeaders, ElectedUntil
    <3>2. u \in 1..current_term'[p] /\ <<u, leader_id'[p]>> \in term_leaders'
        BY <2>1, <2>2, <3>1 DEF Heedful
    <3> QED BY <3>2
  <2>3. CASE p # n
      BY <2>1, <2>2, <2>3 DEF Heedful
  <2>4. CASE p = n /\ <<current_term'[n], leader_id'[n]>> \in term_leaders'
    <3>1. <<current_term'[n], leader_id'[n]>>[1] >= 1
        BY <1>2, <2>4 DEF TermsAreReal
    <3>2. current_term'[p] \in 1..current_term'[p]
        BY <2>1, <2>4, <3>1
    <3> QED BY <2>4, <3>2
  <2> QED BY <2>2, <2>3, <2>4 DEF Heedful
<1>4. LeadersAreListed'
    BY DEF HintInv, LeadersAreListed, Heedful
<1> QED BY <1>1, <1>2, <1>3, <1>4 DEF HintInv

\* replicate_to_peer of a leader, and everything that is neither entries nor a
\* snapshot.
LEMMA SentByLeaders ==
    ASSUME NEW T
    PROVE  /\ \A n, p, t, l : /\ FromLeader(T, Vote("PreVote", n, p, t, l))
                              /\ FromLeader(T, Vote("RequestVote", n, p, t, l))
           /\ \A n, p, t, g : /\ FromLeader(T, VoteResponse("PreVoteResponse", n, p, t, g))
                              /\ FromLeader(T, VoteResponse("RequestVoteResponse", n, p, t, g))
           /\ \A n, p, t, ok, ct, ci : FromLeader(T, AppendResponse(n, p, t, ok, ct, ci))
           /\ \A n, p, t : FromLeader(T, SnapshotResponse(n, p, t))
           /\ \A n, p, t, l, c, next : <<t, n>> \in T =>
                  FromLeader(T, replicate_to_peer(n, p, t, l, c, next))
BY DEF FromLeader, Vote, VoteResponse, AppendResponse, SnapshotResponse, replicate_to_peer

\* A broadcast is a set of such messages.
LEMMA BroadcastByLeader ==
    ASSUME NEW T, NEW n, NEW t, NEW l, NEW c, NEW next, <<t, n>> \in T,
           NEW x \in broadcast(n, t, l, c, next)
    PROVE  FromLeader(T, x)
BY SentByLeaders DEF broadcast

\* A step that leaves term, leader and the list of leaders alone and starts no
\* candidacy.
LEMMA StillHeedful ==
    ASSUME TypeOK, NEW n \in Server,
           UNCHANGED <<leader_id, current_term, term_leaders>>,
           \A p \in Server : p # n => role'[p] = role[p],
           role'[n] \in {"Candidate", "Leader"} => role'[n] = role[n],
           \A x \in in_flight' : x \in in_flight \/ FromLeader(term_leaders, x)
    PROVE  Heedful(n)
<1>1. current_term[n] >= current_term[n]
    BY DEF TypeOK
<1> QED BY <1>1 DEF Heedful

\* Ticks, proposals, compaction.
LEMMA LocalHeedful ==
    ASSUME TypeOK, HintInv, NEW n \in Server,
           \/ tick_idle(n) \/ tick_election_timeout(n) \/ tick_leader(n)
           \/ (\E c \in Command : propose_command(n, c)) \/ compaction_pass(n)
    PROVE  Heedful(n)
<1>1. role[n] = "Leader" => <<current_term[n], n>> \in term_leaders
    BY DEF HintInv, LeadersAreListed
<1>2. CASE tick_idle(n)
    BY <1>2, StillHeedful DEF tick_idle, tick_lease_lapses, histVars
<1>3. CASE tick_election_timeout(n)
  <2>1. in_flight' \subseteq in_flight
            \cup {Vote("PreVote", n, p, current_term[n] + 1, log[n]) : p \in Peers(n)}
      BY <1>3, InFlight DEF tick_election_timeout, start_pre_vote
  <2>2. \A x \in in_flight' : x \in in_flight \/ FromLeader(term_leaders, x)
      BY <2>1, SentByLeaders
  <2>3. /\ role' = [role EXCEPT ![n] = "PreCandidate"]
        /\ UNCHANGED <<leader_id, current_term, term_leaders>>
      BY <1>3 DEF tick_election_timeout, start_pre_vote, histVars
  <2> QED BY <2>2, <2>3, StillHeedful DEF TypeOK
<1>4. CASE tick_leader(n)
  <2>1. in_flight' \subseteq in_flight
            \cup broadcast(n, current_term[n], log[n], commit_index[n], next_index[n])
      BY <1>4, InFlight DEF tick_leader, tick_heartbeat
  <2>2. \A x \in in_flight' : x \in in_flight \/ FromLeader(term_leaders, x)
      BY <1>1, <1>4, <2>1, BroadcastByLeader DEF tick_leader, tick_heartbeat
  <2>3. UNCHANGED <<role, leader_id, current_term, term_leaders>>
      BY <1>4 DEF tick_leader, tick_heartbeat, histVars, termVars
  <2> QED BY <2>2, <2>3, StillHeedful
<1>5. ASSUME NEW c \in Command, propose_command(n, c) PROVE Heedful(n)
  <2> DEFINE l == Append(log[n], Entry(last_index(log[n]) + 1, current_term[n], c))
  <2>1. in_flight' \subseteq in_flight
            \cup broadcast(n, current_term[n], l, commit_index[n], next_index[n])
      BY <1>5, InFlight DEF propose_command, propose
  <2> HIDE DEF l
  <2>2. \A x \in in_flight' : x \in in_flight \/ FromLeader(term_leaders, x)
      BY <1>1, <1>5, <2>1, BroadcastByLeader DEF propose_command, propose
  <2>3. UNCHANGED <<role, leader_id, current_term, term_leaders>>
      BY <1>5 DEF propose_command, propose, histVars, termVars
  <2> QED BY <2>2, <2>3, StillHeedful
<1>6. CASE compaction_pass(n)
  <2>1. UNCHANGED <<role, leader_id, current_term, term_leaders, in_flight>>
      BY <1>6 DEF compaction_pass, compact_logs, histVars, termVars
  <2> QED BY <2>1, StillHeedful
<1> QED BY <1>2, <1>3, <1>4, <1>5, <1>6

\* A restarted node has forgotten who leads.
LEMMA FaultHeedful ==
    ASSUME TypeOK, VotesKept, NEW n \in Server,
           crash_node(n) \/ spawn_node(n) \/ (\E m \in in_flight : drop_message(m))
    PROVE  Heedful(n)
<1>1. CASE crash_node(n)
  <2>1. UNCHANGED <<role, leader_id, current_term, term_leaders, in_flight>>
      BY <1>1 DEF crash_node, nodeVars, histVars, termVars
  <2> QED BY <2>1, StillHeedful
<1>2. CASE \E m \in in_flight : drop_message(m)
  <2>1. UNCHANGED <<role, leader_id, current_term, term_leaders>> /\ in_flight' \subseteq in_flight
      BY <1>2 DEF drop_message, histVars, termVars
  <2> QED BY <2>1, StillHeedful
<1>3. CASE spawn_node(n)
  <2>1. /\ role' = [role EXCEPT ![n] = "Follower"]
        /\ current_term' = [current_term EXCEPT ![n] = disk[n].current_term]
        /\ leader_id' = [leader_id EXCEPT ![n] = None]
        /\ UNCHANGED <<in_flight, term_leaders>>
      BY <1>3 DEF spawn_node, restore, histVars
  <2>2. current_term'[n] >= current_term[n]
      BY DEF VotesKept
  <2>3. /\ \A p \in Server : p # n => /\ leader_id'[p] = leader_id[p]
                                      /\ current_term'[p] = current_term[p]
                                      /\ role'[p] = role[p]
        /\ leader_id'[n] = None /\ role'[n] = "Follower"
      BY <2>1 DEF TypeOK
  <2> QED BY <2>1, <2>2, <2>3 DEF Heedful
<1> QED BY <1>1, <1>2, <1>3
------------------------------------------------------------------------------
(* Messages.                                                                *)

\* step() on a newer term forgets the leader and ends a candidacy.
LEMMA ObserveHeedful ==
    ASSUME TypeOK, VotesKept, NEW n \in Server, NEW m \in Message,
           current_term' = [current_term EXCEPT ![n] = m.term],
           role' = [role EXCEPT ![n] = role_seen(n, m)],
           leader_id' = [leader_id EXCEPT ![n] = leader_seen(n, m)],
           UNCHANGED term_leaders,
           \A x \in in_flight' : x \in in_flight \/ FromLeader(term_leaders, x)
    PROVE  Heedful(n)
<1>1. /\ \A p \in Server : p # n => /\ leader_id'[p] = leader_id[p]
                                    /\ current_term'[p] = current_term[p]
                                    /\ role'[p] = role[p]
      /\ leader_id'[n] = leader_seen(n, m) /\ role'[n] = role_seen(n, m)
    BY DEF TypeOK
<1>2. leader_id'[n] \in {None, leader_id[n]}
    BY <1>1 DEF leader_seen
<1>3. role'[n] = "Candidate" => role[n] = "Candidate"
    BY <1>1 DEF role_seen
<1>4. current_term'[n] >= current_term[n]
    BY DEF VotesKept
<1>5. role'[n] = "Leader" => role[n] = "Leader" /\ current_term'[n] = current_term[n]
  <2>1. current_term'[n] = m.term /\ m.term \in Nat /\ current_term[n] \in Nat
      BY MessageFields DEF TypeOK
  <2>2. role_seen(n, m) = "Leader" => role[n] = "Leader" /\ m.term = current_term[n]
      BY <1>4, <2>1 DEF role_seen, Newer
  <2> QED BY <1>1, <2>1, <2>2
<1> QED BY <1>1, <1>2, <1>3, <1>4, <1>5 DEF Heedful

\* A follower takes the sender of entries or a snapshot for its leader.
LEMMA FollowHeedful ==
    ASSUME TypeOK, VotesKept, HintInv, NEW n \in Server, NEW m \in in_flight,
           m.kind \in {"AppendEntries", "InstallSnapshot"}, Follow(n, m),
           UNCHANGED term_leaders,
           \A x \in in_flight' : x \in in_flight \/ FromLeader(term_leaders, x)
    PROVE  Heedful(n)
<1>1. <<m.term, m.from>> \in term_leaders
    BY DEF HintInv, LeadersSend, FromLeader
<1>2. /\ \A p \in Server : p # n => /\ leader_id'[p] = leader_id[p]
                                    /\ current_term'[p] = current_term[p]
                                    /\ role'[p] = role[p]
      /\ leader_id'[n] = m.from /\ role'[n] = "Follower" /\ current_term'[n] = m.term
    BY DEF TypeOK, Follow
<1>3. current_term'[n] >= current_term[n]
    BY DEF VotesKept
<1> QED BY <1>1, <1>2, <1>3 DEF Heedful

\* Pre-votes; a candidate keeps the leader it last heard of.
LEMMA PreVoteHeedful ==
    ASSUME TypeOK, VotesKept, NEW n \in Server, NEW m \in Message,
           handle_pre_vote(n, m) \/ handle_pre_vote_response(n, m)
    PROVE  Heedful(n)
<1>1. CASE handle_pre_vote(n, m)
  <2>1. in_flight' \subseteq in_flight \cup
            {VoteResponse("PreVoteResponse", n, m.from, current_term[n], pre_vote_granted(n, m))}
      BY <1>1, InFlight DEF handle_pre_vote
  <2>2. \A x \in in_flight' : x \in in_flight \/ FromLeader(term_leaders, x)
      BY <2>1, SentByLeaders
  <2>3. UNCHANGED <<role, leader_id, current_term, term_leaders>>
      BY <1>1 DEF handle_pre_vote, histVars, termVars
  <2> QED BY <2>2, <2>3, StillHeedful
<1>2. CASE handle_pre_vote_response(n, m)
  <2>1. CASE start_real_election(n, m)
    <3> DEFINE t == current_term[n] + 1
    <3>1. in_flight' \subseteq in_flight
              \cup {Vote("RequestVote", n, p, t, log[n]) : p \in Peers(n)}
        BY <2>1, InFlight DEF start_real_election
    <3>2. \A x \in in_flight' : x \in in_flight \/ FromLeader(term_leaders, x)
        BY <3>1, SentByLeaders
    <3>3. /\ current_term' = [current_term EXCEPT ![n] = t]
          /\ role' = [role EXCEPT ![n] = "Candidate"]
          /\ UNCHANGED <<leader_id, term_leaders>>
        BY <2>1 DEF start_real_election
    <3>4. /\ \A p \in Server : p # n => /\ current_term'[p] = current_term[p]
                                        /\ role'[p] = role[p]
          /\ current_term'[n] = t /\ current_term[n] \in Nat
          /\ role'[n] = "Candidate"
        BY <3>3 DEF TypeOK
    <3>5. current_term'[n] > current_term[n]
        BY <3>4
    <3>6. current_term'[n] >= current_term[n]
        BY <3>4
    <3> QED BY <3>2, <3>3, <3>4, <3>5, <3>6 DEF Heedful
  <2>2. CASE Handle(n, m, current_term[n], {}) /\ UNCHANGED <<termVars, histVars>>
    <3>1. in_flight' \subseteq in_flight
        BY <2>2, InFlight
    <3>2. UNCHANGED <<role, leader_id, current_term, term_leaders>>
        BY <2>2 DEF histVars, termVars
    <3> QED BY <3>1, <3>2, StillHeedful
  <2> QED BY <1>2, <2>1, <2>2 DEF handle_pre_vote_response
<1> QED BY <1>1, <1>2

\* A voter takes no leader from a candidate.
LEMMA RequestVoteHeedful ==
    ASSUME TypeOK, VotesKept, NEW n \in Server, NEW m \in Message,
           handle_request_vote(n, m)
    PROVE  Heedful(n)
<1> DEFINE g == vote_granted(n, m)
<1>1. in_flight' \subseteq in_flight \cup
          {VoteResponse("RequestVoteResponse", n, m.from, m.term, g)}
    BY InFlight DEF handle_request_vote
<1>2. \A x \in in_flight' : x \in in_flight \/ FromLeader(term_leaders, x)
  <2> HIDE DEF g
  <2> QED BY <1>1, SentByLeaders
<1>3. /\ current_term' = [current_term EXCEPT ![n] = m.term]
      /\ role' = [role EXCEPT ![n] = role_seen(n, m)]
      /\ leader_id' = [leader_id EXCEPT ![n] = leader_seen(n, m)]
      /\ UNCHANGED term_leaders
    BY DEF handle_request_vote
<1> QED BY <1>2, <1>3, ObserveHeedful

\* A node that takes itself for the leader has just been elected.
LEMMA VoteCountedHeedful ==
    ASSUME TypeOK, VotesKept, NEW n \in Server, NEW m \in Message,
           handle_request_vote_response(n, m)
    PROVE  Heedful(n)
<1>1. CASE become_leader(n, m) /\ counts_vote(n, m)
  <2> DEFINE last == last_index(log[n])
             l == Append(log[n], Entry(last + 1, current_term[n], Noop))
             next == [p \in Server |-> last + 1]
  <2>1. in_flight' \subseteq in_flight
            \cup broadcast(n, current_term[n], l, commit_index[n], next)
      BY <1>1, InFlight DEF become_leader
  <2>2. /\ role' = [role EXCEPT ![n] = "Leader"]
        /\ leader_id' = [leader_id EXCEPT ![n] = n]
        /\ term_leaders' = term_leaders \cup {<<current_term[n], n>>}
        /\ UNCHANGED current_term /\ role[n] = "Candidate"
      BY <1>1 DEF become_leader, counts_vote
  <2> HIDE DEF l, next
  <2>3. \A x \in in_flight' : x \in in_flight \/ FromLeader(term_leaders', x)
    <3>1. <<current_term[n], n>> \in term_leaders'
        BY <2>2
    <3> QED BY <2>1, <3>1, BroadcastByLeader
  <2>4. /\ \A p \in Server : p # n => leader_id'[p] = leader_id[p] /\ role'[p] = role[p]
        /\ leader_id'[n] = n /\ role'[n] = "Leader"
      BY <2>2 DEF TypeOK
  <2>5. current_term'[n] >= current_term[n]
      BY DEF VotesKept
  <2>6. \A a \in term_leaders' : a \in term_leaders \/ a[1] = current_term[n]
      BY <2>2
  <2>7. <<current_term'[n], leader_id'[n]>> \in term_leaders'
      BY <2>2, <2>4
  <2>8. \A p \in Server : p # n => current_term'[p] = current_term[p]
      BY <2>2
  <2> QED BY <2>2, <2>3, <2>4, <2>5, <2>6, <2>7, <2>8, Zenon DEF Heedful
<1>2. CASE Handle(n, m, m.term, {}) /\ UNCHANGED <<termVars, histVars>>
  <2>1. in_flight' \subseteq in_flight
      BY <1>2, InFlight
  <2>2. UNCHANGED <<role, leader_id, current_term, term_leaders>>
      BY <1>2 DEF histVars, termVars
  <2> QED BY <2>1, <2>2, StillHeedful
<1>3. CASE Observe(n, m) /\ Handle(n, m, m.term, {}) /\ UNCHANGED histVars
  <2>1. in_flight' \subseteq in_flight
      BY <1>3, InFlight
  <2> QED BY <1>3, <2>1, ObserveHeedful DEF Observe, histVars
<1> QED BY <1>1, <1>2, <1>3 DEF handle_request_vote_response

\* Entries and snapshots.
LEMMA LeaderHeardHeedful ==
    ASSUME TypeOK, VotesKept, HintInv, NEW n \in Server, NEW m \in in_flight,
           \/ handle_append_entries_missing(n, m)
           \/ handle_append_entries_conflict(n, m)
           \/ handle_append_entries_accept(n, m)
           \/ handle_install_snapshot(n, m)
    PROVE  Heedful(n)
<1>1. /\ m.kind \in {"AppendEntries", "InstallSnapshot"} /\ Follow(n, m)
      /\ UNCHANGED term_leaders
    BY DEF handle_append_entries_missing, handle_append_entries_conflict,
       handle_append_entries_accept, handle_install_snapshot, Receives, histVars
<1>2. \A x \in in_flight' : x \in in_flight \/ FromLeader(term_leaders, x)
  <2>1. CASE handle_append_entries_missing(n, m)
    <3>1. in_flight' \subseteq in_flight \cup
              {AppendResponse(n, m.from, m.term, FALSE, None, last_index(log[n]) + 1)}
        BY <2>1, InFlight DEF handle_append_entries_missing
    <3> QED BY <3>1, SentByLeaders
  <2>2. CASE handle_append_entries_conflict(n, m)
    <3> DEFINE t == term_at(log[n], m.prev_log_index)
               i == first_of_run(log[n], m.prev_log_index, t)
    <3>1. in_flight' \subseteq in_flight \cup {AppendResponse(n, m.from, m.term, FALSE, t, i)}
        BY <2>2, InFlight DEF handle_append_entries_conflict
    <3> HIDE DEF t, i
    <3> QED BY <3>1, SentByLeaders
  <2>3. CASE handle_append_entries_accept(n, m)
    <3>1. in_flight' \subseteq in_flight \cup
              {AppendResponse(n, m.from, m.term, TRUE, None, None)}
        BY <2>3, InFlight, Zenon DEF handle_append_entries_accept
    <3> QED BY <3>1, SentByLeaders
  <2>4. CASE handle_install_snapshot(n, m)
    <3>1. in_flight' \subseteq in_flight \cup {SnapshotResponse(n, m.from, m.term)}
        BY <2>4, InFlight, Zenon DEF handle_install_snapshot
    <3> QED BY <3>1, SentByLeaders
  <2> QED BY <2>1, <2>2, <2>3, <2>4
<1> QED BY <1>1, <1>2, FollowHeedful

\* Answers to a leader.
LEMMA AnswerHeedful ==
    ASSUME TypeOK, VotesKept, HintInv, NEW n \in Server, NEW m \in Message,
           \/ handle_append_entries_response(n, m)
           \/ handle_install_snapshot_response(n, m)
    PROVE  Heedful(n)
<1> DEFINE next == backtracked_next(log[n], next_index[n][m.from], m)
           again == replicate_to_peer(n, m.from, current_term[n], log[n],
                                      commit_index[n], next)
           leads == role[n] = "Leader" /\ m.term = current_term[n]
<1>1. /\ UNCHANGED term_leaders
      /\ \/ /\ leads /\ Handle(n, m, m.term, {again}) /\ UNCHANGED termVars
         \/ Handle(n, m, m.term, {}) /\ UNCHANGED termVars
         \/ Handle(n, m, m.term, {}) /\ Observe(n, m)
  <2>1. CASE handle_append_entries_response(n, m)
      BY <2>1, Zenon DEF handle_append_entries_response
  <2>2. CASE handle_install_snapshot_response(n, m)
      BY <2>2 DEF handle_install_snapshot_response, histVars
  <2> QED BY <2>1, <2>2
<1>2. CASE leads /\ Handle(n, m, m.term, {again}) /\ UNCHANGED termVars
  <2>1. in_flight' \subseteq in_flight \cup {again}
      BY <1>2, InFlight
  <2>2. <<current_term[n], n>> \in term_leaders
      BY <1>2 DEF HintInv, LeadersAreListed
  <2>3. FromLeader(term_leaders, again)
    <3> HIDE DEF next
    <3> QED BY <2>2, SentByLeaders
  <2>4. UNCHANGED <<role, leader_id, current_term>>
      BY <1>2 DEF termVars
  <2> HIDE DEF again
  <2> QED BY <1>1, <2>1, <2>3, <2>4, StillHeedful
<1>3. CASE Handle(n, m, m.term, {}) /\ UNCHANGED termVars
  <2>1. in_flight' \subseteq in_flight
      BY <1>3, InFlight
  <2>2. UNCHANGED <<role, leader_id, current_term, term_leaders>>
      BY <1>1, <1>3 DEF termVars
  <2> QED BY <2>1, <2>2, StillHeedful
<1>4. CASE Handle(n, m, m.term, {}) /\ Observe(n, m)
  <2>1. in_flight' \subseteq in_flight
      BY <1>4, InFlight
  <2> QED BY <1>1, <1>4, <2>1, ObserveHeedful DEF Observe
<1> QED BY <1>1, <1>2, <1>3, <1>4

\* Every step of the cluster keeps the invariant.
LEMMA HintStep ==
    ASSUME TypeOK, ElectionInv, HintInv, [Next]_vars
    PROVE  HintInv'
<1>1. TypeOK'
    BY NextType
<1>2. VotesKept
    BY ElectionStep
<1>3. ASSUME NEW n \in Server, Heedful(n) PROVE HintInv'
    BY <1>1, <1>3, HeedfulStep
<1>4. ASSUME NEW m \in in_flight, Deliver(m.to, m) PROVE HintInv'
  <2> DEFINE n == m.to
  <2>1. m \in Message /\ n \in Server
      BY MessageFields DEF TypeOK
  <2> HIDE DEF n
  <2>2. CASE handle_pre_vote(n, m) \/ handle_pre_vote_response(n, m)
      BY <1>2, <1>3, <2>1, <2>2, PreVoteHeedful
  <2>3. CASE handle_request_vote(n, m)
      BY <1>2, <1>3, <2>1, <2>3, RequestVoteHeedful
  <2>4. CASE handle_request_vote_response(n, m)
      BY <1>2, <1>3, <2>1, <2>4, VoteCountedHeedful
  <2>5. CASE \/ handle_append_entries_missing(n, m)
             \/ handle_append_entries_conflict(n, m)
             \/ handle_append_entries_accept(n, m)
             \/ handle_install_snapshot(n, m)
      BY <1>2, <1>3, <2>1, <2>5, LeaderHeardHeedful
  <2>6. CASE \/ handle_append_entries_response(n, m)
             \/ handle_install_snapshot_response(n, m)
      BY <1>2, <1>3, <2>1, <2>6, AnswerHeedful
  <2> QED BY <1>4, <2>2, <2>3, <2>4, <2>5, <2>6 DEF Deliver, n
<1>5. CASE UNCHANGED vars
  <2>1. UNCHANGED <<role, leader_id, current_term, term_leaders, in_flight>>
      BY <1>5 DEF vars, nodeVars, termVars, histVars
  <2> QED BY <2>1, Zenon DEF HintInv, LeadersSend, HeardOfLeaders, TermsAreReal,
          LeadersAreListed
<1>6. ASSUME NEW n \in Server,
             \/ tick_idle(n) \/ tick_election_timeout(n) \/ tick_leader(n)
             \/ (\E c \in Command : propose_command(n, c)) \/ compaction_pass(n)
      PROVE  HintInv'
    BY <1>3, <1>6, LocalHeedful
<1>7. ASSUME NEW n \in Server, crash_node(n) \/ spawn_node(n) PROVE HintInv'
    BY <1>2, <1>3, <1>7, FaultHeedful
<1>8. ASSUME NEW m \in in_flight, drop_message(m) PROVE HintInv'
  <2>1. m.to \in Server
      BY MessageFields DEF TypeOK
  <2> QED BY <1>2, <1>3, <1>8, <2>1, FaultHeedful
<1> QED BY <1>4, <1>5, <1>6, <1>7, <1>8 DEF Next

\* The list of leaders only grows.
LEMMA LeadersStayListed ==
    ASSUME TypeOK, ElectionInv, HintInv, [Next]_vars
    PROVE  term_leaders \subseteq term_leaders'
<1>1. ASSUME NEW n \in Server, Heedful(n) PROVE term_leaders \subseteq term_leaders'
    BY <1>1 DEF Heedful
<1>2. VotesKept
    BY ElectionStep
<1>3. ASSUME NEW m \in in_flight, Deliver(m.to, m) PROVE term_leaders \subseteq term_leaders'
    BY <1>3 DEF Deliver, histVars, handle_pre_vote, handle_pre_vote_response,
       start_real_election, handle_request_vote, handle_request_vote_response, become_leader,
       handle_append_entries_missing, handle_append_entries_conflict,
       handle_append_entries_accept, handle_append_entries_response,
       handle_install_snapshot, handle_install_snapshot_response
<1>4. CASE UNCHANGED vars
    BY <1>4 DEF vars, nodeVars, histVars
<1>5. ASSUME NEW m \in in_flight, drop_message(m) PROVE term_leaders \subseteq term_leaders'
    BY <1>5 DEF drop_message, histVars
<1> QED BY <1>1, <1>2, <1>3, <1>4, <1>5, LocalHeedful, FaultHeedful DEF Next

------------------------------------------------------------------------------
(* raft-servers, whatever they read back.                                   *)

\* A server comes back from its files with a log, as its replay_wal reads it.
LEMMA RestartType ==
    ASSUME TypeOK, NEW n \in Server, restart_server(n)
    PROVE  TypeOK'
<1>1. disk[n] \in Disk /\ log[n] \in Log /\ log[n] \in Seq(LogEntry) /\ log[n] # << >>
    BY LogType DEF TypeOK, Log
<1>2. PICK entries \in replay_wal(Tail(log[n])) :
          LET l == restore_log(SnapshotMeta(0, 0), entries)
          IN  /\ restore(n, disk[n].current_term, disk[n].voted_for, l, 0)
              /\ disk' = [disk EXCEPT ![n].log_entries = l]
    BY DEF restart_server
<1> DEFINE l == restore_log(SnapshotMeta(0, 0), entries)
<1>3. entries \in Seq(LogEntry)
  <2>1. PICK k \in 0..Len(Tail(log[n])), p \in Padding \cup {<< >>} :
            entries = SubSeq(Tail(log[n]), 1, k) \o p
      BY DEF replay_wal
  <2>2. Tail(log[n]) \in Seq(LogEntry)
      BY <1>1, HeadTailProperties
  <2>3. SubSeq(Tail(log[n]), 1, k) \in Seq(LogEntry)
      BY <2>1, <2>2, SubSeqType
  <2>4. p \in Seq(LogEntry)
    <3>1. << >> \in Seq(LogEntry)
        OBVIOUS
    <3>2. p = << >> \/ p \in Padding
        BY <2>1, Zenon
    <3> QED BY <3>1, <3>2, PaddingAssumption, Zenon
  <2> QED BY <2>1, <2>3, <2>4
<1>4. l \in Log
    BY <1>3, RestoreType
<1>5. /\ alive' = alive \cup {n}
      /\ current_term' = [current_term EXCEPT ![n] = disk[n].current_term]
      /\ voted_for' = [voted_for EXCEPT ![n] = disk[n].voted_for]
      /\ log' = [log EXCEPT ![n] = l]
      /\ commit_index' = [commit_index EXCEPT ![n] = 0]
      /\ last_applied' = [last_applied EXCEPT ![n] = 0]
      /\ disk' = [disk EXCEPT ![n] = [disk[n] EXCEPT !.log_entries = l]]
    BY <1>2 DEF restart_server, restore
<1>6. disk[n].current_term \in Nat /\ disk[n].voted_for \in OptServer
    BY <1>1 DEF Disk
<1>7. [disk[n] EXCEPT !.log_entries = l] \in Disk
    BY <1>1, <1>4 DEF Disk
<1> HIDE DEF l
<1>8. /\ alive' \in SUBSET Server /\ current_term' \in [Server -> Nat]
      /\ voted_for' \in [Server -> OptServer] /\ log' \in [Server -> Log]
      /\ commit_index' \in [Server -> Nat] /\ last_applied' \in [Server -> Nat]
      /\ disk' \in [Server -> Disk]
    BY <1>4, <1>5, <1>6, <1>7 DEF TypeOK
<1>9. None \in OptServer
    BY DEF OptServer
<1> QED BY <1>2, <1>8, <1>9 DEF TypeOK, restart_server, restore, histVars

\* Its term and its vote are those it had.
LEMMA RestartQuiet ==
    ASSUME TypeOK, ElectionInv, NEW n \in Server, restart_server(n)
    PROVE  Quiet
<1>1. /\ current_term' = [current_term EXCEPT ![n] = disk[n].current_term]
      /\ voted_for' = [voted_for EXCEPT ![n] = disk[n].voted_for]
      /\ role' = [role EXCEPT ![n] = "Follower"]
      /\ votes_received' = [votes_received EXCEPT ![n] = {}]
      /\ UNCHANGED <<in_flight, histVars>>
    BY DEF restart_server, restore
<1>2. \A p \in Server : /\ disk'[p].current_term = disk[p].current_term
                        /\ disk'[p].voted_for = disk[p].voted_for
  <2>1. PICK l : disk' = [disk EXCEPT ![n].log_entries = l]
      BY DEF restart_server
  <2> DEFINE d == [disk[n] EXCEPT !.log_entries = l]
  <2>2. disk[n] \in Disk
      BY DEF TypeOK
  <2>3. d.current_term = disk[n].current_term /\ d.voted_for = disk[n].voted_for
      BY <2>2 DEF Disk
  <2>4. disk' = [disk EXCEPT ![n] = d]
      BY <2>1
  <2> HIDE DEF d
  <2> QED BY <2>3, <2>4, LogWrite
<1>3. disk[n].current_term = current_term[n] /\ disk[n].voted_for = voted_for[n]
    BY DEF ElectionInv, HardStateOnDisk
<1>4. UNCHANGED <<current_term, voted_for>>
    BY <1>1, <1>3 DEF TypeOK
<1>5. \A p \in Server : role'[p] = "Candidate" =>
          /\ role[p] = "Candidate"
          /\ \A q \in votes_received'[p] : q \in votes_received[p]
    BY <1>1 DEF TypeOK
<1> QED BY <1>1, <1>2, <1>4, <1>5, StillStep DEF histVars

\* It has forgotten who leads, too.
LEMMA RestartHeedful ==
    ASSUME TypeOK, VotesKept, NEW n \in Server, restart_server(n)
    PROVE  Heedful(n)
<1>1. /\ role' = [role EXCEPT ![n] = "Follower"]
      /\ current_term' = [current_term EXCEPT ![n] = disk[n].current_term]
      /\ leader_id' = [leader_id EXCEPT ![n] = None]
      /\ UNCHANGED <<in_flight, term_leaders>>
    BY DEF restart_server, restore, histVars
<1>2. current_term'[n] >= current_term[n]
    BY DEF VotesKept
<1>3. /\ \A p \in Server : p # n => /\ leader_id'[p] = leader_id[p]
                                    /\ current_term'[p] = current_term[p]
                                    /\ role'[p] = role[p]
      /\ leader_id'[n] = None /\ role'[n] = "Follower"
    BY <1>1 DEF TypeOK
<1> QED BY <1>1, <1>2, <1>3 DEF Heedful

\* A step of the cluster is one of the nodes, an answer, or such a restart.
LEMMA ClusterStepIs ==
    ASSUME [ClusterNext]_clusterVars
    PROVE  [Next]_vars \/ \E n \in Server : restart_server(n)
<1>1. ASSUME NEW n \in Server, NEW c \in Command, client_request_accepted(n, c) PROVE Next
    BY <1>1 DEF client_request_accepted, Next
<1>2. ASSUME NEW n \in Server, NEW c \in Command, client_request_redirected(n, c)
      PROVE  UNCHANGED vars
    BY <1>2 DEF client_request_redirected
<1>3. ServerStep => Next
    BY DEF ServerStep, Next
<1>4. UNCHANGED clusterVars => UNCHANGED vars
    BY DEF clusterVars
<1> QED BY <1>1, <1>2, <1>3, <1>4 DEF ClusterNext

\* What is known of terms, votes and leaders holds in ServerCluster too.
ServersInv == TypeOK /\ ElectionInv /\ HintInv

LEMMA ServersStep ==
    ASSUME ServersInv, [ClusterNext]_clusterVars
    PROVE  ServersInv' /\ term_leaders \subseteq term_leaders'
<1>1. CASE [Next]_vars
    BY <1>1, NextType, ElectionStep, HintStep, LeadersStayListed DEF ServersInv
<1>2. ASSUME NEW n \in Server, restart_server(n)
      PROVE  ServersInv' /\ term_leaders \subseteq term_leaders'
  <2>1. TypeOK' /\ Quiet
      BY <1>2, RestartType, RestartQuiet DEF ServersInv
  <2>2. ElectionInv' /\ Heedful(n)
      BY <1>2, <2>1, QuietStep, RestartHeedful DEF ServersInv, Quiet
  <2> QED BY <2>1, <2>2, HeedfulStep DEF ServersInv, Heedful
<1> QED BY <1>1, <1>2, ClusterStepIs

LEMMA ServersInit == ClusterInit => ServersInv
<1> SUFFICES ASSUME ClusterInit PROVE ServersInv
    OBVIOUS
<1>1. TypeOK /\ ElectionInv
    BY InitType, ElectionInit DEF ClusterInit
<1>2. HintInv
    BY DEF ClusterInit, Init, HintInv, LeadersSend, HeardOfLeaders, TermsAreReal,
       LeadersAreListed
<1> QED BY <1>1, <1>2 DEF ServersInv

\* README.md:44, "at most one leader per term", for every cluster of raft-servers,
\* whatever their replay_wal makes of their logs: two nodes never lead one term.
THEOREM ServersElectOne == ClusterSpec => []ElectionSafety
<1>1. ServersInv /\ [ClusterNext]_clusterVars => ServersInv'
    BY ServersStep
<1>2. ServersInv => ElectionSafety
    BY InvImpliesSafety DEF ServersInv
<1> QED BY <1>1, <1>2, ServersInit, PTL DEF ClusterSpec

\* An answer names the node itself, which leads, or the leader it has heard of.
LEMMA AnswersHint ==
    ASSUME ServersInv, HintWasElected, [ClusterNext]_clusterVars
    PROVE  HintWasElected'
<1> SUFFICES ASSUME NEW a \in answers', a.leader_hint # None
             PROVE  \E t \in 1..a.term : <<t, a.leader_hint>> \in term_leaders'
    BY DEF HintWasElected
<1>1. term_leaders \subseteq term_leaders'
    BY ServersStep
<1>2. CASE a \in answers
    BY <1>1, <1>2 DEF HintWasElected
<1>3. ASSUME NEW n \in Server, NEW c \in Command, client_request_accepted(n, c), a \notin answers
      PROVE  \E t \in 1..a.term : <<t, a.leader_hint>> \in term_leaders'
  <2>1. a.leader_hint = n /\ a.term = current_term[n] /\ role[n] = "Leader"
      BY <1>3 DEF client_request_accepted, ClientResponse, propose_command, propose
  <2>2. <<current_term[n], n>> \in term_leaders /\ current_term[n] \in Nat
      BY <2>1 DEF ServersInv, HintInv, LeadersAreListed, TypeOK
  <2>3. <<current_term[n], n>>[1] >= 1
      BY <2>2 DEF ServersInv, HintInv, TermsAreReal
  <2>4. current_term[n] \in 1..current_term[n]
      BY <2>2, <2>3
  <2> QED BY <1>1, <2>1, <2>2, <2>4
<1>4. ASSUME NEW n \in Server, NEW c \in Command, client_request_redirected(n, c), a \notin answers
      PROVE  \E t \in 1..a.term : <<t, a.leader_hint>> \in term_leaders'
  <2>1. a.leader_hint = leader_id[n] /\ a.term = current_term[n]
      BY <1>4 DEF client_request_redirected, ClientResponse
  <2>2. \E t \in 1..current_term[n] : <<t, leader_id[n]>> \in term_leaders
      BY <2>1 DEF ServersInv, HintInv, HeardOfLeaders, ElectedUntil
  <2> QED BY <1>1, <2>1, <2>2
<1>5. CASE UNCHANGED answers
    BY <1>2, <1>5
<1> QED BY <1>2, <1>3, <1>4, <1>5 DEF ClusterNext, clusterVars, restart_server

\* README.md:38, "automatic leader hinting", for every cluster, any number of
\* clients, kills, losses and duplicates, with SelfInPeers or without, and whatever
\* a killed server reads back: the node a client is sent to was elected in the term
\* of the answer or before it.
THEOREM HintsNameLeaders == ClusterSpec => []HintWasElected
<1>1. ServersInv /\ HintWasElected /\ [ClusterNext]_clusterVars
          => ServersInv' /\ HintWasElected'
    BY ServersStep, AnswersHint
<1>2. ClusterInit => ServersInv /\ HintWasElected
    BY ServersInit DEF ClusterInit, HintWasElected
<1> QED BY <1>1, <1>2, PTL DEF ClusterSpec
==============================================================================
