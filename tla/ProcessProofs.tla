---------------------------- MODULE ProcessProofs ----------------------------
(***************************************************************************)
(* Proof that a server process keeps its votes (ServerProcess), for every  *)
(* cluster without a node 0, every sector size, log and number of crashes. *)
(***************************************************************************)
EXTENDS ServerProcess, SequenceTheorems, TLAPS

OptId == Ids \cup {None}

\* The hard state <<t, v>> honours every vote that was sent.
Honours(t, v) == \A p \in promised : t > p[1] \/ (t = p[1] /\ v = p[2])

\* A restart would find term t and vote v.
Stored(t, v) ==
    LET read == read_hard_state(hs)
    IN  read.term = t /\ read.voted_for = v

\* No stored hard state and no vote in the queue from place k on.
QuietFrom(k) ==
    \A j \in DOMAIN queue :
        j >= k => queue[j].type \notin {"PersistHardState", "SendVote"}

(* The Actions under way, as far as term and vote are concerned: what is     *)
(* still to be stored ends at the hard state in memory, and a vote leaves    *)
(* behind the Action that stores it.                                         *)

AllStored == QuietFrom(1) /\ Stored(term, vote)

StoringFirst ==
    /\ Len(queue) >= 1 /\ queue[1] = Persist(term, vote) /\ QuietFrom(2)

VoteStored ==
    /\ Len(queue) = 1 /\ queue[1] = SendVote(term, vote)
    /\ Stored(term, vote) /\ vote \in Ids

VoteStoring ==
    /\ Len(queue) = 2 /\ queue[1] = Persist(term, vote)
    /\ queue[2] = SendVote(term, vote) /\ vote \in Ids

TermStoring ==
    /\ Len(queue) = 3 /\ queue[1] = Persist(term, None)
    /\ queue[2] = Persist(term, vote) /\ queue[3] = SendVote(term, vote)
    /\ vote \in Ids /\ Honours(term, None)

ProcessTypes ==
    /\ up \in BOOLEAN /\ term \in Nat /\ vote \in OptId
    /\ promised \subseteq Nat \X Ids
    /\ \E S : queue \in Seq(S)
    /\ hs = None \/ hs \in [term : Nat, voted : Ids \cup {0}]

ProcessInv ==
    /\ ProcessTypes
    /\ VotePromisesKept
    /\ ~up => queue = << >>
    /\ up => /\ Honours(term, vote)
             /\ \/ AllStored \/ StoringFirst \/ VoteStored
                \/ VoteStoring \/ TermStoring
------------------------------------------------------------------------------
\* What is written is read back, unless it is a vote for node 0.
LEMMA WrittenIsRead ==
    ASSUME 0 \notin Ids, NEW t \in Nat, NEW v \in OptId
    PROVE  LET w == write_hard_state(t, v)
           IN  /\ w \in [term : Nat, voted : Ids \cup {0}]
               /\ read_hard_state(w) = [term |-> t, voted_for |-> v]
<1> DEFINE w == write_hard_state(t, v)
<1>1. w \in [term : Nat, voted : Ids \cup {0}]
    BY DEF write_hard_state, OptId
<1>2. w # None
    <2>1. w \in [term : Nat, voted : Nat]
        BY ProcessAssumption DEF write_hard_state, OptId
    <2> QED
        BY <2>1, ProcessAssumption
<1>3. w.term = t /\ w.voted = IF v = None THEN 0 ELSE v
    BY DEF write_hard_state
<1>4. (IF w.voted = 0 THEN None ELSE w.voted) = v
    BY <1>3, ProcessAssumption DEF OptId
<1> QED
    BY <1>1, <1>2, <1>3, <1>4, Zenon DEF read_hard_state

\* What is read is a term and a vote.
LEMMA ReadTypes ==
    ASSUME hs = None \/ hs \in [term : Nat, voted : Ids \cup {0}]
    PROVE  /\ read_hard_state(hs).term \in Nat
           /\ read_hard_state(hs).voted_for \in OptId
<1>1. CASE hs = None
    BY <1>1 DEF read_hard_state, OptId
<1>2. CASE hs \in [term : Nat, voted : Ids \cup {0}]
    BY <1>2 DEF read_hard_state, OptId
<1> QED
    BY <1>1, <1>2

\* The tail of the queue.
LEMMA TailIs ==
    ASSUME NEW S, NEW q \in Seq(S), q # << >>
    PROVE  /\ Len(q) >= 1 /\ Len(q) \in Nat /\ Tail(q) \in Seq(S)
           /\ Len(Tail(q)) = Len(q) - 1
           /\ \A j \in DOMAIN Tail(q) : j + 1 \in DOMAIN q /\ Tail(q)[j] = q[j + 1]
OBVIOUS

\* One Action before two others.
LEMMA OneBeforeTwo ==
    ASSUME NEW x, NEW y, NEW z
    PROVE  <<x>> \o <<y, z>> = <<x, y, z>>
<1> DEFINE S == {x, y, z}
           p == <<x>>
           q == <<y, z>>
           r == p \o q
<1>1. p \in Seq(S) /\ q \in Seq(S) /\ Len(p) = 1 /\ Len(q) = 2
    OBVIOUS
<1>2. p[1] = x /\ q[1] = y /\ q[2] = z
    OBVIOUS
<1>3. r \in Seq(S) /\ Len(r) = 3 /\ r[1] = p[1] /\ r[2] = q[1] /\ r[3] = q[2]
    <2> HIDE DEF S, p, q
    <2>1. /\ p \o q \in Seq(S) /\ Len(p \o q) = Len(p) + Len(q)
          /\ \A i \in 1 .. Len(p) + Len(q) :
                 (p \o q)[i] = IF i <= Len(p) THEN p[i] ELSE q[i - Len(p)]
        BY <1>1, ConcatProperties
    <2> QED
        BY <1>1, <2>1
<1> HIDE DEF r, S, p, q
<1>4. r = <<x, y, z>>
    BY <1>2, <1>3
<1> QED
    BY <1>4 DEF r, p, q

\* A newer term honours every vote, whatever is voted in it.
LEMMA NewerHonours ==
    ASSUME ProcessTypes, Honours(term, vote), NEW t \in Nat, t > term, NEW v
    PROVE  Honours(t, v)
<1> SUFFICES ASSUME NEW p \in promised
             PROVE  t > p[1]
    BY DEF Honours
<1>1. p[1] \in Nat /\ term \in Nat
    BY DEF ProcessTypes
<1>2. term > p[1] \/ term = p[1]
    BY DEF Honours
<1> QED
    BY <1>1, <1>2

\* Nothing is under way between two events: the file holds the hard state.
LEMMA IdleIsStored ==
    ASSUME ProcessInv, Idle
    PROVE  AllStored /\ Honours(term, vote)
<1>1. up /\ queue = << >> /\ Len(queue) = 0
    BY DEF Idle
<1> QED
    BY <1>1 DEF ProcessInv, StoringFirst, VoteStored, VoteStoring, TermStoring
------------------------------------------------------------------------------
\* A vote that is granted: the term if it is new, then the vote, are stored
\* before the answer is sent.
LEMMA RequestVoteKeeps ==
    ASSUME ProcessInv, NEW t \in Nat, NEW c \in Ids, request_vote(t, c)
    PROVE  ProcessInv'
<1>1. AllStored /\ Honours(term, vote) /\ ProcessTypes /\ VotePromisesKept
    BY IdleIsStored DEF request_vote, ProcessInv
<1>2. /\ up' = up /\ up /\ term' = t /\ vote' = c /\ t >= term
      /\ hs' = hs /\ promised' = promised
      /\ t = term => vote \in {None, c}
    BY DEF request_vote, Idle, history
<1>3. Honours(t, c)
    <2>1. CASE t > term
        BY <1>1, <2>1, NewerHonours
    <2>2. CASE t = term
        <3>1. \A p \in promised : p[2] # None
            BY <1>1, ProcessAssumption DEF ProcessTypes
        <3> QED
            BY <1>1, <1>2, <2>2, <3>1 DEF Honours
    <2> QED
        BY <1>1, <1>2, <2>1, <2>2 DEF ProcessTypes
<1>4. VotePromisesKept' /\ Honours(term, vote)'
    BY <1>1, <1>2, <1>3 DEF VotePromisesKept, Honours
<1> DEFINE a == Persist(t, None)
           b == Persist(t, c)
           d == SendVote(t, c)
<1>5. CASE t > term
    <2>1. queue' = <<a, b, d>>
        <3>1. queue' = <<a>> \o <<b, d>>
            BY <1>5, Zenon DEF request_vote, Observed, granted
        <3> HIDE DEF a, b, d
        <3> QED
            BY <3>1, OneBeforeTwo, Zenon
    <2>2. /\ Len(queue') = 3 /\ queue' \in Seq({a, b, d})
          /\ queue'[1] = a /\ queue'[2] = b /\ queue'[3] = d
        <3> HIDE DEF a, b, d
        <3> QED
            BY <2>1
    <2>3. Honours(t, None)'
        BY <1>1, <1>2, <1>5, NewerHonours DEF Honours
    <2>4. TermStoring'
        BY <1>2, <2>2, <2>3 DEF TermStoring
    <2>5. ProcessTypes'
        BY <1>1, <1>2, <2>2, Zenon DEF ProcessTypes, OptId
    <2> QED
        BY <1>2, <1>4, <2>4, <2>5, Zenon DEF ProcessInv
<1>6. CASE ~(t > term)
    <2>1. queue' = <<b, d>>
        BY <1>6 DEF request_vote, Observed, granted
    <2>2. /\ Len(queue') = 2 /\ queue' \in Seq({b, d})
          /\ queue'[1] = b /\ queue'[2] = d
        <3> HIDE DEF a, b, d
        <3> QED
            BY <2>1
    <2>4. VoteStoring'
        BY <1>2, <2>2 DEF VoteStoring
    <2>5. ProcessTypes'
        BY <1>1, <1>2, <2>2, Zenon DEF ProcessTypes, OptId
    <2> QED
        BY <1>2, <1>4, <2>4, <2>5, Zenon DEF ProcessInv
<1> QED
    BY <1>5, <1>6

\* A candidate's vote for itself is stored before it asks for others.
LEMMA ElectionKeeps ==
    ASSUME ProcessInv, start_real_election
    PROVE  ProcessInv'
<1>1. AllStored /\ Honours(term, vote) /\ ProcessTypes /\ VotePromisesKept
    BY IdleIsStored DEF start_real_election, ProcessInv
<1>2. /\ up' = up /\ up /\ term' = term + 1 /\ vote' = Id
      /\ hs' = hs /\ promised' = promised /\ Id \in Ids
    BY ProcessAssumption DEF start_real_election, Idle, history
<1>3. Honours(term + 1, Id)
    BY <1>1, NewerHonours DEF ProcessTypes
<1>4. VotePromisesKept' /\ Honours(term, vote)'
    BY <1>1, <1>2, <1>3 DEF VotePromisesKept, Honours
<1> DEFINE b == Persist(term + 1, Id)
           d == SendVote(term + 1, Id)
<1>5. queue' = <<b, d>>
    BY DEF start_real_election, granted
<1>6. /\ Len(queue') = 2 /\ queue' \in Seq({b, d})
      /\ queue'[1] = b /\ queue'[2] = d
    <2> HIDE DEF b, d
    <2> QED
        BY <1>5
<1>7. VoteStoring'
    BY <1>2, <1>6 DEF VoteStoring
<1>8. term' \in Nat /\ vote' \in OptId
    BY <1>1, <1>2 DEF ProcessTypes, OptId
<1>9. ProcessTypes'
    BY <1>1, <1>2, <1>6, <1>8, Zenon DEF ProcessTypes
<1> QED
    BY <1>2, <1>4, <1>7, <1>9, Zenon DEF ProcessInv

\* A newer term is stored before anything else is done about it.
LEMMA RefuseKeeps ==
    ASSUME ProcessInv, NEW t \in Nat, refuse_vote(t)
    PROVE  ProcessInv'
<1>1. AllStored /\ Honours(term, vote) /\ ProcessTypes /\ VotePromisesKept
    BY IdleIsStored DEF refuse_vote, ProcessInv
<1>2. /\ up' = up /\ up /\ term' = t /\ vote' = None /\ t > term
      /\ hs' = hs /\ promised' = promised
    BY DEF refuse_vote, Idle, history
<1>3. Honours(t, None)
    BY <1>1, <1>2, NewerHonours
<1>4. VotePromisesKept' /\ Honours(term, vote)'
    BY <1>1, <1>2, <1>3 DEF VotePromisesKept, Honours
<1> DEFINE a == Persist(t, None)
<1>5. queue' = <<a>>
    BY <1>2 DEF refuse_vote, Observed
<1>6. Len(queue') = 1 /\ queue' \in Seq({a}) /\ queue'[1] = a /\ DOMAIN queue' = {1}
    <2> HIDE DEF a
    <2> QED
        BY <1>5
<1>7. StoringFirst'
    BY <1>2, <1>6 DEF StoringFirst, QuietFrom
<1>8. ProcessTypes'
    BY <1>1, <1>2, <1>6, Zenon DEF ProcessTypes, OptId
<1> QED
    BY <1>2, <1>4, <1>7, <1>8, Zenon DEF ProcessInv

\* A leader's append leaves the hard state alone.
LEMMA LeadKeeps ==
    ASSUME ProcessInv, NEW c, lead(c)
    PROVE  ProcessInv'
<1>1. AllStored /\ Honours(term, vote) /\ ProcessTypes /\ VotePromisesKept
    BY IdleIsStored DEF lead, ProcessInv
<1>2. /\ up' = up /\ up /\ UNCHANGED <<term, vote, hs, promised>>
    BY DEF lead, Idle, history
<1> DEFINE a == AppendAction(<<entry(last_index(log) + 1, term, c)>>)
<1>3. queue' = <<a, SendLog>>
    BY DEF lead
<1>4. a.type = "AppendEntries" /\ SendLog.type = "SendLog"
    BY DEF AppendAction, SendLog
<1>5. /\ queue' \in Seq({a, SendLog}) /\ DOMAIN queue' = {1, 2}
      /\ queue'[1] = a /\ queue'[2] = SendLog
    <2> HIDE DEF a
    <2> QED
        BY <1>3
<1>6. QuietFrom(1)'
    <2> HIDE DEF a
    <2> QED
        BY <1>4, <1>5 DEF QuietFrom
<1>7. AllStored'
    BY <1>1, <1>2, <1>6, Zenon DEF AllStored, Stored
<1>8. ProcessTypes' /\ VotePromisesKept' /\ Honours(term, vote)'
    <2> HIDE DEF a
    <2> QED
        BY <1>1, <1>2, <1>5, Zenon DEF ProcessTypes, VotePromisesKept, Honours
<1> QED
    BY <1>2, <1>7, <1>8, Zenon DEF ProcessInv

\* A leader's entries: a newer term is stored before the log is rewritten.
LEMMA AppendKeeps ==
    ASSUME ProcessInv, NEW t \in Nat, NEW i, NEW new, append_entries(t, i, new)
    PROVE  ProcessInv'
<1> DEFINE es == [k \in DOMAIN new |-> entry(i + k - 1, new[k].term, new[k].command)]
           a == Persist(t, None)
           b == Truncate(i, es)
<1>1. AllStored /\ Honours(term, vote) /\ ProcessTypes /\ VotePromisesKept
    BY IdleIsStored DEF append_entries, ProcessInv
<1>2. /\ up' = up /\ up /\ term' = t /\ t >= term
      /\ vote' = (IF t > term THEN None ELSE vote)
      /\ hs' = hs /\ promised' = promised
      /\ queue' = Observed(t) \o <<b, SendLog>>
    BY Zenon DEF append_entries, Idle
<1>3. b.type = "TruncateAndAppend" /\ SendLog.type = "SendLog"
    BY DEF Truncate, SendLog
<1> HIDE DEF b
<1>4. CASE t > term
    <2>1. queue' = <<a, b, SendLog>>
        <3>1. Observed(t) = <<a>>
            BY <1>4 DEF Observed
        <3> HIDE DEF a
        <3> QED
            BY <1>2, <3>1, OneBeforeTwo, Zenon
    <2>2. /\ queue' \in Seq({a, b, SendLog}) /\ DOMAIN queue' = {1, 2, 3} /\ Len(queue') = 3
          /\ queue'[1] = a /\ queue'[2] = b /\ queue'[3] = SendLog
        <3> HIDE DEF a
        <3> QED
            BY <2>1
    <2>3. StoringFirst'
        BY <1>2, <1>3, <1>4, <2>2 DEF StoringFirst, QuietFrom
    <2>4. vote' = None
        BY <1>2, <1>4
    <2>5. Honours(t, None)
        BY <1>1, <1>4, NewerHonours
    <2>6. VotePromisesKept' /\ Honours(term, vote)'
        BY <1>1, <1>2, <2>4, <2>5, Zenon DEF VotePromisesKept, Honours
    <2>7. ProcessTypes'
        BY <1>1, <1>2, <2>2, <2>4, Zenon DEF ProcessTypes, OptId
    <2> QED
        BY <1>2, <2>3, <2>6, <2>7, Zenon DEF ProcessInv
<1>5. CASE ~(t > term)
    <2>1. queue' = <<b, SendLog>> /\ t = term /\ vote' = vote
        <3>1. Observed(t) = << >>
            BY <1>5, Zenon DEF Observed
        <3>2. << >> \o <<b, SendLog>> = <<b, SendLog>>
            OBVIOUS
        <3>3. t = term /\ vote' = vote
            BY <1>1, <1>2, <1>5 DEF ProcessTypes
        <3> QED
            BY <1>2, <3>1, <3>2, <3>3, Zenon
    <2>2. /\ queue' \in Seq({b, SendLog}) /\ DOMAIN queue' = {1, 2}
          /\ queue'[1] = b /\ queue'[2] = SendLog
        BY <2>1
    <2>3. QuietFrom(1)'
        BY <1>3, <2>2 DEF QuietFrom
    <2>4. UNCHANGED <<term, vote, hs, promised>>
        BY <1>2, <2>1
    <2>5. AllStored'
        BY <1>1, <2>4, <2>3, Zenon DEF AllStored, Stored
    <2>6. ProcessTypes' /\ VotePromisesKept' /\ Honours(term, vote)'
        BY <1>1, <1>2, <2>4, <2>2, Zenon DEF ProcessTypes, VotePromisesKept, Honours
    <2> QED
        BY <1>2, <2>5, <2>6, Zenon DEF ProcessInv
<1> QED
    BY <1>4, <1>5
------------------------------------------------------------------------------
\* persist_hard_state stores a hard state that honours every vote: the one in
\* memory, or its term alone before a vote of it was sent.
LEMMA PersistKeeps ==
    ASSUME 0 \notin Ids, ProcessInv, persist_hard_state
    PROVE  ProcessInv'
<1>1. /\ up /\ queue # << >> /\ queue[1].type = "PersistHardState"
      /\ hs' = write_hard_state(queue[1].term, queue[1].voted_for)
      /\ queue' = Tail(queue) /\ UNCHANGED <<up, term, vote, promised>>
    BY DEF persist_hard_state, Doing, memory, history
<1>2. ProcessTypes /\ Honours(term, vote)
    BY <1>1 DEF ProcessInv
<1>3. PICK S : queue \in Seq(S)
    BY <1>2 DEF ProcessTypes
<1>4. /\ Len(queue) >= 1 /\ Len(queue) \in Nat /\ queue' \in Seq(S)
      /\ Len(queue') = Len(queue) - 1 /\ DOMAIN queue' = 1..Len(queue')
      /\ \A j \in DOMAIN queue' : j + 1 \in DOMAIN queue /\ queue'[j] = queue[j + 1]
    BY <1>1, <1>3, TailIs
<1>5. ASSUME NEW v \in OptId, queue[1] = Persist(term, v), Honours(term, v)
      PROVE  ProcessTypes' /\ VotePromisesKept' /\ Honours(term, vote)' /\ Stored(term, v)'
    <2>1. queue[1].term = term /\ queue[1].voted_for = v /\ term \in Nat
        BY <1>2, <1>5 DEF Persist, ProcessTypes
    <2>2. /\ hs' \in [term : Nat, voted : Ids \cup {0}]
          /\ read_hard_state(hs') = [term |-> term, voted_for |-> v]
        BY <1>1, <2>1, WrittenIsRead
    <2>3. read_hard_state(hs').term = term /\ read_hard_state(hs').voted_for = v
        BY <2>2
    <2>4. ProcessTypes'
        BY <1>1, <1>2, <1>4, <2>2, Zenon DEF ProcessTypes
    <2>5. VotePromisesKept' /\ Honours(term, vote)'
        BY <1>1, <1>2, <1>5, <2>3, Zenon DEF VotePromisesKept, Honours
    <2>6. Stored(term, v)'
        BY <1>1, <2>3, Zenon DEF Stored
    <2> QED
        BY <2>4, <2>5, <2>6
<1>6. vote \in OptId /\ None \in OptId
    BY <1>2 DEF ProcessTypes, OptId
<1>7. CASE AllStored
    BY <1>1, <1>4, <1>7 DEF AllStored, QuietFrom
<1>8. CASE StoringFirst
    <2>1. QuietFrom(1)'
        BY <1>4, <1>8 DEF StoringFirst, QuietFrom
    <2>2. ProcessTypes' /\ VotePromisesKept' /\ Honours(term, vote)' /\ Stored(term, vote)'
        BY <1>1, <1>2, <1>5, <1>6, <1>8, Zenon DEF StoringFirst, Stored
    <2> QED
        BY <1>1, <2>1, <2>2, Zenon DEF ProcessInv, AllStored, Stored
<1>9. CASE VoteStored
    BY <1>1, <1>9 DEF VoteStored, SendVote
<1>10. CASE VoteStoring
    <2>1. ProcessTypes' /\ VotePromisesKept' /\ Honours(term, vote)' /\ Stored(term, vote)'
        BY <1>1, <1>2, <1>5, <1>6, <1>10, Zenon DEF VoteStoring, Stored
    <2>2. Len(queue') = 1 /\ queue'[1] = SendVote(term, vote) /\ vote \in Ids
        BY <1>4, <1>10 DEF VoteStoring
    <2>3. VoteStored'
        BY <1>1, <2>1, <2>2, Zenon DEF VoteStored, Stored
    <2> QED
        BY <1>1, <2>1, <2>3, Zenon DEF ProcessInv
<1>11. CASE TermStoring
    <2>1. ProcessTypes' /\ VotePromisesKept' /\ Honours(term, vote)'
        BY <1>5, <1>6, <1>11, Zenon DEF TermStoring
    <2>2. /\ Len(queue') = 2 /\ queue'[1] = Persist(term, vote)
          /\ queue'[2] = SendVote(term, vote) /\ vote \in Ids
        BY <1>4, <1>11 DEF TermStoring
    <2>3. VoteStoring'
        BY <1>1, <2>2, Zenon DEF VoteStoring
    <2> QED
        BY <1>1, <2>1, <2>3, Zenon DEF ProcessInv
<1> QED
    BY <1>1, <1>7, <1>8, <1>9, <1>10, <1>11 DEF ProcessInv

\* A vote is sent when the file holds it.
LEMMA SendVoteKeeps ==
    ASSUME ProcessInv, send_vote
    PROVE  ProcessInv'
<1>1. /\ up /\ queue # << >> /\ queue[1].type = "SendVote"
      /\ promised' = promised \cup {queue[1].vote}
      /\ queue' = Tail(queue) /\ UNCHANGED <<up, term, vote, hs>>
    BY DEF send_vote, Doing, memory
<1>2. ProcessTypes /\ Honours(term, vote) /\ VotePromisesKept
    BY <1>1 DEF ProcessInv
<1>3. PICK S : queue \in Seq(S)
    BY <1>2 DEF ProcessTypes
<1>4. VoteStored
    <2>1. 1 \in DOMAIN queue
        BY <1>1, <1>3
    <2> QED
        BY <1>1, <2>1 DEF ProcessInv, AllStored, QuietFrom, StoringFirst, VoteStoring,
           TermStoring, Persist
<1>5. /\ promised' = promised \cup {<<term, vote>>} /\ vote \in Ids /\ Len(queue) = 1
      /\ Stored(term, vote)
    BY <1>1, <1>4 DEF VoteStored, SendVote
<1>6. queue' \in Seq(S) /\ DOMAIN queue' = {}
    BY <1>1, <1>3, <1>5, TailIs
<1>7. AllStored'
    BY <1>1, <1>5, <1>6 DEF AllStored, QuietFrom, Stored
<1>8. Honours(term, vote)'
    BY <1>1, <1>2, <1>5 DEF Honours
<1>9. VotePromisesKept'
    BY <1>1, <1>5, <1>8, Zenon DEF VotePromisesKept, Honours, Stored
<1>10. ProcessTypes'
    <2>1. promised' \subseteq Nat \X Ids
        BY <1>2, <1>5 DEF ProcessTypes
    <2> QED
        BY <1>1, <1>2, <1>6, <2>1, Zenon DEF ProcessTypes
<1> QED
    BY <1>1, <1>7, <1>8, <1>9, <1>10, Zenon DEF ProcessInv

\* The Actions on the log file leave the hard state and the votes alone.
LEMMA LogFileKeeps ==
    ASSUME ProcessInv, append_log_entries \/ truncate_wal \/ send_log
    PROVE  ProcessInv'
<1>1. /\ up /\ queue # << >> /\ UNCHANGED <<up, term, vote, hs, promised>>
      /\ queue[1].type \notin {"PersistHardState", "SendVote"}
    BY DEF append_log_entries, truncate_wal, send_log, Doing, memory, history
<1>2. ProcessTypes /\ Honours(term, vote) /\ VotePromisesKept
    BY <1>1 DEF ProcessInv
<1>3. PICK S : queue \in Seq(S)
    BY <1>2 DEF ProcessTypes
<1>4. AllStored
    BY <1>1 DEF ProcessInv, StoringFirst, VoteStored, VoteStoring, TermStoring,
       Persist, SendVote
<1> DEFINE q == Tail(queue)
<1>5. /\ q \in Seq(S) /\ DOMAIN q = 1..Len(q) /\ Len(q) \in Nat
      /\ \A j \in DOMAIN q : j + 1 \in DOMAIN queue /\ q[j] = queue[j + 1]
    BY <1>1, <1>3, TailIs
<1> HIDE DEF q
<1>6. \A j \in DOMAIN q : q[j].type \notin {"PersistHardState", "SendVote"}
    BY <1>4, <1>5 DEF AllStored, QuietFrom
<1>7. QuietFrom(1)' /\ \E T : queue' \in Seq(T)
    <2>1. CASE queue' = q
        BY <1>5, <1>6, <2>1 DEF QuietFrom
    <2>2. CASE truncate_wal
        <3> DEFINE a == Rewrite(preserved(wal, queue[1].from_index))
                   b == Rewrite(queue[1].entries)
        <3>1. queue' = <<a, b>> \o q
            BY <2>2 DEF truncate_wal, q
        <3>2. a.type = "Rewrite" /\ b.type = "Rewrite"
            BY DEF Rewrite
        <3> HIDE DEF a, b
        <3> DEFINE T == S \cup {a, b}
                   r == <<a, b>>
        <3>3. r \in Seq(T) /\ q \in Seq(T) /\ Len(r) = 2 /\ r[1] = a /\ r[2] = b
            BY <1>5
        <3> HIDE DEF T
        <3>4. /\ queue' \in Seq(T)
              /\ \A j \in DOMAIN queue' : \/ queue'[j] = a \/ queue'[j] = b
                                          \/ \E k \in DOMAIN q : queue'[j] = q[k]
            <4> HIDE DEF r
            <4>1. queue' = r \o q
                BY <3>1 DEF r
            <4>2. queue' \in Seq(T) /\ DOMAIN queue' = 1..(2 + Len(q))
                <5>1. r \o q \in Seq(T) /\ Len(r \o q) = Len(r) + Len(q)
                    BY <3>3, ConcatProperties
                <5> QED
                    BY <1>5, <3>3, <4>1, <5>1
            <4>3. ASSUME NEW j \in DOMAIN queue', j > 2
                  PROVE  j - 2 \in DOMAIN q /\ queue'[j] = q[j - 2]
                BY <1>5, <3>3, <4>1, <4>2, <4>3
            <4>4. ASSUME NEW j \in DOMAIN queue', ~(j > 2)
                  PROVE  queue'[j] = a \/ queue'[j] = b
                <5>1. j \in {1, 2}
                    BY <1>5, <4>2, <4>4
                <5> QED
                    BY <1>5, <3>3, <4>1, <4>2, <5>1
            <4> QED
                BY <4>2, <4>3, <4>4
        <3> QED
            BY <1>6, <3>2, <3>4, Zenon DEF QuietFrom
    <2> QED
        BY <2>1, <2>2 DEF append_log_entries, send_log, q
<1>8. AllStored'
    BY <1>1, <1>4, <1>7, Zenon DEF AllStored, Stored
<1>9. ProcessTypes' /\ VotePromisesKept' /\ Honours(term, vote)'
    BY <1>1, <1>2, <1>7, Zenon DEF ProcessTypes, VotePromisesKept, Honours
<1> QED
    BY <1>1, <1>8, <1>9, Zenon DEF ProcessInv
------------------------------------------------------------------------------
\* A kill loses what is in memory and in the queue, and no file.
LEMMA CrashKeeps ==
    ASSUME ProcessInv, crash
    PROVE  ProcessInv'
<1>1. /\ up' = FALSE /\ term' = 0 /\ vote' = None /\ queue' = << >>
      /\ UNCHANGED <<hs, promised>>
    BY DEF crash
<1>2. queue' \in Seq({})
    BY <1>1
<1>3. ProcessTypes' /\ VotePromisesKept'
    BY <1>1, <1>2, Zenon DEF ProcessInv, ProcessTypes, VotePromisesKept, OptId
<1> QED
    BY <1>1, <1>3 DEF ProcessInv

\* A restart takes term and vote from the file.
LEMMA RestartKeeps ==
    ASSUME ProcessInv, restart
    PROVE  ProcessInv'
<1>1. /\ up' = TRUE /\ queue = << >> /\ UNCHANGED <<queue, hs, promised>>
      /\ term' = read_hard_state(hs).term /\ vote' = read_hard_state(hs).voted_for
    BY DEF restart, history, ProcessInv
<1>2. term' \in Nat /\ vote' \in OptId
    BY <1>1, ReadTypes DEF ProcessInv, ProcessTypes
<1>3. ProcessTypes' /\ VotePromisesKept'
    BY <1>1, <1>2, Zenon DEF ProcessInv, ProcessTypes, VotePromisesKept
<1>4. Honours(term, vote)'
    BY <1>1, Zenon DEF ProcessInv, VotePromisesKept, Honours
<1>5. AllStored'
    <2>1. QuietFrom(1)'
        BY <1>1 DEF QuietFrom
    <2> QED
        BY <1>1, <2>1, Zenon DEF AllStored, Stored
<1> QED
    BY <1>1, <1>3, <1>4, <1>5, Zenon DEF ProcessInv

\* A new server has promised nothing.
LEMMA ProcessInit == Init => ProcessInv
<1> SUFFICES ASSUME Init PROVE ProcessInv
    OBVIOUS
<1>1. queue \in Seq({}) /\ QuietFrom(1)
    BY DEF Init, QuietFrom
<1>2. ProcessTypes
    BY <1>1 DEF Init, ProcessTypes, OptId
<1>3. AllStored
    BY <1>1 DEF Init, AllStored, Stored, read_hard_state
<1> QED
    BY <1>2, <1>3 DEF Init, ProcessInv, VotePromisesKept, Honours

\* Every step keeps the invariant.
LEMMA ProcessStep ==
    ASSUME 0 \notin Ids, ProcessInv, [Next]_vars
    PROVE  ProcessInv'
<1>1. ASSUME NEW t \in 1..MaxTerm, NEW c \in Ids \ {Id}, request_vote(t, c)
      PROVE  ProcessInv'
    BY <1>1, RequestVoteKeeps
<1>2. ASSUME NEW t \in 1..MaxTerm, refuse_vote(t)
      PROVE  ProcessInv'
    BY <1>2, RefuseKeeps
<1>3. ASSUME NEW t \in 1..MaxTerm, NEW n \in 1..MaxBatch, NEW i \in 1..Len(log),
             NEW new \in [1..n -> [term : 1..t, command : Commands]],
             append_entries(t, i, new)
      PROVE  ProcessInv'
    <2>1. t \in Nat
        OBVIOUS
    <2> QED
        BY <1>3, <2>1, AppendKeeps
<1>4. CASE start_real_election
    BY <1>4, ElectionKeeps
<1>5. ASSUME NEW c \in Commands, lead(c)
      PROVE  ProcessInv'
    BY <1>5, LeadKeeps
<1>6. CASE persist_hard_state
    BY <1>6, PersistKeeps
<1>7. CASE append_log_entries \/ truncate_wal \/ send_log
    BY <1>7, LogFileKeeps
<1>8. CASE send_vote
    BY <1>8, SendVoteKeeps
<1>9. CASE crash
    BY <1>9, CrashKeeps
<1>10. CASE restart
    BY <1>10, RestartKeeps
<1>11. CASE UNCHANGED vars
    <2>1. UNCHANGED <<up, term, vote, queue, hs, promised>>
        BY <1>11 DEF vars, memory, history
    <2> QED
        BY <2>1, Zenon DEF ProcessInv, ProcessTypes, VotePromisesKept, Honours, AllStored,
           Stored, StoringFirst, VoteStored, VoteStoring, TermStoring, QuietFrom
<1> QED
    BY <1>1, <1>2, <1>3, <1>4, <1>5, <1>6, <1>7, <1>8, <1>9, <1>10, <1>11 DEF Next

\* README.md:35, "Persistent Hard State", for every cluster that has no node 0
\* (storage.rs stores "no vote" as node 0), every sector size, every bound on
\* terms and logs and any number of kills: once a vote has been sent, a restart
\* finds that vote or a later term, whenever the process was killed.
THEOREM VotesSurviveKills ==
    ASSUME 0 \notin Ids
    PROVE  Spec => []VotePromisesKept
<1>1. Init => ProcessInv
    BY ProcessInit
<1>2. ProcessInv /\ [Next]_vars => ProcessInv'
    BY ProcessStep
<1>3. ProcessInv => VotePromisesKept
    BY DEF ProcessInv
<1> QED
    BY <1>1, <1>2, <1>3, PTL DEF Spec
==============================================================================
