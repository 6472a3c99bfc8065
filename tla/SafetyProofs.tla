----------------------------- MODULE SafetyProofs -----------------------------
(***************************************************************************)
(* State machine safety and leader completeness, for every cluster that    *)
(* never compacts and every value of the bounds, as long as leaders commit *)
(* only what a majority acknowledged and, for raft-servers, until one of   *)
(* them misreads its file; and what follows from it for the answers        *)
(* clients get and for the runtime checks of invariants.rs.                *)
(*                                                                         *)
(* A mark is a pair of a term and an index: how far an AppendEntries of    *)
(* that term reaches, or an acknowledgement of one.  Marks and the ends of *)
(* logs are ordered as is_log_up_to_date orders them.  What a node has     *)
(* acknowledged stays below the end of its log, so a candidate that        *)
(* collects a majority has every mark of its voters below the end of its   *)
(* own log; a mark that a majority acknowledged is therefore below the     *)
(* beginning of every later term, and whoever has it below the end of its  *)
(* log holds it.                                                           *)
(***************************************************************************)
EXTENDS ClusterProofs, RuntimeChecks

------------------------------------------------------------------------------
(* What the argument needs to know of a step: one node changes, and it does *)
(* one of seven things.                                                     *)

Plain == {"PreVote", "PreVoteResponse", "RequestVoteResponse", "AppendEntriesResponse"}

SendsEntries(n, x) ==
    /\ role'[n] = "Leader" /\ current_term'[n] = current_term[n]
    /\ \E p \in Server, next \in Nat :
           /\ next >= 1
           /\ x = replicate_to_peer(n, p, current_term[n], log'[n], commit_index[n], next)

SendsRequest(n, x) ==
    /\ role'[n] = "Candidate" /\ log'[n] = log[n]
    /\ \E p \in Server : x = Vote("RequestVote", n, p, current_term'[n], log[n])

SentBy(n, x) == x.kind \in Plain \/ SendsEntries(n, x) \/ SendsRequest(n, x)

\* Only node n changes, and it sends only what its role lets it send.
Alone(n) ==
    /\ \A p \in Server : p # n => /\ log'[p] = log[p] /\ role'[p] = role[p]
                                  /\ current_term'[p] = current_term[p]
                                  /\ commit_index'[p] = commit_index[p]
    /\ \A x \in in_flight' : x \in in_flight \/ SentBy(n, x)

\* Nothing that matters; a restart loses the commit index.
Rests(n) ==
    /\ UNCHANGED <<log, term_leaders, acked, ballots, applied, unsupported>>
    /\ commit_index'[n] \in {commit_index[n], 0}
    /\ role'[n] \in {"Leader", "Candidate"} =>
           role'[n] = role[n] /\ current_term'[n] = current_term[n]

Campaigns(n) ==
    /\ UNCHANGED <<log, term_leaders, acked, applied, unsupported, commit_index>>
    /\ role'[n] = "Candidate" /\ current_term'[n] = current_term[n] + 1
    /\ ballots' = ballots \cup {Ballot(n, current_term[n] + 1, n)}

Grants(n, m) ==
    /\ UNCHANGED <<log, term_leaders, acked, applied, unsupported, commit_index>>
    /\ m.kind = "RequestVote" /\ current_term'[n] = m.term
    /\ role'[n] \in {"Leader", "Candidate"} =>
           role'[n] = role[n] /\ current_term'[n] = current_term[n]
    /\ is_log_up_to_date(log[n], m.last_log_index, m.last_log_term)
    /\ ballots' = ballots \cup {Ballot(n, m.term, m.from)}

\* A log with one more entry.
Grown(l, t, c) == Append(l, Entry(last_index(l) + 1, t, c))

Wins(n) ==
    /\ UNCHANGED <<acked, ballots, applied, unsupported, commit_index, current_term>>
    /\ role[n] = "Candidate" /\ role'[n] = "Leader"
    /\ log'[n] = Grown(log[n], current_term[n], Noop)
    /\ term_leaders' = term_leaders \cup {<<current_term[n], n>>}
    /\ \E Q \in SUBSET Server : ElectedBy(Q, current_term[n], n)

Proposes(n, c) ==
    /\ UNCHANGED <<term_leaders, acked, ballots, applied, unsupported, commit_index,
                   current_term>>
    /\ role[n] = "Leader" /\ role'[n] = "Leader"
    /\ log'[n] = Grown(log[n], current_term[n], c)

\* The log after the entries of an AppendEntries are taken over.
Taken(l, es) ==
    LET held   == already_held(l, es)
        suffix == SubSeq(es, held + 1, Len(es))
    IN  IF suffix = << >> THEN l ELSE truncate_and_append(l, es[1].index + held, suffix)

Accepts(n, m) ==
    /\ UNCHANGED <<term_leaders, ballots, unsupported>>
    /\ m.kind = "AppendEntries" /\ m.term >= current_term[n]
    /\ term_at(log[n], m.prev_log_index) = m.prev_log_term
    /\ role'[n] = "Follower" /\ current_term'[n] = m.term
    /\ log'[n] = Taken(log[n], m.entries)
    /\ CommitTo(n, log'[n], Min2(m.leader_commit, last_index(log'[n])))
    /\ acked' = acked \cup {[node |-> n, term |-> m.term,
                             index |-> m.prev_log_index + Len(m.entries)]}

Commits(n) ==
    /\ UNCHANGED <<log, term_leaders, acked, ballots, current_term, role>>
    /\ role[n] = "Leader"
    /\ \E i \in Nat : /\ CommitTo(n, log[n], i)
                      /\ unsupported' = (unsupported \/ (/\ i > commit_index[n]
                                                         /\ ~Supported(n, i)))

Acts(n) ==
    \/ Rests(n) \/ Campaigns(n) \/ (\E m \in in_flight : Grants(n, m)) \/ Wins(n)
    \/ (\E c \in Command : Proposes(n, c)) \/ (\E m \in in_flight : Accepts(n, m))
    \/ Commits(n)

\* Nobody answers a snapshot that nobody sends.
NoSnapshots == \A m \in in_flight : m.kind # "InstallSnapshotResponse"

\* What a handler answers and a leader or candidate sends.
LEMMA SentKinds ==
    ASSUME NEW n \in Server
    PROVE  /\ \A p, t, l : SentBy(n, Vote("PreVote", n, p, t, l))
           /\ \A p, t, g : /\ SentBy(n, VoteResponse("PreVoteResponse", n, p, t, g))
                           /\ SentBy(n, VoteResponse("RequestVoteResponse", n, p, t, g))
           /\ \A p, t, ok, ct, ci : SentBy(n, AppendResponse(n, p, t, ok, ct, ci))
BY DEF SentBy, Plain, Vote, VoteResponse, AppendResponse

\* A broadcast of a leader.
LEMMA BroadcastSent ==
    ASSUME NEW n \in Server, role'[n] = "Leader", current_term'[n] = current_term[n],
           NEW next \in [Server -> Nat], \A p \in Server : next[p] >= 1,
           NEW x \in broadcast(n, current_term[n], log'[n], commit_index[n], next)
    PROVE  SentBy(n, x)
<1>1. PICK p \in Peers(n) :
          x = replicate_to_peer(n, p, current_term[n], log'[n], commit_index[n], next[p])
    BY DEF broadcast
<1>2. p \in Server /\ next[p] \in Nat /\ next[p] >= 1
    BY DEF Peers
<1> QED BY <1>1, <1>2 DEF SentBy, SendsEntries

\* A step that leaves the roles, terms and logs alone.
LEMMA StillRests ==
    ASSUME NEW n \in Server,
           UNCHANGED <<log, role, current_term, commit_index, term_leaders, acked, ballots,
                       applied, unsupported>>,
           \A x \in in_flight' : x \in in_flight \/ SentBy(n, x)
    PROVE  Alone(n) /\ Acts(n)
BY DEF Alone, Acts, Rests

\* A node that sees a newer term and does nothing else.
LEMMA ObserveRests ==
    ASSUME TypeOK, NEW n \in Server, NEW m \in Message,
           current_term' = [current_term EXCEPT ![n] = m.term],
           role' = [role EXCEPT ![n] = role_seen(n, m)], Current(n, m),
           UNCHANGED <<log, commit_index, term_leaders, acked, ballots, applied, unsupported>>,
           \A x \in in_flight' : x \in in_flight \/ SentBy(n, x)
    PROVE  Alone(n) /\ Acts(n)
<1>1. /\ \A p \in Server : p # n => role'[p] = role[p] /\ current_term'[p] = current_term[p]
      /\ role'[n] = role_seen(n, m) /\ current_term'[n] = m.term
    BY DEF TypeOK
<1>2. m.term \in Nat /\ current_term[n] \in Nat
    BY MessageFields DEF TypeOK
<1>3. role'[n] \in {"Leader", "Candidate"} =>
          role'[n] = role[n] /\ current_term'[n] = current_term[n]
    BY <1>1, <1>2 DEF role_seen, Newer, Current
<1> QED BY <1>1, <1>3 DEF Alone, Acts, Rests

\* A follower that takes nothing over.
LEMMA FollowRests ==
    ASSUME TypeOK, NEW n \in Server, NEW m \in Message, Follow(n, m),
           UNCHANGED <<log, commit_index, term_leaders, acked, ballots, applied, unsupported>>,
           \A x \in in_flight' : x \in in_flight \/ SentBy(n, x)
    PROVE  Alone(n) /\ Acts(n)
<1>1. /\ \A p \in Server : p # n => role'[p] = role[p] /\ current_term'[p] = current_term[p]
      /\ role'[n] = "Follower"
    BY DEF TypeOK, Follow
<1> QED BY <1>1 DEF Alone, Acts, Rests

\* Ticks and proposals.
LEMMA LocalActs ==
    ASSUME TypeOK, WholeInv, NEW n \in Server,
           \/ tick_idle(n) \/ tick_election_timeout(n) \/ tick_leader(n)
           \/ (\E c \in Command : propose_command(n, c))
    PROVE  Alone(n) /\ Acts(n)
<1>1. next_index[n] \in [Server -> Nat] /\ \A p \in Server : next_index[n][p] >= 1
    BY DEF TypeOK, WholeInv
<1>2. CASE tick_idle(n)
  <2>1. UNCHANGED <<log, role, current_term, commit_index, term_leaders, acked, ballots,
                    applied, unsupported, in_flight>>
      BY <1>2 DEF tick_idle, tick_lease_lapses, histVars, logVars
  <2> QED BY <2>1, StillRests
<1>3. CASE tick_election_timeout(n)
  <2>1. in_flight' \subseteq in_flight
            \cup {Vote("PreVote", n, p, current_term[n] + 1, log[n]) : p \in Peers(n)}
      BY <1>3, InFlight DEF tick_election_timeout, start_pre_vote
  <2>2. \A x \in in_flight' : x \in in_flight \/ SentBy(n, x)
      BY <2>1, SentKinds
  <2>3. /\ role' = [role EXCEPT ![n] = "PreCandidate"]
        /\ UNCHANGED <<log, current_term, commit_index, term_leaders, acked, ballots,
                       applied, unsupported>>
      BY <1>3 DEF tick_election_timeout, start_pre_vote, histVars, logVars
  <2>4. role'[n] = "PreCandidate" /\ \A p \in Server : p # n => role'[p] = role[p]
      BY <2>3 DEF TypeOK
  <2> QED BY <2>2, <2>3, <2>4 DEF Alone, Acts, Rests
<1>4. CASE tick_leader(n)
  <2>1. in_flight' \subseteq in_flight
            \cup broadcast(n, current_term[n], log[n], commit_index[n], next_index[n])
      BY <1>4, InFlight DEF tick_leader, tick_heartbeat
  <2>2. /\ UNCHANGED <<log, role, current_term, commit_index, term_leaders, acked, ballots,
                       applied, unsupported>>
        /\ role[n] = "Leader"
      BY <1>4 DEF tick_leader, tick_heartbeat, histVars, termVars, logVars
  <2>3. \A x \in in_flight' : x \in in_flight \/ SentBy(n, x)
      BY <1>1, <2>1, <2>2, BroadcastSent
  <2> QED BY <2>2, <2>3, StillRests
<1>5. ASSUME NEW c \in Command, propose_command(n, c) PROVE Alone(n) /\ Acts(n)
  <2> DEFINE l == Append(log[n], Entry(last_index(log[n]) + 1, current_term[n], c))
  <2>1. in_flight' \subseteq in_flight
            \cup broadcast(n, current_term[n], l, commit_index[n], next_index[n])
      BY <1>5, InFlight DEF propose_command, propose
  <2>2. /\ UNCHANGED <<role, current_term, commit_index, term_leaders, acked, ballots,
                       applied, unsupported>>
        /\ role[n] = "Leader" /\ log' = [log EXCEPT ![n] = l]
      BY <1>5 DEF propose_command, propose, histVars, termVars
  <2>3. log'[n] = l /\ \A p \in Server : p # n => log'[p] = log[p]
      BY <2>2 DEF TypeOK
  <2>4. Proposes(n, c)
      BY <2>2, <2>3 DEF Proposes, Grown
  <2> HIDE DEF l
  <2>5. \A x \in in_flight' : x \in in_flight \/ SentBy(n, x)
      BY <1>1, <2>1, <2>2, <2>3, BroadcastSent
  <2> QED BY <2>2, <2>3, <2>4, <2>5 DEF Alone, Acts
<1> QED BY <1>2, <1>3, <1>4, <1>5

\* Crashes, restarts and losses: a restart finds term, vote and log again and
\* starts with nothing committed.
LEMMA FaultActs ==
    ASSUME TypeOK, ElectionInv, DurabilityInv, WholeInv, AsBefore, NEW n \in Server,
           crash_node(n) \/ spawn_node(n) \/ (\E m \in in_flight : drop_message(m))
    PROVE  Alone(n) /\ Acts(n)
<1>1. CASE crash_node(n)
  <2>1. UNCHANGED <<log, role, current_term, commit_index, term_leaders, acked, ballots,
                    applied, unsupported, in_flight>>
      BY <1>1 DEF crash_node, nodeVars, histVars, termVars, logVars
  <2> QED BY <2>1, StillRests
<1>2. CASE \E m \in in_flight : drop_message(m)
  <2>1. /\ UNCHANGED <<log, role, current_term, commit_index, term_leaders, acked, ballots,
                       applied, unsupported>>
        /\ in_flight' \subseteq in_flight
      BY <1>2 DEF drop_message, histVars, termVars, logVars
  <2> QED BY <2>1, StillRests
<1>3. CASE spawn_node(n)
  <2> DEFINE base == BaseOf(disk[n]).last_included_index
             l == restore_log(BaseOf(disk[n]), Tail(disk[n].log_entries))
  <2>1. /\ role' = [role EXCEPT ![n] = "Follower"]
        /\ current_term' = [current_term EXCEPT ![n] = disk[n].current_term]
        /\ commit_index' = [commit_index EXCEPT ![n] = base]
        /\ log' = [log EXCEPT ![n] = l]
        /\ UNCHANGED <<term_leaders, acked, ballots, applied, unsupported, in_flight>>
        /\ n \notin alive /\ alive' = alive \cup {n}
      BY <1>3 DEF spawn_node, restore, BaseOf, histVars
  <2>2. log'[n] = log[n]
      BY <2>1 DEF AsBefore
  <2> HIDE DEF l
  <2>3. UNCHANGED log
      BY <2>1, <2>2 DEF TypeOK
  <2>4. base = 0
    <3>1. /\ Mirrors(log[n], disk[n], commit_index[n], role[n]) /\ log[n] \in Log
          /\ Len(log[n]) \in Nat /\ Len(log[n]) >= 1
        BY LogIsOrderly, LogType
    <3>2. log[n][1] = disk[n].log_entries[1] /\ disk[n].log_entries[1].index = base
        BY <3>1 DEF Mirrors, sentinel
    <3> QED BY <3>2 DEF WholeInv, first_index
  <2> HIDE DEF base
  <2>5. current_term'[n] = current_term[n]
      BY <2>1 DEF ElectionInv, HardStateOnDisk, TypeOK
  <2>6. /\ \A p \in Server : p # n => /\ role'[p] = role[p] /\ current_term'[p] = current_term[p]
                                      /\ commit_index'[p] = commit_index[p]
        /\ role'[n] = "Follower" /\ commit_index'[n] = 0
      BY <2>1, <2>4 DEF TypeOK
  <2> QED BY <2>1, <2>3, <2>6 DEF Alone, Acts, Rests
<1> QED BY <1>1, <1>2, <1>3

\* Votes.
LEMMA VoteActs ==
    ASSUME TypeOK, ElectionInv, NEW n \in Server, NEW m \in in_flight, m \in Message,
           \/ handle_pre_vote(n, m) \/ handle_pre_vote_response(n, m)
           \/ handle_request_vote(n, m)
    PROVE  Alone(n) /\ Acts(n)
<1>1. CASE handle_pre_vote(n, m)
  <2>1. in_flight' \subseteq in_flight \cup
            {VoteResponse("PreVoteResponse", n, m.from, current_term[n], pre_vote_granted(n, m))}
      BY <1>1, InFlight DEF handle_pre_vote
  <2>2. \A x \in in_flight' : x \in in_flight \/ SentBy(n, x)
      BY <2>1, SentKinds
  <2>3. UNCHANGED <<log, role, current_term, commit_index, term_leaders, acked, ballots,
                    applied, unsupported>>
      BY <1>1 DEF handle_pre_vote, histVars, termVars, logVars
  <2> QED BY <2>2, <2>3, StillRests
<1>2. CASE handle_pre_vote_response(n, m)
  <2>1. CASE start_real_election(n, m)
    <3> DEFINE t == current_term[n] + 1
    <3>1. in_flight' \subseteq in_flight
              \cup {Vote("RequestVote", n, p, t, log[n]) : p \in Peers(n)}
        BY <2>1, InFlight DEF start_real_election
    <3>2. /\ current_term' = [current_term EXCEPT ![n] = t]
          /\ role' = [role EXCEPT ![n] = "Candidate"]
          /\ ballots' = ballots \cup {Ballot(n, t, n)}
          /\ UNCHANGED <<log, commit_index, term_leaders, acked, applied, unsupported>>
        BY <2>1 DEF start_real_election, logVars, Ballot
    <3>3. /\ \A p \in Server : p # n => /\ current_term'[p] = current_term[p]
                                        /\ role'[p] = role[p]
          /\ current_term'[n] = t /\ role'[n] = "Candidate" /\ log'[n] = log[n]
        BY <3>2 DEF TypeOK
    <3>4. \A x \in in_flight' : x \in in_flight \/ SentBy(n, x)
        BY <3>1, <3>3 DEF SentBy, SendsRequest, Peers
    <3> QED BY <3>2, <3>3, <3>4 DEF Alone, Acts, Campaigns
  <2>2. CASE /\ Handle(n, m, current_term[n], {})
             /\ UNCHANGED <<termVars, histVars, logVars>>
    <3>1. in_flight' \subseteq in_flight
        BY <2>2, InFlight
    <3>2. UNCHANGED <<log, role, current_term, commit_index, term_leaders, acked, ballots,
                      applied, unsupported>>
        BY <2>2 DEF histVars, termVars, logVars
    <3> QED BY <3>1, <3>2, StillRests
  <2> QED BY <1>2, <2>1, <2>2 DEF handle_pre_vote_response
<1>3. CASE handle_request_vote(n, m)
  <2> DEFINE g == vote_granted(n, m)
  <2>1. in_flight' \subseteq in_flight \cup
            {VoteResponse("RequestVoteResponse", n, m.from, m.term, g)}
      BY <1>3, InFlight DEF handle_request_vote
  <2>2. \A x \in in_flight' : x \in in_flight \/ SentBy(n, x)
    <3> HIDE DEF g
    <3> QED BY <2>1, SentKinds
  <2>3. /\ current_term' = [current_term EXCEPT ![n] = m.term]
        /\ role' = [role EXCEPT ![n] = role_seen(n, m)]
        /\ Current(n, m) /\ m.kind = "RequestVote"
        /\ UNCHANGED <<log, commit_index, applied, term_leaders, acked, unsupported>>
        /\ ballots' = IF g THEN ballots \cup {Ballot(n, m.term, m.from)} ELSE ballots
      BY <1>3 DEF handle_request_vote, logVars, Ballot, Receives
  <2>4. CASE ~g
      BY <2>2, <2>3, <2>4, ObserveRests
  <2>5. CASE g
    <3>1. is_log_up_to_date(log[n], m.last_log_index, m.last_log_term)
        BY <2>5 DEF vote_granted
    <3>2. /\ \A p \in Server : p # n => /\ role'[p] = role[p]
                                        /\ current_term'[p] = current_term[p]
          /\ role'[n] = role_seen(n, m) /\ current_term'[n] = m.term
        BY <2>3 DEF TypeOK
    <3>3. role'[n] \in {"Leader", "Candidate"} =>
              role'[n] = role[n] /\ current_term'[n] = current_term[n]
      <4>1. m.term \in Nat /\ current_term[n] \in Nat
          BY MessageFields DEF TypeOK
      <4> QED BY <2>3, <3>2, <4>1 DEF role_seen, Newer, Current
    <3>4. Grants(n, m)
        BY <2>3, <2>5, <3>1, <3>2, <3>3 DEF Grants
    <3> QED BY <2>2, <2>3, <3>2, <3>4 DEF Alone, Acts
  <2> QED BY <2>4, <2>5
<1> QED BY <1>1, <1>2, <1>3

\* The answer that elects a leader, and those that do not.
LEMMA VoteCountedActs ==
    ASSUME TypeOK, ElectionInv, NEW n \in Server, NEW m \in in_flight, m \in Message,
           handle_request_vote_response(n, m)
    PROVE  Alone(n) /\ Acts(n)
<1>1. CASE become_leader(n, m) /\ counts_vote(n, m)
           /\ Cardinality(votes_received[n] \cup {m.from}) >= majority
  <2> DEFINE last == last_index(log[n])
             l == Append(log[n], Entry(last + 1, current_term[n], Noop))
             next == [p \in Server |-> last + 1]
  <2>1. in_flight' \subseteq in_flight
            \cup broadcast(n, current_term[n], l, commit_index[n], next)
      BY <1>1, InFlight DEF become_leader
  <2>2. /\ role' = [role EXCEPT ![n] = "Leader"] /\ role[n] = "Candidate"
        /\ term_leaders' = term_leaders \cup {<<current_term[n], n>>}
        /\ log' = [log EXCEPT ![n] = l]
        /\ UNCHANGED <<current_term, commit_index, acked, ballots, applied, unsupported>>
      BY <1>1 DEF become_leader, counts_vote
  <2>3. /\ \A p \in Server : p # n => role'[p] = role[p] /\ log'[p] = log[p]
        /\ role'[n] = "Leader" /\ log'[n] = l
      BY <2>2 DEF TypeOK
  <2>4. next \in [Server -> Nat] /\ \A p \in Server : next[p] >= 1
    <3>1. last \in Nat
        BY LogType DEF TypeOK
    <3> QED BY <3>1
  <2>5. \E Q \in SUBSET Server : ElectedBy(Q, current_term[n], n)
    <3>1. IsGrant(m) /\ m.to = n /\ m.term = current_term[n]
        BY <1>1 DEF counts_vote, IsGrant, handle_request_vote_response, Receives
    <3>2. Ballot(m.from, current_term[n], n) \in ballots
        BY <3>1 DEF ElectionInv, GrantsWereCast
    <3>3. \A p \in votes_received[n] : Ballot(p, current_term[n], n) \in ballots
        BY <2>2 DEF ElectionInv, CountedWereCast
    <3>4. votes_received[n] \cup {m.from} \in SUBSET Server
        BY MessageFields DEF TypeOK
    <3> QED BY <1>1, <3>2, <3>3, <3>4 DEF ElectedBy
  <2>6. Wins(n)
      BY <2>2, <2>3, <2>5 DEF Wins, Grown
  <2> HIDE DEF l, next
  <2>7. current_term'[n] = current_term[n]
      BY <2>2
  <2>8. \A x \in in_flight' : x \in in_flight \/ SentBy(n, x)
      BY <2>1, <2>3, <2>4, <2>7, BroadcastSent
  <2> QED BY <2>2, <2>3, <2>6, <2>8 DEF Alone, Acts
<1>2. CASE Handle(n, m, m.term, {}) /\ UNCHANGED <<termVars, histVars, logVars>>
  <2>1. in_flight' \subseteq in_flight
      BY <1>2, InFlight
  <2>2. UNCHANGED <<log, role, current_term, commit_index, term_leaders, acked, ballots,
                    applied, unsupported>>
      BY <1>2 DEF histVars, termVars, logVars
  <2> QED BY <2>1, <2>2, StillRests
<1>3. CASE Observe(n, m) /\ Handle(n, m, m.term, {}) /\ UNCHANGED <<histVars, logVars>>
  <2>1. in_flight' \subseteq in_flight
      BY <1>3, InFlight
  <2>2. Current(n, m)
      BY DEF handle_request_vote_response
  <2> QED BY <1>3, <2>1, <2>2, ObserveRests DEF Observe, histVars, logVars
<1> QED BY <1>1, <1>2, <1>3 DEF handle_request_vote_response

\* AppendEntries.
LEMMA EntriesActs ==
    ASSUME TypeOK, NEW n \in Server, NEW m \in in_flight, m \in Message,
           \/ handle_append_entries_missing(n, m)
           \/ handle_append_entries_conflict(n, m)
           \/ handle_append_entries_accept(n, m)
    PROVE  Alone(n) /\ Acts(n)
<1>1. CASE handle_append_entries_missing(n, m)
  <2>1. in_flight' \subseteq in_flight \cup
            {AppendResponse(n, m.from, m.term, FALSE, None, last_index(log[n]) + 1)}
      BY <1>1, InFlight DEF handle_append_entries_missing
  <2>2. \A x \in in_flight' : x \in in_flight \/ SentBy(n, x)
      BY <2>1, SentKinds
  <2>3. /\ Follow(n, m)
        /\ UNCHANGED <<log, commit_index, term_leaders, acked, ballots, applied, unsupported>>
      BY <1>1 DEF handle_append_entries_missing, logVars, histVars
  <2> QED BY <2>2, <2>3, FollowRests
<1>2. CASE handle_append_entries_conflict(n, m)
  <2> DEFINE t == term_at(log[n], m.prev_log_index)
             i == first_of_run(log[n], m.prev_log_index, t)
  <2>1. in_flight' \subseteq in_flight \cup {AppendResponse(n, m.from, m.term, FALSE, t, i)}
      BY <1>2, InFlight DEF handle_append_entries_conflict
  <2>2. \A x \in in_flight' : x \in in_flight \/ SentBy(n, x)
    <3> HIDE DEF t, i
    <3> QED BY <2>1, SentKinds
  <2>3. /\ Follow(n, m)
        /\ UNCHANGED <<log, commit_index, term_leaders, acked, ballots, applied, unsupported>>
      BY <1>2 DEF handle_append_entries_conflict, logVars, histVars
  <2> QED BY <2>2, <2>3, FollowRests
<1>3. CASE handle_append_entries_accept(n, m)
  <2> DEFINE held   == already_held(log[n], m.entries)
             suffix == SubSeq(m.entries, held + 1, Len(m.entries))
             l == IF suffix = << >> THEN log[n]
                  ELSE truncate_and_append(log[n], m.entries[1].index + held, suffix)
  <2>1. in_flight' \subseteq in_flight \cup {AppendResponse(n, m.from, m.term, TRUE, None, None)}
      BY <1>3, InFlight, Zenon DEF handle_append_entries_accept
  <2>2. \A x \in in_flight' : x \in in_flight \/ SentBy(n, x)
      BY <2>1, SentKinds
  <2>3. /\ Follow(n, m) /\ log' = [log EXCEPT ![n] = l]
        /\ UNCHANGED <<term_leaders, ballots, unsupported>>
        /\ m.kind = "AppendEntries" /\ m.term >= current_term[n]
        /\ term_at(log[n], m.prev_log_index) = m.prev_log_term
        /\ CommitTo(n, l, Min2(m.leader_commit, last_index(l)))
        /\ acked' = acked \cup {[node |-> n, term |-> m.term,
                                 index |-> m.prev_log_index + Len(m.entries)]}
      BY <1>3, Zenon DEF handle_append_entries_accept, Receives, Current
  <2>4. log'[n] = l /\ \A p \in Server : p # n => log'[p] = log[p]
      BY <2>3 DEF TypeOK
  <2>5. /\ \A p \in Server : p # n => role'[p] = role[p] /\ current_term'[p] = current_term[p]
        /\ role'[n] = "Follower" /\ current_term'[n] = m.term
      BY <2>3 DEF TypeOK, Follow
  <2>6. l = Taken(log[n], m.entries)
      BY DEF Taken
  <2> HIDE DEF l
  <2>7. Accepts(n, m)
      BY <2>3, <2>4, <2>5, <2>6 DEF Accepts
  <2>8. \A p \in Server : p # n => commit_index'[p] = commit_index[p]
      BY <2>3 DEF CommitTo, TypeOK
  <2> QED BY <2>2, <2>4, <2>5, <2>7, <2>8 DEF Alone, Acts
<1> QED BY <1>1, <1>2, <1>3

\* Answers to a leader.
LEMMA AnswerActs ==
    ASSUME TypeOK, WholeInv, NEW n \in Server, NEW m \in in_flight, m \in Message,
           handle_append_entries_response(n, m)
    PROVE  Alone(n) /\ Acts(n)
<1> DEFINE leads == role[n] = "Leader" /\ m.term = current_term[n]
           last  == last_index(log[n])
           match == [match_index[n] EXCEPT ![m.from] = last]
           commit == advanced_commit(n, match)
           next  == backtracked_next(log[n], next_index[n][m.from], m)
           again == replicate_to_peer(n, m.from, current_term[n], log[n],
                                      commit_index[n], next)
<1>1. /\ m.kind = "AppendEntriesResponse" /\ Current(n, m)
      /\ UNCHANGED <<log, term_leaders, ballots, acked>>
    BY DEF handle_append_entries_response, Receives
<1>2. /\ m.from \in Server /\ m.conflict_term \in OptNat /\ m.conflict_index \in OptNat
      /\ log[n] \in Log /\ next_index[n] \in [Server -> Nat]
      /\ match_index[n] \in [Server -> Nat] /\ commit_index[n] \in Nat
    BY <1>1, MessageFields DEF TypeOK
<1>3. \/ /\ leads /\ Handle(n, m, m.term, {}) /\ UNCHANGED termVars
         /\ CommitTo(n, log[n], commit)
         /\ unsupported' = (unsupported \/ (/\ commit > commit_index[n]
                                            /\ ~Supported(n, commit)))
      \/ /\ leads /\ Handle(n, m, m.term, {again}) /\ UNCHANGED termVars
         /\ UNCHANGED <<commit_index, applied, unsupported>>
      \/ /\ Observe(n, m) /\ Handle(n, m, m.term, {})
         /\ UNCHANGED <<commit_index, applied, unsupported>>
    BY Zenon DEF handle_append_entries_response
<1>4. CASE /\ leads /\ Handle(n, m, m.term, {}) /\ UNCHANGED termVars
           /\ CommitTo(n, log[n], commit)
           /\ unsupported' = (unsupported \/ (/\ commit > commit_index[n]
                                              /\ ~Supported(n, commit)))
  <2>1. in_flight' \subseteq in_flight
      BY <1>4, InFlight
  <2>2. commit \in Nat
    <3> HIDE DEF match
    <3> QED BY <1>2, AdvancedCommitType
  <2> HIDE DEF commit
  <2>3. UNCHANGED <<role, current_term>>
      BY <1>4 DEF termVars
  <2>4. Commits(n)
      BY <1>1, <1>4, <2>2, <2>3 DEF Commits
  <2>5. \A p \in Server : p # n => commit_index'[p] = commit_index[p]
      BY <1>4 DEF CommitTo, TypeOK
  <2> QED BY <1>1, <2>1, <2>3, <2>4, <2>5 DEF Alone, Acts
<1>5. CASE /\ leads /\ Handle(n, m, m.term, {again}) /\ UNCHANGED termVars
           /\ UNCHANGED <<commit_index, applied, unsupported>>
  <2>1. in_flight' \subseteq in_flight \cup {again}
      BY <1>5, InFlight
  <2>2. next \in Nat /\ next >= 1
    <3>1. next \in Nat
        BY <1>2, BacktrackedType
    <3>2. \E i : next = Max2(i, 1)
        BY DEF backtracked_next
    <3> HIDE DEF next
    <3> QED BY <3>1, <3>2 DEF Max2
  <2> HIDE DEF next
  <2>3. UNCHANGED <<role, current_term>>
      BY <1>5 DEF termVars
  <2>4. SentBy(n, again)
      BY <1>1, <1>2, <1>5, <2>2, <2>3 DEF SentBy, SendsEntries
  <2> HIDE DEF again
  <2> QED BY <1>1, <1>5, <2>1, <2>3, <2>4, StillRests
<1>6. CASE /\ Observe(n, m) /\ Handle(n, m, m.term, {})
           /\ UNCHANGED <<commit_index, applied, unsupported>>
  <2>1. in_flight' \subseteq in_flight
      BY <1>6, InFlight
  <2> QED BY <1>1, <1>6, <2>1, ObserveRests DEF Observe
<1> QED BY <1>3, <1>4, <1>5, <1>6

\* Every step, as long as nothing is compacted.
LEMMA StepActs ==
    ASSUME TypeOK, ElectionInv, DurabilityInv, WholeInv, NoSnapshots, [Uncompacted]_vars
    PROVE  \E n \in Server : Alone(n) /\ Acts(n)
<1>1. AsBefore
    BY WholeStep
<1>2. ASSUME NEW m \in in_flight, Deliver(m.to, m) PROVE \E n \in Server : Alone(n) /\ Acts(n)
  <2> DEFINE n == m.to
  <2>1. m \in Message /\ n \in Server
      BY MessageFields DEF TypeOK
  <2> HIDE DEF n
  <2>2. ~handle_install_snapshot(n, m) /\ ~handle_install_snapshot_response(n, m)
      BY DEF handle_install_snapshot, handle_install_snapshot_response, Receives, WholeInv,
         NoSnapshots
  <2>3. Alone(n) /\ Acts(n)
      BY <1>2, <2>1, <2>2, VoteActs, VoteCountedActs, EntriesActs, AnswerActs DEF Deliver, n
  <2> QED BY <2>1, <2>3
<1>3. CASE UNCHANGED vars
  <2>1. UNCHANGED <<log, role, current_term, commit_index, term_leaders, acked, ballots,
                    applied, unsupported, in_flight>>
      BY <1>3 DEF vars, nodeVars, histVars, termVars, logVars
  <2>2. \E n : n \in Server
    <3>1. Server # {}
        BY ServerAssumption, FS_EmptySet
    <3> QED BY <3>1
  <2> QED BY <2>1, <2>2, StillRests
<1>4. ASSUME NEW n \in Server,
             \/ tick_idle(n) \/ tick_election_timeout(n) \/ tick_leader(n)
             \/ crash_node(n) \/ spawn_node(n) \/ \E c \in Command : propose_command(n, c)
      PROVE  \E p \in Server : Alone(p) /\ Acts(p)
    BY <1>1, <1>4, LocalActs, FaultActs
<1>5. ASSUME NEW m \in in_flight, drop_message(m) PROVE \E n \in Server : Alone(n) /\ Acts(n)
  <2>1. m.to \in Server
      BY MessageFields DEF TypeOK
  <2> QED BY <1>1, <1>5, <2>1, FaultActs
<1> QED BY <1>2, <1>3, <1>4, <1>5 DEF Uncompacted

------------------------------------------------------------------------------
(* The invariant.                                                           *)

\* How far an AppendEntries reaches, and the term its last place has.
Top(m) == m.prev_log_index + Len(m.entries)

Carries(m) == m.kind = "AppendEntries" /\ PlaceTerm(m, Len(m.entries)) = m.term

\* The other kind: a leader that was told to resume behind its own log asks for
\* a place nobody holds.
Hollow(m) == m.prev_log_term = 0 /\ m.prev_log_index >= 1 /\ Len(m.entries) = 0

\* The order of is_log_up_to_date.
Below(t, i, u, j) == t < u \/ (t = u /\ i <= j)

Covers(l, t, i) == Below(t, i, last_term(l), last_index(l))

Ack(p, t, i) == [node |-> p, term |-> t, index |-> i] \in acked

Mark(t, i) ==
    \/ \E p \in Server : Ack(p, t, i)
    \/ \E m \in in_flight : Carries(m) /\ m.term = t /\ Top(m) = i

\* What a vote of p has to respect: what p acknowledged, and what it made
\* others hold as a leader.
Holds(p, t, i) == Ack(p, t, i) \/ (Mark(t, i) /\ <<t, p>> \in term_leaders)

SentCarries == \A m \in in_flight : m.kind = "AppendEntries" => Carries(m) \/ Hollow(m)

LastTerms ==
    \A n \in Server : /\ last_term(log[n]) <= current_term[n]
                      /\ role[n] = "Leader" => last_term(log[n]) = current_term[n]

ZeroBases == \A n \in Server : log[n][1].term = 0

TermsRise == \A x \in Links : x[1] <= x[2].term

MarksLed == \A t, i \in Nat : Mark(t, i) => \E q \in Server : <<t, q>> \in term_leaders

LeadersReach ==
    \A n \in Server : role[n] = "Leader" =>
        \A i \in Nat : Mark(current_term[n], i) => i <= last_index(log[n])

\* Behind a mark, the entries of its term follow one another.
RunsOn ==
    \A x \in Links : \A i \in Nat :
        Mark(x[2].term, i) /\ i < x[2].index => x[1] = x[2].term

HeldIsCovered ==
    \A p \in Server : \A t, i \in Nat : Holds(p, t, i) => Covers(log[p], t, i)

\* A candidate asks with the log it has; its log does not change until it wins.
RequestsTell ==
    \A m \in in_flight : m.kind = "RequestVote" =>
        /\ m.term <= current_term[m.from]
        /\ (role[m.from] = "Candidate" /\ m.term = current_term[m.from]) =>
               /\ m.last_log_term = last_term(log[m.from])
               /\ m.last_log_index = last_index(log[m.from])

BallotsAsked == \A b \in ballots : b.term <= current_term[b.candidate]

VotersCovered ==
    \A b \in ballots : (/\ role[b.candidate] = "Candidate"
                        /\ b.term = current_term[b.candidate]) =>
        \A t, i \in Nat : Holds(b.voter, t, i) /\ t < b.term => Covers(log[b.candidate], t, i)

\* A majority has moved on to term u, and all it holds of older terms is below
\* the place <<t, i>>.
MovedOn(u, t, i) ==
    \E Q \in SUBSET Server :
        /\ Cardinality(Q) >= majority
        /\ \A p \in Q : /\ current_term[p] >= u
                        /\ \A v, j \in Nat : Holds(p, v, j) /\ v < u => Below(v, j, t, i)

\* Where a term begins.
TermsBegin ==
    \A x \in Links : x[1] # x[2].term => MovedOn(x[2].term, x[1], x[2].index - 1)

MarkInv ==
    /\ NoSnapshots /\ SentCarries /\ LastTerms /\ ZeroBases /\ TermsRise /\ MarksLed
    /\ LeadersReach /\ RunsOn /\ HeldIsCovered /\ RequestsTell /\ BallotsAsked /\ VotersCovered
    /\ TermsBegin

\* What the other proofs provide.
BaseInv == TypeOK /\ ElectionInv /\ DurabilityInv /\ HintInv /\ MatchInv /\ WholeInv

------------------------------------------------------------------------------
(* Logs that start at 0.                                                    *)

LinksAreEntries == \A x \in Links : x[2] \in LogEntry

WholeLog(l) ==
    /\ l \in Log /\ Len(l) \in Nat /\ Len(l) >= 1
    /\ \A k \in 1..Len(l) : l[k] \in LogEntry /\ l[k].index = k - 1 /\ l[k].term \in Nat
    /\ \A k \in 2..Len(l) : l[k].term >= 1
    /\ first_index(l) = 0
    /\ last_index(l) = Len(l) - 1 /\ last_term(l) = l[Len(l)].term /\ last_term(l) \in Nat

\* A set of numbers that goes down from b to a holds everything between them.
LEMMA Downwards ==
    ASSUME NEW S, NEW a \in Nat, NEW b \in Nat, b \in S,
           \A k \in Nat : a <= k /\ k < b /\ k + 1 \in S => k \in S
    PROVE  \A k \in Nat : a <= k /\ k <= b => k \in S
<1> DEFINE D == {k \in Nat : a <= k /\ k <= b /\ k \notin S}
<1>1. CASE D = {}
    BY <1>1
<1>2. CASE D # {}
  <2>1. D \subseteq Nat /\ \A k \in D : k <= b
      OBVIOUS
  <2> DEFINE d == Max(D)
  <2>2. d \in D /\ \A k \in D : k <= d
    <3> HIDE DEF D
    <3> QED BY <1>2, <2>1, MaxIn
  <2> HIDE DEF d
  <2>3. d \in Nat /\ a <= d /\ d <= b /\ d \notin S /\ d # b
      BY <2>2
  <2>4. d + 1 \in Nat /\ a <= d + 1 /\ d + 1 <= b /\ d < b /\ ~(d + 1 <= d)
      BY <2>3
  <2>5. d + 1 \in S
      BY <2>2, <2>4
  <2> QED BY <2>3, <2>4, <2>5
<1> QED BY <1>1, <1>2

\* The same going up.
LEMMA Upwards ==
    ASSUME NEW S, NEW a \in Nat, NEW b \in Nat, a \in S,
           \A k \in Nat : a <= k /\ k < b /\ k \in S => k + 1 \in S
    PROVE  \A k \in Nat : a <= k /\ k <= b => k \in S
<1> DEFINE D == {k \in Nat : a <= k /\ k <= b /\ k \notin S}
<1>1. CASE D = {}
    BY <1>1
<1>2. CASE D # {}
  <2>1. D \subseteq Nat
      OBVIOUS
  <2> DEFINE d == Min(D)
  <2>2. d \in D /\ \A k \in D : d <= k
    <3> HIDE DEF D
    <3> QED BY <1>2, <2>1, MinIn
  <2> HIDE DEF d
  <2>3. d \in Nat /\ a <= d /\ d <= b /\ d \notin S /\ d # a
      BY <2>2
  <2>4. d - 1 \in Nat /\ a <= d - 1 /\ d - 1 <= b /\ d - 1 < b /\ ~(d <= d - 1)
        /\ (d - 1) + 1 = d
      BY <2>3
  <2>5. d - 1 \in S
      BY <2>2, <2>4
  <2> QED BY <2>3, <2>4, <2>5
<1> QED BY <1>1, <1>2

\* The order is one.
LEMMA BelowOrder ==
    /\ \A t, i \in Nat : Below(t, i, t, i)
    /\ \A t, i, u, j, v, k \in Int :
           Below(t, i, u, j) /\ Below(u, j, v, k) => Below(t, i, v, k)
    /\ \A t, i, u, j \in Nat : Below(t, i, u, j) \/ Below(u, j, t, i)
BY DEF Below

\* A contiguous log with base 0 and entries of real terms.
LEMMA WholeLogIs ==
    ASSUME NEW l \in Log, Contiguous(l), first_index(l) = 0, NEW T, AllLed(T, l),
           \A a \in T : a[1] >= 1
    PROVE  WholeLog(l)
<1>1. Len(l) \in Nat /\ Len(l) >= 1 /\ \A k \in 1..Len(l) : l[k] \in LogEntry
    BY LogType
<1>2. \A k \in 1..Len(l) : l[k].index = k - 1
  <2> SUFFICES ASSUME NEW k \in 1..Len(l) PROVE l[k].index = k - 1
      OBVIOUS
  <2>1. l[k].index = l[1].index + k - 1 /\ l[1].index = 0
      BY DEF Contiguous, first_index
  <2> QED BY <2>1
<1>3. \A k \in 1..Len(l) : l[k].term \in Nat
    BY <1>1 DEF LogEntry
<1>4. \A k \in 2..Len(l) : l[k].term >= 1
  <2> SUFFICES ASSUME NEW k \in 2..Len(l) PROVE l[k].term >= 1
      OBVIOUS
  <2>1. PICK q \in Server : <<l[k].term, q>> \in T
      BY DEF AllLed, Led
  <2> QED BY <2>1
<1>5. Len(l) \in 1..Len(l)
    BY <1>1
<1>6. last_index(l) = Len(l) - 1 /\ last_term(l) = l[Len(l)].term /\ last_term(l) \in Nat
    BY <1>2, <1>3, <1>5 DEF last_index, last_term
<1> QED BY <1>1, <1>2, <1>3, <1>4, <1>6 DEF WholeLog

\* The end of such a log.
LEMMA LastOf ==
    ASSUME NEW l, WholeLog(l)
    PROVE  /\ Len(l) \in Nat /\ Len(l) >= 1 /\ Len(l) \in 1..Len(l)
           /\ last_index(l) \in Nat /\ last_index(l) = Len(l) - 1
           /\ last_term(l) \in Nat /\ last_term(l) = l[Len(l)].term
<1>1. /\ Len(l) \in Nat /\ Len(l) >= 1 /\ last_index(l) = Len(l) - 1
      /\ last_term(l) = l[Len(l)].term /\ last_term(l) \in Nat
    BY DEF WholeLog
<1> QED BY <1>1

\* All logs are such logs, before and after a step.
LEMMA LogsAreWhole ==
    /\ BaseInv => \A n \in Server : WholeLog(log[n]) /\ current_term[n] \in Nat
    /\ BaseInv' => \A n \in Server : WholeLog(log'[n]) /\ current_term'[n] \in Nat
<1>1. ASSUME BaseInv, NEW n \in Server PROVE WholeLog(log[n]) /\ current_term[n] \in Nat
  <2>1. /\ log[n] \in Log /\ Contiguous(log[n]) /\ AllLed(term_leaders, log[n])
        /\ current_term[n] \in Nat
      BY <1>1, LogIsOrderly DEF BaseInv
  <2>2. first_index(log[n]) = 0 /\ \A a \in term_leaders : a[1] >= 1
      BY <1>1 DEF BaseInv, WholeInv, HintInv, TermsAreReal
  <2> QED BY <2>1, <2>2, WholeLogIs
<1>2. ASSUME BaseInv', NEW n \in Server PROVE WholeLog(log'[n]) /\ current_term'[n] \in Nat
  <2>1. Mirrors(log'[n], disk'[n], commit_index'[n], role'[n])
      BY <1>2 DEF BaseInv, DurabilityInv, DiskMirrorsLog
  <2>2. /\ log'[n] \in Log /\ current_term'[n] \in Nat /\ disk'[n] \in Disk
        /\ commit_index'[n] \in Nat
        /\ AllLed(term_leaders', disk'[n].log_entries)
      BY <1>2 DEF BaseInv, DurabilityInv, EntriesWereLed, TypeOK
  <2>3. Contiguous(log'[n]) /\ AllLed(term_leaders', log'[n])
      BY <2>1, <2>2, MirrorsIndices, MirrorsLed
  <2>4. first_index(log'[n]) = 0 /\ \A a \in term_leaders' : a[1] >= 1
      BY <1>2 DEF BaseInv, WholeInv, HintInv, TermsAreReal
  <2> QED BY <2>2, <2>3, <2>4, WholeLogIs
<1> QED BY <1>1, <1>2

\* term_at on such a log.
LEMMA WholeTermAt ==
    ASSUME NEW l, WholeLog(l), NEW i \in Nat
    PROVE  term_at(l, i) = IF i < Len(l) THEN l[i + 1].term ELSE None
<1>1. first_index(l) = 0 /\ 0 <= i /\ i - 0 = i
    BY DEF WholeLog
<1> QED BY <1>1 DEF term_at

\* A link ends in an entry.
LEMMA LinksEnd == TypeOK /\ DurabilityInv => LinksAreEntries
BY LinkEntry DEF LinksAreEntries

\* Neighbours in a log are links.
LEMMA LogLink ==
    ASSUME NEW n \in Server, WholeLog(log[n]), NEW k \in Nat, k >= 1, k < Len(log[n])
    PROVE  /\ <<log[n][k].term, log[n][k + 1]>> \in Links
           /\ log[n][k + 1].index = k
<1>1. k + 1 \in 2..Len(log[n]) /\ k + 1 \in 1..Len(log[n]) /\ (k + 1) - 1 = k
    BY DEF WholeLog
<1>2. <<log[n][k].term, log[n][k + 1]>> \in LinksOf(log[n])
    BY <1>1 DEF LinksOf
<1>3. log[n][k + 1].index = (k + 1) - 1
    BY <1>1 DEF WholeLog
<1> QED BY <1>1, <1>2, <1>3, LinkIn

\* Terms never fall along a log.
LEMMA TermsUp ==
    ASSUME NEW n \in Server, WholeLog(log[n]), TermsRise,
           NEW j \in 1..Len(log[n]), NEW k \in 1..Len(log[n]), j <= k
    PROVE  log[n][j].term <= log[n][k].term
<1> DEFINE l == log[n]
           S == {i \in 1..Len(l) : l[j].term <= l[i].term}
<1>1. j \in Nat /\ Len(l) \in Nat /\ \A i \in 1..Len(l) : l[i].term \in Nat
    BY DEF WholeLog
<1>2. j \in S
    BY <1>1
<1>3. ASSUME NEW i \in Nat, j <= i, i < Len(l), i \in S PROVE i + 1 \in S
  <2>1. <<l[i].term, l[i + 1]>> \in Links
      BY <1>1, <1>3, LogLink
  <2>2. l[i].term <= l[i + 1].term
      BY <2>1 DEF TermsRise
  <2>3. i + 1 \in 1..Len(l) /\ i \in 1..Len(l)
      BY <1>1, <1>3
  <2> QED BY <1>1, <1>3, <2>2, <2>3
<1> HIDE DEF S
<1>4. \A i \in Nat : j <= i /\ i <= Len(l) => i \in S
    BY <1>1, <1>2, <1>3, Upwards
<1>5. k \in S
    BY <1>1, <1>4
<1> QED BY <1>5 DEF S

\* Where the entries of a term follow one another down to some place, a log that
\* has one of them has them all.
LEMMA RunBack ==
    ASSUME NEW n \in Server, WholeLog(log[n]), NEW t \in Nat, NEW i \in Nat,
           \A x \in Links : x[2].term = t /\ i < x[2].index => x[1] = t,
           NEW k \in 1..Len(log[n]), log[n][k].term = t, i < k
    PROVE  i + 1 \in 1..Len(log[n]) /\ log[n][i + 1].term = t
<1> DEFINE l == log[n]
           S == {j \in 1..Len(l) : l[j].term = t}
<1>1. Len(l) \in Nat /\ k \in Nat /\ i + 1 \in Nat
    BY DEF WholeLog
<1>2. k \in S
    OBVIOUS
<1>3. ASSUME NEW j \in Nat, i + 1 <= j, j < k, j + 1 \in S PROVE j \in S
  <2>1. j >= 1 /\ j < Len(l) /\ i < j /\ j \in 1..Len(l)
      BY <1>1, <1>3
  <2> DEFINE x == <<l[j].term, l[j + 1]>>
  <2>2. x \in Links /\ x[2].index = j /\ x[2].term = t
      BY <1>3, <2>1, LogLink
  <2>3. x[1] = t
    <3> HIDE DEF x
    <3> QED BY <2>1, <2>2
  <2> QED BY <2>1, <2>3
<1> HIDE DEF S
<1>4. \A j \in Nat : i + 1 <= j /\ j <= k => j \in S
    BY <1>1, <1>2, <1>3, Downwards
<1>5. i + 1 \in S
    BY <1>1, <1>4
<1> QED BY <1>5 DEF S

\* As behind a mark.
LEMMA RunDown ==
    ASSUME NEW n \in Server, WholeLog(log[n]), RunsOn, NEW t \in Nat, NEW i \in Nat,
           Mark(t, i), NEW k \in 1..Len(log[n]), log[n][k].term = t, i < k
    PROVE  i + 1 \in 1..Len(log[n]) /\ log[n][i + 1].term = t
<1>1. \A x \in Links : x[2].term = t /\ i < x[2].index => x[1] = t
    BY DEF RunsOn
<1> QED BY <1>1, RunBack

------------------------------------------------------------------------------
(* What a step does to messages, logs, links and marks.                     *)

\* An AppendEntries reaches to the end of its sender's log, or asks for a place
\* behind it.
LEMMA ReplicateIs ==
    ASSUME NEW n, NEW p, NEW t, NEW l, WholeLog(l), NEW c, NEW next \in Nat, next >= 1
    PROVE  LET x == replicate_to_peer(n, p, t, l, c, next)
           IN  /\ x.kind = "AppendEntries" /\ x.from = n /\ x.term = t /\ x.leader_commit = c
               /\ \/ /\ Top(x) = last_index(l)
                     /\ PlaceTerm(x, Len(x.entries)) = last_term(l)
                  \/ Hollow(x)
<1> DEFINE x == replicate_to_peer(n, p, t, l, c, next)
           es == entries_from(l, next)
<1>1. /\ l \in Log /\ first_index(l) = 0 /\ Len(l) \in Nat /\ Len(l) >= 1
      /\ last_index(l) = Len(l) - 1 /\ last_term(l) = l[Len(l)].term /\ last_term(l) \in Nat
    BY DEF WholeLog
<1>2. ~(next <= first_index(l)) /\ next > first_index(l) /\ next - first_index(l) = next
    BY <1>1
<1>3. /\ x.kind = "AppendEntries" /\ x.from = n /\ x.term = t /\ x.leader_commit = c
      /\ x.prev_log_index = next - 1 /\ x.entries = es
      /\ x.prev_log_term = IF term_at(l, next - 1) = None THEN 0 ELSE term_at(l, next - 1)
    BY <1>2 DEF replicate_to_peer
<1>4. /\ es \in Seq(LogEntry)
      /\ \A k \in 1..Len(es) : es[k] = l[k + next]
      /\ Len(es) = IF next + 1 <= Len(l) THEN Len(l) - next ELSE 0
    BY <1>1, <1>2, EntriesFromIs
<1> HIDE DEF x, es
<1>5. next - 1 \in Nat /\ (next - 1) + 1 = next
    OBVIOUS
<1>6. term_at(l, next - 1) = IF next - 1 < Len(l) THEN l[next].term ELSE None
    BY <1>5, WholeTermAt
<1>7. CASE next + 1 <= Len(l)
  <2>1. Len(es) \in 1..Len(es) /\ Len(es) # 0 /\ Len(es) + next = Len(l) /\ Len(es) \in Nat
      BY <1>1, <1>4, <1>7
  <2>2. es[Len(es)] = l[Len(l)]
      BY <1>4, <2>1
  <2>3. Top(x) = last_index(l)
      BY <1>1, <1>3, <2>1 DEF Top
  <2>4. PlaceTerm(x, Len(x.entries)) = last_term(l)
      BY <1>1, <1>3, <2>1, <2>2 DEF PlaceTerm
  <2> QED BY <1>3, <2>3, <2>4 DEF x
<1>8. CASE next = Len(l)
  <2>1. Len(es) = 0 /\ next - 1 < Len(l)
      BY <1>1, <1>4, <1>8
  <2>2. x.prev_log_term = last_term(l)
      BY <1>1, <1>3, <1>6, <1>8, <2>1, NoneAssumption
  <2>3. Top(x) = last_index(l)
      BY <1>1, <1>3, <1>8, <2>1 DEF Top
  <2>4. PlaceTerm(x, Len(x.entries)) = last_term(l)
      BY <1>3, <2>1, <2>2 DEF PlaceTerm
  <2> QED BY <1>3, <2>3, <2>4 DEF x
<1>9. CASE next > Len(l)
  <2>1. Len(es) = 0 /\ ~(next - 1 < Len(l)) /\ next - 1 >= 1
      BY <1>1, <1>4, <1>9
  <2>2. x.prev_log_term = 0
      BY <1>3, <1>6, <2>1
  <2>3. Hollow(x)
      BY <1>3, <2>1, <2>2 DEF Hollow
  <2> QED BY <1>3, <2>3 DEF x
<1>10. next + 1 <= Len(l) \/ next = Len(l) \/ next > Len(l)
    BY <1>1
<1> QED BY <1>7, <1>8, <1>9, <1>10

\* The log after an AppendEntries holds what the message reached; if it
\* changed at all, it ends there, and the old one lacked some of it.
LEMMA AcceptIs ==
    ASSUME NEW l, WholeLog(l), NEW m \in Message, m.kind = "AppendEntries",
           \A k \in 1..Len(m.entries) : m.entries[k].index = m.prev_log_index + k,
           term_at(l, m.prev_log_index) = m.prev_log_term,
           NEW r, WholeLog(r), r = Taken(l, m.entries)
    PROVE  /\ Top(m) \in Nat /\ Top(m) < Len(r) /\ r[1] = l[1]
           /\ r[Top(m) + 1].term = PlaceTerm(m, Len(m.entries))
           /\ m.prev_log_index < Len(l) /\ l[m.prev_log_index + 1].term = m.prev_log_term
           /\ \/ r = l
              \/ /\ Len(r) = Top(m) + 1
                 /\ last_index(r) = Top(m) /\ last_term(r) = PlaceTerm(m, Len(m.entries))
                 /\ \E k \in 1..Len(m.entries) :
                        term_at(l, m.prev_log_index + k) # m.entries[k].term
<1> DEFINE es     == m.entries
           prev   == m.prev_log_index
           held   == already_held(l, es)
           suffix == SubSeq(es, held + 1, Len(es))
           attach == es[1].index + held
           top    == Top(m)
<1>1. /\ es \in Seq(LogEntry) /\ prev \in Nat /\ m.prev_log_term \in Nat
      /\ Len(es) \in Nat
    BY MessageFields
<1>2. top = prev + Len(es) /\ top \in Nat
    BY <1>1 DEF Top
<1>3. l \in Log /\ first_index(l) = 0 /\ Len(l) \in Nat
    BY DEF WholeLog
<1>4. prev < Len(l) /\ l[prev + 1].term = m.prev_log_term /\ term_at(l, prev) # None
    BY <1>1, WholeTermAt, NoneAssumption
<1>5. held \in 0..Len(es) /\ \A j \in 1..held : term_at(l, es[j].index) = es[j].term
    BY <1>1, AlreadyHeldType, AlreadyHeldIs
<1>6. CASE suffix = << >>
  <2>1. r = l
      BY <1>6 DEF Taken
  <2>2. held = Len(es)
    <3>1. SUFFICES ASSUME held < Len(es) PROVE FALSE
        BY <1>1, <1>5
    <3>2. \A i \in (held + 1)..Len(es) : es[i] \in LogEntry
        BY <1>1, <1>5
    <3> HIDE DEF held
    <3>3. Len(suffix) = IF held + 1 <= Len(es) THEN Len(es) - (held + 1) + 1 ELSE 0
        BY <1>1, <1>5, <3>2, SubSeqProperties
    <3>4. Len(suffix) >= 1
        BY <1>1, <1>5, <3>1, <3>3
    <3>5. Len(suffix) = 0
      <4> HIDE DEF suffix
      <4> QED BY <1>6
    <3> HIDE DEF suffix
    <3> QED BY <3>4, <3>5
  <2>3. CASE Len(es) = 0
    <3>1. top = prev /\ PlaceTerm(m, Len(es)) = m.prev_log_term
        BY <1>1, <1>2, <2>3 DEF PlaceTerm
    <3> QED BY <1>2, <1>4, <2>1, <3>1
  <2>4. CASE Len(es) # 0
    <3>1. Len(es) \in 1..Len(es)
        BY <1>1, <2>4
    <3>2. es[Len(es)].index = top /\ es[Len(es)] \in LogEntry
        BY <1>1, <1>2, <3>1
    <3>3. term_at(l, top) = es[Len(es)].term
        BY <1>5, <2>2, <3>1, <3>2
    <3>4. es[Len(es)].term \in Nat
        BY <3>2 DEF LogEntry
    <3>5. top < Len(l) /\ l[top + 1].term = es[Len(es)].term
        BY <1>2, <3>3, <3>4, WholeTermAt, NoneAssumption
    <3>6. PlaceTerm(m, Len(es)) = es[Len(es)].term
        BY <2>4 DEF PlaceTerm
    <3> QED BY <1>2, <1>4, <2>1, <3>5, <3>6
  <2> QED BY <2>3, <2>4
<1>7. CASE suffix # << >>
  <2>1. /\ attach \in Nat /\ attach <= Len(l) /\ attach = prev + 1 + held
        /\ suffix \in Seq(LogEntry) /\ Len(suffix) = Len(es) - held
        /\ \A k \in 1..Len(suffix) : /\ held + k \in 1..Len(es)
                                     /\ suffix[k] = es[held + k]
    <3>1. /\ \A k \in 1..Len(es) : es[k].index = prev + k
          /\ suffix # << >> /\ term_at(l, prev) # None
        BY <1>4, <1>7
    <3> HIDE DEF es, prev
    <3>2. /\ attach \in Nat /\ attach > first_index(l)
          /\ attach - first_index(l) <= Len(l)
          /\ attach = prev + 1 + held /\ held \in 0..Len(es)
          /\ suffix \in Seq(LogEntry) /\ Len(suffix) = Len(es) - held
          /\ \A j \in 1..Len(suffix) : /\ held + j \in 1..Len(es)
                                       /\ suffix[j] = es[held + j]
                                       /\ suffix[j].index = attach + j - 1
        BY <1>1, <1>3, <3>1, AcceptPlace
    <3> HIDE DEF attach, suffix, held
    <3>3. attach - first_index(l) = attach
        BY <1>3, <3>2
    <3> QED BY <3>2, <3>3
  <2>2. Len(suffix) >= 1 /\ Len(suffix) \in Nat
      BY <1>7, <2>1, EmptySeq
  <2>3. r = truncate(l, attach) \o suffix
    <3>1. r = truncate(l, attach - first_index(l)) \o suffix
        BY <1>7 DEF Taken, truncate_and_append
    <3>2. attach - first_index(l) = attach
        BY <1>3, <2>1
    <3> QED BY <3>1, <3>2
  <2> HIDE DEF attach, suffix
  <2>4. /\ Len(r) = attach + Len(suffix)
        /\ \A i \in 1..Len(suffix) : r[attach + i] = suffix[i]
    <3>1. attach \in Nat /\ attach <= Len(l) /\ suffix \in Seq(LogEntry)
        BY <2>1
    <3>2. /\ Len(truncate(l, attach) \o suffix) = attach + Len(suffix)
          /\ \A i \in 1..Len(suffix) : (truncate(l, attach) \o suffix)[attach + i] = suffix[i]
        BY <1>3, <3>1, SpliceIs
    <3> QED BY <2>3, <3>2
  <2>5. Len(r) = top + 1 /\ held < Len(es) /\ held \in Nat /\ Len(es) >= 1
    <3> HIDE DEF es, prev, held, top
    <3>1. attach = prev + 1 + held /\ Len(suffix) = Len(es) - held /\ attach \in Nat
        BY <2>1
    <3>2. Len(r) = attach + Len(suffix) /\ held \in 0..Len(es)
        BY <1>5, <2>4
    <3>3. Len(es) \in Nat /\ prev \in Nat /\ top = prev + Len(es)
        BY <1>1, <1>2
    <3>4. held \in Nat /\ Len(es) - held >= 1
        BY <2>2, <3>1, <3>2, <3>3
    <3> QED BY <3>1, <3>2, <3>3, <3>4
  <2>6. r[Len(r)] = es[Len(es)]
    <3> HIDE DEF es, prev, held, top
    <3>1. Len(suffix) \in 1..Len(suffix) /\ held + Len(suffix) = Len(es)
        BY <1>1, <2>1, <2>2, <2>5
    <3>2. suffix[Len(suffix)] = es[Len(es)]
        BY <2>1, <3>1
    <3> QED BY <2>4, <3>1, <3>2
  <2>7. PlaceTerm(m, Len(es)) = es[Len(es)].term
      BY <2>5 DEF PlaceTerm
  <2>8. last_index(r) = top /\ last_term(r) = PlaceTerm(m, Len(es))
    <3> HIDE DEF es, prev, held, top
    <3>1. last_index(r) = Len(r) - 1 /\ last_term(r) = r[Len(r)].term
        BY DEF WholeLog
    <3> QED BY <1>2, <2>5, <2>6, <2>7, <3>1
  <2>9. \E k \in 1..Len(es) : term_at(l, prev + k) # es[k].term
    <3> SUFFICES ASSUME \A k \in 1..Len(es) : term_at(l, prev + k) = es[k].term PROVE FALSE
        OBVIOUS
    <3> DEFINE S == {k \in 0..Len(es) : \A j \in 1..k : term_at(l, es[j].index) = es[j].term}
    <3>1. Len(es) \in S /\ S \subseteq Nat /\ \A k \in S : k <= Len(es)
        BY <1>1
    <3>2. held = Max(S)
        BY DEF already_held
    <3> HIDE DEF S, held
    <3>3. Len(es) <= Max(S)
        BY <1>1, <3>1, MaxIn
    <3> QED BY <1>1, <2>5, <3>2, <3>3
  <2>10. r[1] = l[1]
    <3>1. attach \in Nat /\ attach <= Len(l) /\ suffix \in Seq(LogEntry) /\ attach >= 1
      <4>1. attach \in Nat /\ attach <= Len(l) /\ suffix \in Seq(LogEntry)
            /\ attach = prev + 1 + held /\ prev \in Nat
          BY <1>1, <2>1
      <4> HIDE DEF prev, held
      <4> QED BY <2>5, <4>1
    <3>2. \A i \in 1..attach : (truncate(l, attach) \o suffix)[i] = l[i]
        BY <1>3, <3>1, SpliceIs
    <3>3. 1 \in 1..attach
        BY <3>1
    <3>4. (truncate(l, attach) \o suffix)[1] = l[1]
        BY <3>2, <3>3, Zenon
    <3> QED BY <2>3, <3>4, Zenon
  <2>11. top < Len(r) /\ r[top + 1].term = PlaceTerm(m, Len(es))
    <3> HIDE DEF es, prev, held, top
    <3> QED BY <1>2, <2>5, <2>6, <2>7
  <2> QED BY <1>2, <1>4, <2>5, <2>8, <2>9, <2>11, <2>10
<1> QED BY <1>6, <1>7

\* What is known of a step of node n.
Moves(n) ==
    BaseInv /\ BaseInv' /\ MarkInv /\ VotesKept /\ Alone(n) /\ Acts(n)

\* What an AppendEntries in flight is.
LEMMA SentIs ==
    ASSUME BaseInv, NEW m \in in_flight, m.kind = "AppendEntries"
    PROVE  /\ m \in Message /\ m.from \in Server /\ m.term \in Nat /\ m.term >= 1
           /\ m.entries \in Seq(LogEntry) /\ Len(m.entries) \in Nat
           /\ m.prev_log_index \in Nat /\ m.prev_log_term \in Nat /\ m.leader_commit \in Nat
           /\ Top(m) \in Nat /\ <<m.term, m.from>> \in term_leaders
           /\ \A k \in 1..Len(m.entries) : m.entries[k].index = m.prev_log_index + k
<1>1. m \in Message
    BY DEF BaseInv, TypeOK
<1>2. /\ m.from \in Server /\ m.term \in Nat /\ m.entries \in Seq(LogEntry)
      /\ m.prev_log_index \in Nat /\ m.prev_log_term \in Nat /\ m.leader_commit \in Nat
    BY <1>1, MessageFields
<1>3. <<m.term, m.from>> \in term_leaders
    BY DEF BaseInv, HintInv, LeadersSend, FromLeader
<1>4. <<m.term, m.from>>[1] >= 1
    BY <1>3 DEF BaseInv, HintInv, TermsAreReal
<1>5. \A k \in 1..Len(m.entries) : m.entries[k].index = m.prev_log_index + k
    BY DEF BaseInv, DurabilityInv, SentInOrder, InOrder
<1>6. Len(m.entries) \in Nat
    BY <1>2
<1>7. Top(m) \in Nat
    BY <1>2, <1>6 DEF Top
<1> QED BY <1>1, <1>2, <1>3, <1>4, <1>5, <1>6, <1>7

\* Terms go up, leaders stay listed, and at most one node leads a term.
LEMMA MovesIs ==
    ASSUME NEW n \in Server, Moves(n)
    PROVE  /\ BaseInv /\ BaseInv' /\ MarkInv /\ Alone(n) /\ Acts(n)
           /\ \A p \in Server : /\ WholeLog(log[p]) /\ WholeLog(log'[p])
                                /\ current_term[p] \in Nat /\ current_term'[p] \in Nat
                                /\ current_term[p] <= current_term'[p]
           /\ term_leaders \subseteq term_leaders'
           /\ \A p \in Server : role'[p] = "Leader" => /\ <<current_term'[p], p>> \in term_leaders'
                                                       /\ current_term'[p] >= 1
           /\ \A p, q, t : <<t, p>> \in term_leaders' /\ <<t, q>> \in term_leaders' => p = q
<1>1. BaseInv /\ BaseInv' /\ MarkInv /\ Alone(n) /\ Acts(n) /\ VotesKept
    BY DEF Moves
<1>2. ASSUME NEW p \in Server
      PROVE  /\ WholeLog(log[p]) /\ WholeLog(log'[p])
             /\ current_term[p] \in Nat /\ current_term'[p] \in Nat
             /\ current_term[p] <= current_term'[p]
  <2>1. current_term'[p] >= current_term[p]
      BY <1>1 DEF VotesKept
  <2>2. /\ WholeLog(log[p]) /\ WholeLog(log'[p])
        /\ current_term[p] \in Nat /\ current_term'[p] \in Nat
      BY <1>1, LogsAreWhole
  <2> QED BY <2>1, <2>2
<1>3. term_leaders \subseteq term_leaders'
    BY <1>1 DEF Acts, Rests, Campaigns, Grants, Wins, Proposes, Accepts, Commits
<1>4. ASSUME NEW p \in Server, role'[p] = "Leader"
      PROVE  <<current_term'[p], p>> \in term_leaders' /\ current_term'[p] >= 1
  <2>1. <<current_term'[p], p>> \in term_leaders'
      BY <1>1, <1>4 DEF BaseInv, DurabilityInv, LeadersAreListed
  <2>2. <<current_term'[p], p>>[1] >= 1
      BY <1>1, <2>1 DEF BaseInv, HintInv, TermsAreReal
  <2> QED BY <2>1, <2>2
<1>5. ASSUME NEW p, NEW q, NEW t, <<t, p>> \in term_leaders', <<t, q>> \in term_leaders'
      PROVE  p = q
  <2>1. TypeOK' /\ ElectionInv'
      BY <1>1 DEF BaseInv
  <2>2. (TypeOK /\ ElectionInv => ElectionSafety)'
      BY InvImpliesSafety, PTL
  <2>3. ElectionSafety'
      BY <2>1, <2>2
  <2> QED BY <1>5, <2>3 DEF ElectionSafety
<1> QED BY <1>1, <1>2, <1>3, <1>4, <1>5

\* Nobody led the term that a node wins, and no mark is of it.
LEMMA WinsFirst ==
    ASSUME NEW n \in Server, Moves(n), Wins(n)
    PROVE  /\ \A q \in Server : <<current_term[n], q>> \notin term_leaders
           /\ \A i \in Nat : ~Mark(current_term[n], i)
<1>1. BaseInv /\ MarkInv /\ current_term[n] \in Nat
    BY MovesIs
<1>2. \A q \in Server : <<current_term[n], q>> \notin term_leaders
  <2>1. PICK Q \in SUBSET Server : ElectedBy(Q, current_term[n], n)
      BY DEF Wins
  <2> QED BY <1>1, <2>1, NobodyLed DEF BaseInv, DurabilityInv, Wins
<1> QED BY <1>1, <1>2 DEF MarkInv, MarksLed

\* Who leads or stands after a step did so before it, or has just been elected
\* or started to stand.
LEMMA RolesActs ==
    ASSUME NEW n \in Server, Moves(n), NEW p \in Server
    PROVE  /\ role'[p] = "Leader" =>
                  \/ role[p] = "Leader" /\ current_term'[p] = current_term[p]
                  \/ p = n /\ Wins(n)
           /\ role'[p] = "Candidate" =>
                  \/ /\ role[p] = "Candidate" /\ current_term'[p] = current_term[p]
                     /\ log'[p] = log[p]
                  \/ p = n /\ Campaigns(n)
<1>1. Alone(n) /\ Acts(n)
    BY MovesIs
<1>2. CASE p # n
    BY <1>1, <1>2 DEF Alone
<1>3. CASE p = n
  <2>1. CASE Rests(n)
      BY <1>3, <2>1 DEF Rests
  <2>2. CASE Campaigns(n)
      BY <1>3, <2>2 DEF Campaigns
  <2>3. ASSUME NEW m \in in_flight, Grants(n, m)
        PROVE  /\ role'[n] = "Leader" => role[n] = "Leader" /\ current_term'[n] = current_term[n]
               /\ role'[n] = "Candidate" => /\ role[n] = "Candidate" /\ log'[n] = log[n]
                                            /\ current_term'[n] = current_term[n]
      BY <2>3 DEF Grants
  <2>4. CASE Wins(n)
      BY <1>3, <2>4 DEF Wins
  <2>5. ASSUME NEW c \in Command, Proposes(n, c)
        PROVE  role'[n] = "Leader" /\ role[n] = "Leader" /\ current_term'[n] = current_term[n]
      BY <2>5 DEF Proposes
  <2>6. ASSUME NEW m \in in_flight, Accepts(n, m) PROVE role'[n] = "Follower"
      BY <2>6 DEF Accepts
  <2>7. CASE Commits(n)
      BY <1>3, <2>7 DEF Commits
  <2> QED BY <1>1, <1>3, <2>1, <2>2, <2>3, <2>4, <2>5, <2>6, <2>7 DEF Acts
<1> QED BY <1>2, <1>3

\* What an accepted AppendEntries finds and leaves: it is of the other kind
\* never, for no log has an entry of term 0.
LEMMA AcceptedIs ==
    ASSUME NEW n \in Server, Moves(n), NEW m \in in_flight, Accepts(n, m)
    PROVE  /\ Carries(m) /\ Mark(m.term, Top(m)) /\ Top(m) \in Nat
           /\ m.term \in Nat /\ m.term >= current_term[n] /\ current_term'[n] = m.term
           /\ Top(m) < Len(log'[n]) /\ log'[n][Top(m) + 1].term = m.term
           /\ log'[n][1] = log[n][1]
           /\ m.prev_log_index < Len(log[n])
           /\ log[n][m.prev_log_index + 1].term = m.prev_log_term
           /\ \/ log'[n] = log[n]
              \/ /\ last_index(log'[n]) = Top(m) /\ last_term(log'[n]) = m.term
                 /\ \E k \in 1..Len(m.entries) :
                        term_at(log[n], m.prev_log_index + k) # m.entries[k].term
<1>1. BaseInv /\ MarkInv /\ WholeLog(log[n]) /\ WholeLog(log'[n])
    BY MovesIs
<1>2. /\ m.kind = "AppendEntries" /\ m.term >= current_term[n] /\ current_term'[n] = m.term
      /\ term_at(log[n], m.prev_log_index) = m.prev_log_term
      /\ log'[n] = Taken(log[n], m.entries)
    BY DEF Accepts
<1>3. /\ m \in Message /\ m.term \in Nat /\ m.entries \in Seq(LogEntry)
      /\ m.prev_log_index \in Nat /\ Top(m) \in Nat
      /\ \A k \in 1..Len(m.entries) : m.entries[k].index = m.prev_log_index + k
    BY <1>1, <1>2, SentIs
<1>4. /\ Top(m) \in Nat /\ Top(m) < Len(log'[n]) /\ log'[n][1] = log[n][1]
      /\ log'[n][Top(m) + 1].term = PlaceTerm(m, Len(m.entries))
      /\ m.prev_log_index < Len(log[n])
      /\ log[n][m.prev_log_index + 1].term = m.prev_log_term
      /\ \/ log'[n] = log[n]
         \/ /\ Len(log'[n]) = Top(m) + 1
            /\ last_index(log'[n]) = Top(m)
            /\ last_term(log'[n]) = PlaceTerm(m, Len(m.entries))
            /\ \E k \in 1..Len(m.entries) :
                   term_at(log[n], m.prev_log_index + k) # m.entries[k].term
  <2> DEFINE l == log[n]
             r == log'[n]
  <2>1. /\ WholeLog(l) /\ WholeLog(r) /\ m \in Message /\ m.kind = "AppendEntries"
        /\ \A k \in 1..Len(m.entries) : m.entries[k].index = m.prev_log_index + k
        /\ term_at(l, m.prev_log_index) = m.prev_log_term
        /\ r = Taken(l, m.entries)
      BY <1>1, <1>2, <1>3, Zenon
  <2> HIDE DEF l, r
  <2>2. /\ Top(m) \in Nat /\ Top(m) < Len(r) /\ r[1] = l[1]
        /\ r[Top(m) + 1].term = PlaceTerm(m, Len(m.entries))
        /\ m.prev_log_index < Len(l) /\ l[m.prev_log_index + 1].term = m.prev_log_term
        /\ \/ r = l
           \/ /\ Len(r) = Top(m) + 1
              /\ last_index(r) = Top(m) /\ last_term(r) = PlaceTerm(m, Len(m.entries))
              /\ \E k \in 1..Len(m.entries) :
                     term_at(l, m.prev_log_index + k) # m.entries[k].term
      BY <2>1, AcceptIs
  <2> QED BY <2>2, Zenon DEF l, r
<1>5. ~Hollow(m)
  <2> SUFFICES ASSUME Hollow(m) PROVE FALSE
      OBVIOUS
  <2>1. m.prev_log_term = 0 /\ m.prev_log_index >= 1
      BY DEF Hollow
  <2>2. Len(log[n]) \in Nat /\ \A k \in 2..Len(log[n]) : log[n][k].term >= 1
      BY <1>1 DEF WholeLog
  <2>3. m.prev_log_index + 1 \in 2..Len(log[n])
      BY <1>3, <1>4, <2>1, <2>2
  <2>4. log[n][m.prev_log_index + 1].term >= 1
      BY <2>2, <2>3
  <2> QED BY <1>4, <2>1, <2>4
<1>6. Carries(m)
    BY <1>1, <1>2, <1>5 DEF MarkInv, SentCarries
<1>7. PlaceTerm(m, Len(m.entries)) = m.term
    BY <1>6 DEF Carries
<1>8. Mark(m.term, Top(m))
    BY <1>6 DEF Mark
<1> QED BY <1>2, <1>3, <1>4, <1>6, <1>7, <1>8

\* What a leader puts behind its log.
LEMMA AppendedIs ==
    ASSUME NEW l, WholeLog(l), NEW t \in Nat, NEW c \in Command \cup {Noop},
           NEW r, r = Grown(l, t, c)
    PROVE  /\ Len(r) = Len(l) + 1 /\ last_index(r) = last_index(l) + 1 /\ last_term(r) = t
           /\ \A k \in 1..Len(l) : r[k] = l[k]
           /\ r[Len(l) + 1] = Entry(last_index(l) + 1, t, c)
           /\ Entry(last_index(l) + 1, t, c) \in LogEntry
           /\ LinksOf(r) \subseteq
                  LinksOf(l) \cup {<<last_term(l), Entry(last_index(l) + 1, t, c)>>}
<1> DEFINE e == Entry(last_index(l) + 1, t, c)
<1>1. l \in Log /\ Len(l) \in Nat /\ last_index(l) = Len(l) - 1 /\ last_index(l) \in Nat
    BY LogType DEF WholeLog
<1>2. l \in Seq(LogEntry)
    BY <1>1, LogType
<1>3. e \in LogEntry /\ e.index = last_index(l) + 1 /\ e.term = t
  <2>1. e \in LogEntry
      BY <1>1 DEF Entry, LogEntry
  <2>2. e.index = last_index(l) + 1 /\ e.term = t
      BY DEF Entry
  <2> QED BY <2>1, <2>2
<1>4. r = Append(l, e)
    BY DEF Grown
<1> HIDE DEF e
<1>5. /\ Len(r) = Len(l) + 1 /\ r[Len(l) + 1] = e /\ \A k \in 1..Len(l) : r[k] = l[k]
    BY <1>1, <1>2, <1>3, <1>4
<1>6. last_index(r) = last_index(l) + 1 /\ last_term(r) = t
    BY <1>3, <1>5 DEF last_index, last_term
<1>7. LinksOf(r) \subseteq LinksOf(l) \cup {<<last_term(l), e>>}
    BY <1>1, <1>3, <1>4, AppendLinks
<1> QED BY <1>3, <1>5, <1>6, <1>7 DEF e

\* A log stays as it is, grows by a leader's entry, or takes entries over.
LEMMA LogActs ==
    ASSUME NEW n \in Server, Moves(n)
    PROVE  \/ log'[n] = log[n]
           \/ /\ \E c \in Command \cup {Noop} :
                     /\ log'[n] = Grown(log[n], current_term[n], c)
                     /\ (c = Noop /\ Wins(n)) \/ (c \in Command /\ Proposes(n, c))
              /\ role'[n] = "Leader" /\ current_term'[n] = current_term[n]
              /\ last_index(log'[n]) = last_index(log[n]) + 1
              /\ last_term(log'[n]) = current_term[n]
           \/ \E m \in in_flight : /\ Accepts(n, m) /\ last_index(log'[n]) = Top(m)
                                   /\ last_term(log'[n]) = m.term
                                   /\ \E k \in 1..Len(m.entries) :
                                          term_at(log[n], m.prev_log_index + k)
                                              # m.entries[k].term
<1>1. Acts(n) /\ WholeLog(log[n]) /\ current_term[n] \in Nat
    BY MovesIs
<1>2. CASE Rests(n) \/ Campaigns(n) \/ (\E m \in in_flight : Grants(n, m)) \/ Commits(n)
    BY <1>2 DEF Rests, Campaigns, Grants, Commits
<1>3. ASSUME NEW c \in Command \cup {Noop},
             (c = Noop /\ Wins(n)) \/ (c \in Command /\ Proposes(n, c))
      PROVE  /\ log'[n] = Grown(log[n], current_term[n], c)
             /\ role'[n] = "Leader" /\ current_term'[n] = current_term[n]
             /\ last_index(log'[n]) = last_index(log[n]) + 1
             /\ last_term(log'[n]) = current_term[n]
  <2>1. /\ log'[n] = Grown(log[n], current_term[n], c)
        /\ role'[n] = "Leader" /\ current_term'[n] = current_term[n]
      BY <1>3 DEF Wins, Proposes
  <2>2. last_index(log'[n]) = last_index(log[n]) + 1 /\ last_term(log'[n]) = current_term[n]
      BY <1>1, <2>1, AppendedIs
  <2> QED BY <2>1, <2>2
<1>4. ASSUME NEW m \in in_flight, Accepts(n, m)
      PROVE  \/ log'[n] = log[n]
             \/ /\ last_index(log'[n]) = Top(m) /\ last_term(log'[n]) = m.term
                /\ \E k \in 1..Len(m.entries) :
                       term_at(log[n], m.prev_log_index + k) # m.entries[k].term
    BY <1>4, AcceptedIs
<1>5. Noop \in Command \cup {Noop} /\ \A c \in Command : c \in Command \cup {Noop}
    OBVIOUS
<1>6. CASE Wins(n)
    BY <1>3, <1>5, <1>6
<1>7. ASSUME NEW c \in Command, Proposes(n, c)
      PROVE  /\ \E d \in Command \cup {Noop} :
                    /\ log'[n] = Grown(log[n], current_term[n], d)
                    /\ (d = Noop /\ Wins(n)) \/ (d \in Command /\ Proposes(n, d))
             /\ role'[n] = "Leader" /\ current_term'[n] = current_term[n]
             /\ last_index(log'[n]) = last_index(log[n]) + 1
             /\ last_term(log'[n]) = current_term[n]
    BY <1>3, <1>5, <1>7
<1> QED BY <1>1, <1>2, <1>4, <1>6, <1>7 DEF Acts

\* The end of a log never goes down.  Entries of an AppendEntries of the log's
\* last term that ends below its end are all in the log already.
LEMMA LastGrows ==
    ASSUME NEW n \in Server, Moves(n), NEW p \in Server
    PROVE  Below(last_term(log[p]), last_index(log[p]), last_term(log'[p]), last_index(log'[p]))
<1>1. /\ BaseInv /\ MarkInv /\ Alone(n) /\ WholeLog(log[p]) /\ WholeLog(log'[p])
      /\ current_term[p] \in Nat
    BY MovesIs
<1>2. /\ last_term(log[p]) \in Nat /\ last_index(log[p]) \in Nat /\ Len(log[p]) \in Nat
      /\ last_index(log[p]) = Len(log[p]) - 1 /\ last_term(log[p]) = log[p][Len(log[p])].term
    BY <1>1, LogType DEF WholeLog
<1>3. last_term(log[p]) <= current_term[p]
    BY <1>1 DEF MarkInv, LastTerms
<1>4. CASE log'[p] = log[p]
    BY <1>2, <1>4 DEF Below
<1>5. CASE p # n
    BY <1>1, <1>4, <1>5 DEF Alone
<1>6. CASE /\ p = n /\ last_index(log'[n]) = last_index(log[n]) + 1
           /\ last_term(log'[n]) = current_term[n]
    BY <1>1, <1>2, <1>3, <1>6 DEF Below
<1>7. ASSUME p = n, NEW m \in in_flight, Accepts(n, m), last_index(log'[n]) = Top(m),
             last_term(log'[n]) = m.term, NEW h \in 1..Len(m.entries),
             term_at(log[n], m.prev_log_index + h) # m.entries[h].term
      PROVE  Below(last_term(log[n]), last_index(log[n]), m.term, Top(m))
  <2> DEFINE l == log[n]
             es == m.entries
             prev == m.prev_log_index
             top == Top(m)
  <2>1. /\ Carries(m) /\ Mark(m.term, top) /\ top \in Nat /\ m.term \in Nat
        /\ m.term >= current_term[n]
      BY <1>7, AcceptedIs
  <2>2. /\ m.kind = "AppendEntries" /\ prev \in Nat /\ Len(es) \in Nat /\ es \in Seq(LogEntry)
        /\ \A k \in 1..Len(es) : es[k].index = prev + k
      BY <1>1, <2>1, SentIs DEF Carries
  <2>3. top = prev + Len(es)
      BY DEF Top
  <2>4. Len(l) \in Nat /\ WholeLog(l) /\ OneLink /\ RunsOn
      BY <1>1, <1>2, <1>7 DEF BaseInv, MatchInv, MarkInv
  <2> SUFFICES ASSUME last_term(l) = m.term, last_index(l) > top PROVE FALSE
      BY <1>1, <1>2, <1>3, <1>7, <2>1 DEF Below
  <2>5. Len(l) \in 1..Len(l) /\ l[Len(l)].term = m.term /\ top < Len(l)
    <3> HIDE DEF top
    <3> QED BY <1>2, <1>7, <2>1
  <2>6. l[top + 1].term = m.term /\ top + 1 \in 1..Len(l)
    <3> HIDE DEF top, l
    <3>1. /\ Mark(m.term, top) /\ top \in Nat /\ m.term \in Nat /\ WholeLog(log[n]) /\ RunsOn
          /\ Len(log[n]) \in 1..Len(log[n]) /\ log[n][Len(log[n])].term = m.term
          /\ top < Len(log[n])
        BY <2>1, <2>4, <2>5 DEF l
    <3>2. top + 1 \in 1..Len(log[n]) /\ log[n][top + 1].term = m.term
        BY <3>1, RunDown
    <3> QED BY <3>2 DEF l
  <2> DEFINE S == {k \in 1..Len(es) : es[k].term = l[prev + k + 1].term}
  <2>7. Len(es) \in S
    <3>1. PlaceTerm(m, Len(es)) = m.term /\ Len(es) # 0
        BY <1>7, <2>1, <2>2 DEF Carries
    <3>2. es[Len(es)].term = m.term
        BY <3>1 DEF PlaceTerm
    <3> HIDE DEF es, prev, l, top
    <3> QED BY <2>2, <2>3, <2>6, <3>1, <3>2
  <2>8. ASSUME NEW k \in Nat, 1 <= k, k < Len(es), k + 1 \in S PROVE k \in S
    <3> DEFINE x == <<l[prev + k + 1].term, l[prev + k + 2]>>
               y == <<es[k].term, es[k + 1]>>
    <3>1. k \in 1..Len(es) /\ k + 1 \in 1..Len(es) /\ (k + 1) - 1 = k /\ k # 0
        BY <2>2, <2>8
    <3>2. y \in Links
      <4>1. PlaceTerm(m, k) = es[k].term
          BY <3>1 DEF PlaceTerm
      <4>2. <<PlaceTerm(m, (k + 1) - 1), es[k + 1]>> \in SentLinks(m)
          BY <2>2, <3>1, Zenon DEF SentLinks
      <4>3. y \in SentLinks(m)
        <5> HIDE DEF es
        <5> QED BY <3>1, <4>1, <4>2
      <4> HIDE DEF y
      <4> QED BY <4>3, LinkIn
    <3>3. y[2].index = prev + k + 1
      <4>1. es[k + 1].index = prev + (k + 1)
          BY <2>2, <3>1
      <4> HIDE DEF es, prev
      <4> QED BY <2>2, <4>1
    <3>4. /\ prev + k + 1 \in Nat /\ prev + k + 1 >= 1 /\ prev + k + 1 < Len(l)
          /\ (prev + k + 1) + 1 = prev + k + 2 /\ prev + (k + 1) + 1 = prev + k + 2
      <4> HIDE DEF es, prev, l, top
      <4> QED BY <2>2, <2>3, <2>4, <2>5, <2>8
    <3>5. x \in Links /\ x[2].index = prev + k + 1
      <4>1. /\ <<l[prev + k + 1].term, l[(prev + k + 1) + 1]>> \in Links
            /\ l[(prev + k + 1) + 1].index = prev + k + 1
        <5> HIDE DEF prev
        <5> QED BY <2>4, <3>4, LogLink
      <4> HIDE DEF prev, l
      <4> QED BY <3>4, <4>1
    <3>6. x[2].term = y[2].term
      <4> HIDE DEF prev, l, es
      <4> QED BY <2>8, <3>4
    <3>7. x = y
      <4> HIDE DEF x, y
      <4> QED BY <2>4, <3>2, <3>3, <3>5, <3>6 DEF OneLink
    <3> HIDE DEF prev, l, es
    <3> QED BY <3>1, <3>7
  <2>9. \A k \in Nat : 1 <= k /\ k <= Len(es) => k \in S
    <3> HIDE DEF S, es, prev, l
    <3> QED BY <2>2, <2>7, <2>8, Downwards
  <2>10. h \in S
    <3> HIDE DEF S
    <3> QED BY <1>7, <2>2, <2>9
  <2>11. term_at(l, prev + h) = l[prev + h + 1].term
    <3>1. prev + h \in Nat /\ prev + h < Len(l)
      <4>1. h \in 1..Len(es)
          BY <1>7
      <4> HIDE DEF es, prev, l, top
      <4> QED BY <2>2, <2>3, <2>4, <2>5, <4>1
    <3> HIDE DEF es, prev, l, top
    <3> QED BY <2>4, <3>1, WholeTermAt
  <2> QED BY <1>7, <2>10, <2>11
<1> QED BY <1>4, <1>5, <1>6, <1>7, LogActs

\* What a step puts in flight.
LEMMA SentActs ==
    ASSUME NEW n \in Server, Moves(n), NEW x \in in_flight', x \notin in_flight
    PROVE  \/ x.kind \in Plain
           \/ /\ x.kind = "RequestVote" /\ x.from = n /\ x.term = current_term'[n]
              /\ role'[n] = "Candidate" /\ log'[n] = log[n]
              /\ x.last_log_term = last_term(log[n]) /\ x.last_log_index = last_index(log[n])
           \/ /\ x.kind = "AppendEntries" /\ x.from = n /\ x.term = current_term[n]
              /\ role'[n] = "Leader" /\ current_term'[n] = current_term[n]
              /\ x.leader_commit = commit_index[n] /\ SentLinks(x) \subseteq LinksOf(log'[n])
              /\ \/ /\ Top(x) = last_index(log'[n])
                    /\ PlaceTerm(x, Len(x.entries)) = last_term(log'[n])
                 \/ Hollow(x)
<1>1. WholeLog(log'[n]) /\ Alone(n)
    BY MovesIs
<1>2. SentBy(n, x)
    BY <1>1 DEF Alone
<1>3. CASE SendsRequest(n, x)
    BY <1>3 DEF SendsRequest, Vote
<1>4. CASE SendsEntries(n, x)
  <2>1. PICK p \in Server, next \in Nat :
            /\ next >= 1
            /\ x = replicate_to_peer(n, p, current_term[n], log'[n], commit_index[n], next)
      BY <1>4 DEF SendsEntries
  <2>2. role'[n] = "Leader" /\ current_term'[n] = current_term[n]
      BY <1>4 DEF SendsEntries
  <2>3. log'[n] \in Log
      BY <1>1 DEF WholeLog
  <2>4. SentLinks(x) \subseteq LinksOf(log'[n])
      BY <2>1, <2>3, ReplicateLinks
  <2>5. /\ x.kind = "AppendEntries" /\ x.from = n /\ x.term = current_term[n]
        /\ x.leader_commit = commit_index[n]
        /\ \/ /\ Top(x) = last_index(log'[n])
              /\ PlaceTerm(x, Len(x.entries)) = last_term(log'[n])
           \/ Hollow(x)
      BY <1>1, <2>1, ReplicateIs
  <2> QED BY <2>2, <2>4, <2>5
<1> QED BY <1>2, <1>3, <1>4 DEF SentBy

\* A new link is the one a leader makes behind its log.
NewLink(n, x) ==
    \E c \in Command \cup {Noop} :
        /\ x = <<last_term(log[n]), Entry(last_index(log[n]) + 1, current_term[n], c)>>
        /\ (c = Noop /\ Wins(n)) \/ (c \in Command /\ Proposes(n, c))

\* Every link after a step was there before it or is a new one.
LEMMA LinksActs ==
    ASSUME NEW n \in Server, Moves(n), NEW x \in Links'
    PROVE  x \in Links \/ NewLink(n, x)
<1>1. /\ BaseInv /\ Alone(n) /\ Acts(n) /\ WholeLog(log[n]) /\ WholeLog(log'[n])
      /\ current_term[n] \in Nat
    BY MovesIs
<1>2. ASSUME NEW y \in LinksOf(log'[n]) PROVE y \in Links \/ NewLink(n, y)
  <2>1. CASE log'[n] = log[n]
      BY <1>2, <2>1, LinkIn
  <2>2. ASSUME NEW c \in Command \cup {Noop}, log'[n] = Grown(log[n], current_term[n], c),
               (c = Noop /\ Wins(n)) \/ (c \in Command /\ Proposes(n, c))
        PROVE  y \in Links \/ NewLink(n, y)
    <3> DEFINE z == <<last_term(log[n]), Entry(last_index(log[n]) + 1, current_term[n], c)>>
    <3>1. LinksOf(log'[n]) \subseteq LinksOf(log[n]) \cup {z}
        BY <1>1, <2>2, AppendedIs
    <3>2. NewLink(n, z)
        BY <2>2 DEF NewLink
    <3> HIDE DEF z
    <3>3. y \in LinksOf(log[n]) \/ y = z
        BY <1>2, <3>1
    <3> QED BY <3>2, <3>3, LinkIn
  <2>3. ASSUME NEW m \in in_flight, Accepts(n, m), log'[n] # log[n] PROVE y \in Links
    <3>1. /\ m.kind = "AppendEntries" /\ log'[n] = Taken(log[n], m.entries)
          /\ term_at(log[n], m.prev_log_index) = m.prev_log_term
        BY <2>3 DEF Accepts
    <3>2. /\ m \in Message
          /\ \A k \in 1..Len(m.entries) : m.entries[k].index = m.prev_log_index + k
        BY <1>1, <3>1, SentIs
    <3> DEFINE held   == already_held(log[n], m.entries)
               suffix == SubSeq(m.entries, held + 1, Len(m.entries))
               a      == truncate_and_append(log[n], m.entries[1].index + held, suffix)
    <3>3. suffix # << >> /\ log'[n] = a
        BY <2>3, <3>1, Zenon DEF Taken
    <3>4. log[n] \in Log
        BY <1>1 DEF WholeLog
    <3>5. LinksOf(a) \subseteq LinksOf(log[n]) \cup SentLinks(m)
        BY <3>1, <3>2, <3>3, <3>4, AcceptLinks
    <3> HIDE DEF a, suffix
    <3>6. y \in LinksOf(log[n]) \cup SentLinks(m)
        BY <1>2, <3>3, <3>5
    <3> QED BY <3>6, LinkIn
  <2> QED BY <2>1, <2>2, <2>3, LogActs
<1>3. CASE \E p \in Server : x \in LinksOf(log'[p])
  <2>1. PICK p \in Server : x \in LinksOf(log'[p])
      BY <1>3
  <2>2. CASE p = n
      BY <1>2, <2>1, <2>2
  <2>3. CASE p # n
    <3>1. log'[p] = log[p]
        BY <1>1, <2>3 DEF Alone
    <3> QED BY <2>1, <3>1, LinkIn
  <2> QED BY <2>2, <2>3
<1>4. CASE \E m \in in_flight' : x \in SentLinks(m)
  <2>1. PICK m \in in_flight' : x \in SentLinks(m)
      BY <1>4
  <2>2. CASE m \in in_flight
      BY <2>1, <2>2, LinkIn
  <2>3. CASE m \notin in_flight
    <3>1. m.kind = "AppendEntries"
        BY <2>1 DEF SentLinks
    <3>2. SentLinks(m) \subseteq LinksOf(log'[n])
        BY <2>3, <3>1, SentActs DEF Plain
    <3> QED BY <1>2, <2>1, <3>2
  <2> QED BY <2>2, <2>3
<1> QED BY <1>3, <1>4, LinkIn

\* The fields of a new link.
LEMMA NewLinkIs ==
    ASSUME NEW n \in Server, NEW x, NewLink(n, x)
    PROVE  /\ x[1] = last_term(log[n]) /\ x[2].term = current_term[n]
           /\ x[2].index = last_index(log[n]) + 1
           /\ Wins(n) \/ \E c \in Command : Proposes(n, c)
BY DEF NewLink, Entry

\* The last term of a log, after the step.
LEMMA LastTermsStep ==
    ASSUME NEW n \in Server, Moves(n)
    PROVE  LastTerms'
<1> SUFFICES ASSUME NEW p \in Server
             PROVE  /\ last_term(log'[p]) <= current_term'[p]
                    /\ role'[p] = "Leader" => last_term(log'[p]) = current_term'[p]
    BY DEF LastTerms
<1>1. /\ MarkInv /\ Alone(n) /\ WholeLog(log[p]) /\ WholeLog(log'[p])
      /\ current_term[p] \in Nat /\ current_term'[p] \in Nat
      /\ current_term[p] <= current_term'[p]
    BY MovesIs
<1>2. last_term(log[p]) \in Nat
    BY <1>1 DEF WholeLog
<1>3. /\ last_term(log[p]) <= current_term[p]
      /\ role[p] = "Leader" => last_term(log[p]) = current_term[p]
    BY <1>1 DEF MarkInv, LastTerms
<1>4. /\ role'[p] = "Leader" =>
             \/ role[p] = "Leader" /\ current_term'[p] = current_term[p]
             \/ p = n /\ Wins(n)
    BY RolesActs
<1>5. CASE log'[p] = log[p] /\ ~(p = n /\ Wins(n))
    BY <1>1, <1>2, <1>3, <1>4, <1>5
<1>6. CASE p # n
    BY <1>1, <1>5, <1>6 DEF Alone
<1>7. CASE p = n /\ Wins(n)
  <2>1. /\ log'[n] = Grown(log[n], current_term[n], Noop) /\ current_term'[n] = current_term[n]
      BY <1>7 DEF Wins
  <2>2. last_term(log'[n]) = current_term[n]
      BY <1>1, <1>7, <2>1, AppendedIs
  <2> QED BY <1>1, <1>7, <2>1, <2>2
<1>8. CASE /\ p = n /\ last_term(log'[n]) = current_term[n] /\ current_term'[n] = current_term[n]
    BY <1>1, <1>8
<1>9. ASSUME NEW m \in in_flight, p = n, Accepts(n, m), last_term(log'[n]) = m.term
      PROVE  last_term(log'[n]) <= current_term'[n] /\ role'[n] # "Leader"
    BY <1>1, <1>9 DEF Accepts
<1> QED BY <1>5, <1>6, <1>7, <1>8, <1>9, LogActs

\* A new mark is the end of a leader's log.
LEMMA MarksActs ==
    ASSUME NEW n \in Server, Moves(n), NEW t \in Nat, NEW i \in Nat, Mark(t, i)'
    PROVE  \/ Mark(t, i)
           \/ /\ role'[n] = "Leader" /\ current_term'[n] = current_term[n]
              /\ t = current_term[n] /\ i = last_index(log'[n])
<1>1. Acts(n) /\ current_term[n] \in Nat
    BY MovesIs
<1>2. CASE \E p \in Server : Ack(p, t, i)'
  <2>1. PICK p \in Server : [node |-> p, term |-> t, index |-> i] \in acked'
      BY <1>2 DEF Ack
  <2>2. CASE acked' = acked
      BY <2>1, <2>2 DEF Mark, Ack
  <2>3. ASSUME NEW m \in in_flight, Accepts(n, m) PROVE Mark(t, i)
    <3>1. acked' = acked \cup {[node |-> n, term |-> m.term,
                                index |-> m.prev_log_index + Len(m.entries)]}
        BY <2>3 DEF Accepts
    <3>2. CASE [node |-> p, term |-> t, index |-> i] \in acked
        BY <3>2 DEF Mark, Ack
    <3>3. CASE [node |-> p, term |-> t, index |-> i]
                   = [node |-> n, term |-> m.term, index |-> m.prev_log_index + Len(m.entries)]
      <4>1. t = m.term /\ i = Top(m)
          BY <3>3 DEF Top
      <4> QED BY <2>3, <4>1, AcceptedIs
    <3> QED BY <2>1, <3>1, <3>2, <3>3
  <2>4. acked' = acked \/ \E m \in in_flight : Accepts(n, m)
      BY <1>1, Zenon DEF Acts, Rests, Campaigns, Grants, Wins, Proposes, Commits
  <2> QED BY <2>2, <2>3, <2>4
<1>3. CASE \E m \in in_flight' : Carries(m) /\ m.term = t /\ Top(m) = i
  <2>1. PICK m \in in_flight' : Carries(m) /\ m.term = t /\ Top(m) = i
      BY <1>3
  <2>2. CASE m \in in_flight
      BY <2>1, <2>2 DEF Mark
  <2>3. CASE m \notin in_flight
    <3>1. m.kind = "AppendEntries" /\ PlaceTerm(m, Len(m.entries)) = m.term
        BY <2>1 DEF Carries
    <3>2. /\ m.term = current_term[n] /\ role'[n] = "Leader"
          /\ current_term'[n] = current_term[n]
          /\ Top(m) = last_index(log'[n]) \/ Hollow(m)
        BY <2>3, <3>1, SentActs DEF Plain
    <3>3. ~Hollow(m)
      <4> SUFFICES ASSUME Hollow(m) PROVE FALSE
          OBVIOUS
      <4>1. m.term = 0
          BY <3>1 DEF Hollow, PlaceTerm
      <4>2. current_term'[n] >= 1
          BY <3>2, MovesIs
      <4> QED BY <1>1, <3>2, <4>1, <4>2
    <3> QED BY <2>1, <3>2, <3>3
  <2> QED BY <2>2, <2>3
<1>4. \/ \E p \in Server : Ack(p, t, i)'
      \/ \E m \in in_flight' : Carries(m) /\ m.term = t /\ Top(m) = i
    BY DEF Mark, Carries, Top, PlaceTerm
<1> QED BY <1>2, <1>3, <1>4

\* What a node holds after a step it held before, or it is of the node's term or
\* a later one; and its log covers it.
LEMMA HoldsActs ==
    ASSUME NEW n \in Server, Moves(n), NEW p \in Server, NEW t \in Nat, NEW i \in Nat,
           Holds(p, t, i)'
    PROVE  /\ Covers(log'[p], t, i)
           /\ Holds(p, t, i) \/ t >= current_term[p]
<1>1. /\ BaseInv /\ MarkInv /\ Acts(n) /\ WholeLog(log[p]) /\ WholeLog(log'[p])
      /\ WholeLog(log'[n]) /\ WholeLog(log[n])
      /\ current_term[p] \in Nat /\ current_term'[p] \in Nat /\ current_term[n] \in Nat
    BY MovesIs
<1>2. /\ last_index(log[p]) \in Nat /\ last_index(log'[p]) \in Nat
      /\ last_term(log[p]) \in Nat /\ last_term(log'[p]) \in Nat
    BY <1>1, LastOf
<1>3. ASSUME Holds(p, t, i) PROVE Covers(log'[p], t, i)
  <2>1. Covers(log[p], t, i)
      BY <1>1, <1>3 DEF MarkInv, HeldIsCovered
  <2>2. Below(last_term(log[p]), last_index(log[p]), last_term(log'[p]), last_index(log'[p]))
      BY LastGrows
  <2> QED BY <1>2, <2>1, <2>2, BelowOrder DEF Covers
<1>4. CASE Ack(p, t, i)' /\ ~Ack(p, t, i)
  <2>1. acked' = acked \/ \E m \in in_flight : Accepts(n, m)
      BY <1>1, Zenon DEF Acts, Rests, Campaigns, Grants, Wins, Proposes, Commits
  <2>2. PICK m \in in_flight : Accepts(n, m)
      BY <1>4, <2>1 DEF Ack
  <2>3. acked' = acked \cup {[node |-> n, term |-> m.term,
                              index |-> m.prev_log_index + Len(m.entries)]}
      BY <2>2 DEF Accepts
  <2>4. [node |-> p, term |-> t, index |-> i]
            = [node |-> n, term |-> m.term, index |-> m.prev_log_index + Len(m.entries)]
      BY <1>4, <2>3 DEF Ack
  <2>5. p = n /\ t = m.term /\ i = Top(m)
      BY <2>4 DEF Top
  <2>6. /\ t >= current_term[n] /\ i < Len(log'[n]) /\ log'[n][i + 1].term = t
        /\ \/ log'[n] = log[n]
           \/ last_index(log'[n]) = i /\ last_term(log'[n]) = t
      BY <2>2, <2>5, AcceptedIs
  <2>7. Covers(log'[n], t, i)
    <3>1. CASE log'[n] = log[n]
      <4>1. /\ Len(log[n]) \in Nat /\ Len(log[n]) \in 1..Len(log[n])
            /\ last_index(log[n]) = Len(log[n]) - 1
            /\ last_term(log[n]) = log[n][Len(log[n])].term /\ last_term(log[n]) \in Nat
          BY <1>1 DEF WholeLog
      <4>2. i + 1 \in 1..Len(log[n]) /\ i + 1 <= Len(log[n]) /\ i <= last_index(log[n])
          BY <2>6, <3>1, <4>1
      <4>3. TermsRise
          BY <1>1 DEF MarkInv
      <4>4. log[n][i + 1].term <= log[n][Len(log[n])].term
          BY <1>1, <4>1, <4>2, <4>3, TermsUp
      <4>5. t <= last_term(log[n])
          BY <2>6, <3>1, <4>1, <4>4
      <4> QED BY <3>1, <4>1, <4>2, <4>5 DEF Covers, Below
    <3>2. CASE last_index(log'[n]) = i /\ last_term(log'[n]) = t
        BY <3>2 DEF Covers, Below
    <3> QED BY <2>6, <3>1, <3>2
  <2> QED BY <2>5, <2>6, <2>7
<1>5. CASE Mark(t, i)' /\ <<t, p>> \in term_leaders' /\ ~Holds(p, t, i)
  <2>1. <<t, p>> \in term_leaders \/ (Wins(n) /\ t = current_term[n])
      BY <1>1, <1>5 DEF Acts, Rests, Campaigns, Grants, Wins, Proposes, Accepts, Commits
  <2>2. ~Mark(t, i)
      BY <1>5, <2>1, WinsFirst DEF Holds
  <2>3. /\ role'[n] = "Leader" /\ current_term'[n] = current_term[n]
        /\ t = current_term[n] /\ i = last_index(log'[n])
      BY <1>5, <2>2, MarksActs
  <2>4. p = n
    <3>1. <<t, n>> \in term_leaders'
        BY <2>3, MovesIs
    <3> QED BY <1>5, <3>1, MovesIs
  <2>5. last_term(log'[n]) = t
      BY <2>3, LastTermsStep DEF LastTerms
  <2> QED BY <1>1, <1>2, <2>3, <2>4, <2>5 DEF Covers, Below
<1>6. Ack(p, t, i)' \/ (Mark(t, i)' /\ <<t, p>> \in term_leaders')
    BY Zenon DEF Holds
<1>7. Ack(p, t, i) => Holds(p, t, i)
    BY DEF Holds
<1> QED BY <1>3, <1>4, <1>5, <1>6, <1>7

------------------------------------------------------------------------------
(* Every step keeps the invariant.                                          *)

\* The base of a log stays where it is.
LEMMA BaseStep ==
    ASSUME NEW n \in Server, Moves(n)
    PROVE  ZeroBases'
<1> SUFFICES ASSUME NEW p \in Server PROVE log'[p][1].term = 0
    BY DEF ZeroBases
<1>1. MarkInv /\ Alone(n) /\ WholeLog(log[n]) /\ current_term[n] \in Nat
    BY MovesIs
<1>2. log[p][1].term = 0
    BY <1>1 DEF MarkInv, ZeroBases
<1>3. CASE p # n
    BY <1>1, <1>2, <1>3 DEF Alone
<1>4. ASSUME NEW c \in Command \cup {Noop}, log'[n] = Grown(log[n], current_term[n], c)
      PROVE  log'[n][1] = log[n][1]
  <2>1. 1 \in 1..Len(log[n])
      BY <1>1, LastOf
  <2>2. \A k \in 1..Len(log[n]) : log'[n][k] = log[n][k]
      BY <1>1, <1>4, AppendedIs
  <2> QED BY <2>1, <2>2
<1>5. ASSUME NEW m \in in_flight, Accepts(n, m) PROVE log'[n][1] = log[n][1]
    BY <1>5, AcceptedIs
<1>6. log'[n][1] = log[n][1]
    BY <1>4, <1>5, LogActs
<1> QED BY <1>2, <1>3, <1>6

\* Messages stay what they are.
LEMMA SentStep ==
    ASSUME NEW n \in Server, Moves(n)
    PROVE  NoSnapshots' /\ SentCarries' /\ RequestsTell'
<1>1. /\ MarkInv
      /\ \A p \in Server : /\ current_term[p] \in Nat /\ current_term'[p] \in Nat
                           /\ current_term[p] <= current_term'[p]
    BY MovesIs
<1>2. NoSnapshots'
  <2> SUFFICES ASSUME NEW m \in in_flight' PROVE m.kind # "InstallSnapshotResponse"
      BY DEF NoSnapshots
  <2>1. CASE m \in in_flight
      BY <1>1, <2>1 DEF MarkInv, NoSnapshots
  <2>2. CASE m \notin in_flight
      BY <2>2, SentActs DEF Plain
  <2> QED BY <2>1, <2>2
<1>3. SentCarries'
  <2> SUFFICES ASSUME NEW m \in in_flight', m.kind = "AppendEntries"
               PROVE  Carries(m) \/ Hollow(m)
      BY DEF SentCarries, Carries, Hollow, PlaceTerm
  <2>1. CASE m \in in_flight
      BY <1>1, <2>1 DEF MarkInv, SentCarries
  <2>2. CASE m \notin in_flight
    <3>1. /\ m.term = current_term[n] /\ role'[n] = "Leader"
          /\ current_term'[n] = current_term[n]
          /\ PlaceTerm(m, Len(m.entries)) = last_term(log'[n]) \/ Hollow(m)
        BY <2>2, SentActs DEF Plain
    <3>2. last_term(log'[n]) = current_term'[n]
        BY <3>1, LastTermsStep DEF LastTerms
    <3> QED BY <3>1, <3>2 DEF Carries
  <2> QED BY <2>1, <2>2
<1>4. RequestsTell'
  <2> SUFFICES ASSUME NEW m \in in_flight', m.kind = "RequestVote"
               PROVE  /\ m.term <= current_term'[m.from]
                      /\ (role'[m.from] = "Candidate" /\ m.term = current_term'[m.from]) =>
                             /\ m.last_log_term = last_term(log'[m.from])
                             /\ m.last_log_index = last_index(log'[m.from])
      BY DEF RequestsTell
  <2>1. CASE m \in in_flight
    <3> DEFINE p == m.from
    <3>1. p \in Server /\ m.term \in Nat
      <4>1. m \in Message
          BY <2>1, MovesIs DEF BaseInv, TypeOK
      <4> QED BY <4>1, MessageFields
    <3>2. /\ m.term <= current_term[p]
          /\ (role[p] = "Candidate" /\ m.term = current_term[p]) =>
                 /\ m.last_log_term = last_term(log[p])
                 /\ m.last_log_index = last_index(log[p])
        BY <1>1, <2>1 DEF MarkInv, RequestsTell
    <3> HIDE DEF p
    <3>3. m.term <= current_term'[p]
        BY <1>1, <3>1, <3>2
    <3>4. ASSUME role'[p] = "Candidate", m.term = current_term'[p]
          PROVE  /\ m.last_log_term = last_term(log'[p])
                 /\ m.last_log_index = last_index(log'[p])
      <4>1. ~(p = n /\ Campaigns(n))
        <5> SUFFICES ASSUME p = n, Campaigns(n) PROVE FALSE
            OBVIOUS
        <5>1. current_term'[n] = current_term[n] + 1
            BY DEF Campaigns
        <5> QED BY <1>1, <3>1, <3>2, <3>4, <5>1
      <4>2. /\ role[p] = "Candidate" /\ current_term'[p] = current_term[p]
            /\ log'[p] = log[p]
          BY <3>1, <3>4, <4>1, RolesActs
      <4> QED BY <3>2, <3>4, <4>2
    <3> QED BY <3>3, <3>4 DEF p
  <2>2. CASE m \notin in_flight
    <3>1. /\ m.from = n /\ m.term = current_term'[n] /\ log'[n] = log[n]
          /\ m.last_log_term = last_term(log[n]) /\ m.last_log_index = last_index(log[n])
        BY <2>2, SentActs DEF Plain
    <3> QED BY <1>1, <3>1
  <2> QED BY <2>1, <2>2
<1> QED BY <1>2, <1>3, <1>4

\* Links and marks stay in order.
LEMMA OrderStep ==
    ASSUME NEW n \in Server, Moves(n)
    PROVE  TermsRise' /\ MarksLed' /\ LeadersReach' /\ RunsOn'
<1>1. /\ BaseInv /\ MarkInv /\ BaseInv' /\ WholeLog(log[n]) /\ WholeLog(log'[n])
      /\ current_term[n] \in Nat /\ term_leaders \subseteq term_leaders'
    BY MovesIs
<1>2. last_term(log[n]) \in Nat /\ last_term(log[n]) <= current_term[n]
    BY <1>1, LastOf DEF MarkInv, LastTerms
<1>3. TermsRise'
  <2> SUFFICES ASSUME NEW x \in Links' PROVE x[1] <= x[2].term
      BY DEF TermsRise
  <2>1. CASE x \in Links
      BY <1>1, <2>1 DEF MarkInv, TermsRise
  <2>2. CASE NewLink(n, x)
      BY <1>2, <2>2, NewLinkIs
  <2> QED BY <2>1, <2>2, LinksActs
<1>4. MarksLed'
  <2> SUFFICES ASSUME NEW t \in Nat, NEW i \in Nat, Mark(t, i)'
               PROVE  \E q \in Server : <<t, q>> \in term_leaders'
      BY DEF MarksLed
  <2>1. CASE Mark(t, i)
      BY <1>1, <2>1 DEF MarkInv, MarksLed
  <2>2. CASE role'[n] = "Leader" /\ current_term'[n] = current_term[n] /\ t = current_term[n]
      BY <2>2, MovesIs
  <2> QED BY <2>1, <2>2, MarksActs
<1>5. LeadersReach'
  <2>1. \A p \in Server : current_term'[p] \in Nat
      BY MovesIs
  <2> SUFFICES ASSUME NEW p \in Server, role'[p] = "Leader", NEW i \in Nat, NEW t \in Nat,
                      t = current_term'[p], Mark(t, i)'
               PROVE  i <= last_index(log'[p])
      BY <2>1 DEF LeadersReach, Mark, Ack
  <2>2. /\ current_term'[p] \in Nat /\ current_term[p] \in Nat
        /\ WholeLog(log[p]) /\ WholeLog(log'[p])
      BY MovesIs
  <2>3. t = current_term'[p]
      OBVIOUS
  <2>4. Mark(t, i)'
      OBVIOUS
  <2>5. CASE Mark(t, i)
    <3>1. CASE role[p] = "Leader" /\ current_term'[p] = current_term[p]
      <4>1. i <= last_index(log[p])
          BY <1>1, <2>3, <2>5, <3>1 DEF MarkInv, LeadersReach
      <4>2. last_term(log[p]) = current_term[p]
          BY <1>1, <3>1 DEF MarkInv, LastTerms
      <4>3. last_term(log'[p]) = current_term'[p]
          BY LastTermsStep DEF LastTerms
      <4>4. Below(last_term(log[p]), last_index(log[p]), last_term(log'[p]), last_index(log'[p]))
          BY LastGrows
      <4>5. last_index(log[p]) \in Nat /\ last_index(log'[p]) \in Nat
          BY <2>2, LastOf
      <4> QED BY <2>2, <3>1, <4>1, <4>2, <4>3, <4>4, <4>5 DEF Below
    <3>2. CASE p = n /\ Wins(n)
      <4>1. current_term'[n] = current_term[n]
          BY <3>2 DEF Wins
      <4> QED BY <2>3, <2>5, <3>2, <4>1, WinsFirst
    <3> QED BY <3>1, <3>2, RolesActs
  <2>6. CASE /\ role'[n] = "Leader" /\ current_term'[n] = current_term[n]
             /\ t = current_term[n] /\ i = last_index(log'[n])
    <3>1. <<t, n>> \in term_leaders' /\ <<t, p>> \in term_leaders'
        BY <2>3, <2>6, MovesIs
    <3>2. p = n
        BY <3>1, MovesIs
    <3>3. last_index(log'[p]) \in Nat
        BY <2>2, LastOf
    <3> QED BY <2>6, <3>2, <3>3
  <2> QED BY <2>4, <2>5, <2>6, MarksActs
<1>6. RunsOn'
  <2> SUFFICES ASSUME NEW x \in Links', NEW i \in Nat, Mark(x[2].term, i)', i < x[2].index
               PROVE  x[1] = x[2].term
      BY DEF RunsOn
  <2>1. x[2].term \in Nat /\ x[2].index \in Nat
    <3>1. (TypeOK /\ DurabilityInv => LinksAreEntries)'
        BY LinksEnd, PTL
    <3>2. x[2] \in LogEntry
        BY <1>1, <3>1 DEF BaseInv, LinksAreEntries
    <3> QED BY <3>2 DEF LogEntry
  <2>2. PICK t \in Nat : t = x[2].term
      BY <2>1
  <2>3. Mark(t, i)'
      BY <2>2 DEF Mark, Ack
  <2>4. CASE x \in Links /\ Mark(t, i)
      BY <1>1, <2>2, <2>4 DEF MarkInv, RunsOn
  <2>5. CASE /\ role'[n] = "Leader" /\ current_term'[n] = current_term[n]
             /\ t = current_term[n] /\ i = last_index(log'[n])
    <3>1. x[2].index <= last_index(log'[n])
        BY <1>1, <2>2, <2>5 DEF BaseInv, MatchInv, LeadersAhead
    <3> QED BY <2>1, <2>5, <3>1
  <2>6. CASE NewLink(n, x) /\ Mark(t, i)
    <3>1. x[1] = last_term(log[n]) /\ t = current_term[n]
        BY <2>2, <2>6, NewLinkIs
    <3>2. CASE Wins(n)
        BY <2>6, <3>1, <3>2, WinsFirst
    <3>3. CASE \E c \in Command : Proposes(n, c)
      <4>1. role[n] = "Leader"
          BY <3>3 DEF Proposes
      <4> QED BY <1>1, <2>2, <3>1, <4>1 DEF MarkInv, LastTerms
    <3> QED BY <2>6, <3>2, <3>3, NewLinkIs
  <2> QED BY <2>3, <2>4, <2>5, <2>6, MarksActs, LinksActs
<1> QED BY <1>3, <1>4, <1>5, <1>6

\* Ballots stay backed by the logs of their voters.
LEMMA BallotStep ==
    ASSUME NEW n \in Server, Moves(n)
    PROVE  HeldIsCovered' /\ BallotsAsked' /\ VotersCovered'
<1>1. /\ BaseInv /\ BaseInv' /\ MarkInv /\ Acts(n)
      /\ \A p \in Server : /\ WholeLog(log[p]) /\ WholeLog(log'[p])
                           /\ current_term[p] \in Nat /\ current_term'[p] \in Nat
                           /\ current_term[p] <= current_term'[p]
    BY MovesIs
<1>2. HeldIsCovered'
  <2> SUFFICES ASSUME NEW p \in Server, NEW t \in Nat, NEW i \in Nat, Holds(p, t, i)'
               PROVE  Covers(log'[p], t, i)
      BY DEF HeldIsCovered, Covers
  <2> QED BY HoldsActs
<1>3. \A b \in ballots' : b.voter \in Server /\ b.candidate \in Server /\ b.term \in Nat
    BY <1>1 DEF BaseInv, TypeOK
<1>4. ASSUME NEW b \in ballots', b \notin ballots
      PROVE  \/ Campaigns(n) /\ b = Ballot(n, current_term[n] + 1, n)
             \/ \E m \in in_flight : Grants(n, m) /\ b = Ballot(n, m.term, m.from)
  <2>1. Campaigns(n) \/ \E m \in in_flight : Grants(n, m)
      BY <1>1, <1>4 DEF Acts, Rests, Wins, Proposes, Accepts, Commits
  <2>2. CASE Campaigns(n)
      BY <1>4, <2>2 DEF Campaigns
  <2>3. ASSUME NEW m \in in_flight, Grants(n, m) PROVE b = Ballot(n, m.term, m.from)
      BY <1>4, <2>3 DEF Grants
  <2> QED BY <2>1, <2>2, <2>3
<1>5. ASSUME NEW m \in in_flight, Grants(n, m)
      PROVE  m.from \in Server /\ m.term \in Nat /\ m.term <= current_term[m.from]
  <2>1. m \in Message /\ m.kind = "RequestVote"
      BY <1>1, <1>5 DEF BaseInv, TypeOK, Grants
  <2> QED BY <1>1, <2>1, MessageFields DEF MarkInv, RequestsTell
<1>6. BallotsAsked'
  <2> SUFFICES ASSUME NEW b \in ballots' PROVE b.term <= current_term'[b.candidate]
      BY DEF BallotsAsked
  <2>1. b.candidate \in Server /\ b.term \in Nat
      BY <1>3
  <2>2. CASE b \in ballots
    <3>1. b.term <= current_term[b.candidate]
        BY <1>1, <2>2 DEF MarkInv, BallotsAsked
    <3> QED BY <1>1, <2>1, <3>1
  <2>3. CASE Campaigns(n) /\ b = Ballot(n, current_term[n] + 1, n)
      BY <1>1, <2>3 DEF Campaigns, Ballot
  <2>4. ASSUME NEW m \in in_flight, Grants(n, m), b = Ballot(n, m.term, m.from)
        PROVE  b.term <= current_term'[b.candidate]
    <3>1. b.term = m.term /\ b.candidate = m.from
        BY <2>4 DEF Ballot
    <3>2. m.term <= current_term[m.from]
        BY <1>5, <2>4
    <3> QED BY <1>1, <2>1, <3>1, <3>2
  <2> QED BY <1>4, <2>2, <2>3, <2>4
<1>7. VotersCovered'
  <2> SUFFICES ASSUME NEW b \in ballots', role'[b.candidate] = "Candidate",
                      b.term = current_term'[b.candidate],
                      NEW t \in Nat, NEW i \in Nat, Holds(b.voter, t, i)', t < b.term
               PROVE  Covers(log'[b.candidate], t, i)
      BY DEF VotersCovered, Covers, Holds, Ack
  <2> DEFINE v == b.voter
             c == b.candidate
  <2>1. v \in Server /\ c \in Server /\ b.term \in Nat
      BY <1>3
  <2>2. Covers(log'[v], t, i) /\ (Holds(v, t, i) \/ t >= current_term[v])
    <3>1. Holds(v, t, i)'
        BY DEF Holds, Ack
    <3> HIDE DEF v
    <3> QED BY <2>1, <3>1, HoldsActs
  <2>3. CASE b \in ballots
    <3>1. b.term <= current_term[v] /\ b.term <= current_term[c]
        BY <1>1, <2>3 DEF BaseInv, ElectionInv, BallotsKept, MarkInv, BallotsAsked
    <3>2. Holds(v, t, i)
      <4> HIDE DEF v
      <4> QED BY <1>1, <2>1, <2>2, <3>1
    <3>3. ~(c = n /\ Campaigns(n))
      <4> SUFFICES ASSUME c = n, Campaigns(n) PROVE FALSE
          OBVIOUS
      <4>1. current_term'[n] = current_term[n] + 1
          BY DEF Campaigns
      <4>2. b.term = current_term'[c]
          OBVIOUS
      <4> HIDE DEF c
      <4> QED BY <1>1, <2>1, <3>1, <4>1, <4>2
    <3>4. role[c] = "Candidate" /\ current_term'[c] = current_term[c] /\ log'[c] = log[c]
      <4>1. role'[c] = "Candidate"
          OBVIOUS
      <4> HIDE DEF c
      <4> QED BY <2>1, <3>3, <4>1, RolesActs
    <3>5. Covers(log[c], t, i)
        BY <1>1, <2>3, <3>2, <3>4 DEF MarkInv, VotersCovered
    <3> QED BY <3>4, <3>5
  <2>4. CASE Campaigns(n) /\ b = Ballot(n, current_term[n] + 1, n)
    <3>1. v = n /\ c = n
        BY <2>4 DEF Ballot
    <3> QED BY <2>2, <3>1
  <2>5. ASSUME NEW m \in in_flight, Grants(n, m), b = Ballot(n, m.term, m.from)
        PROVE  Covers(log'[c], t, i)
    <3>1. v = n /\ c = m.from /\ b.term = m.term
        BY <2>5 DEF Ballot
    <3>2. /\ UNCHANGED log /\ m.kind = "RequestVote"
          /\ role'[n] = "Candidate" => role[n] = "Candidate" /\ current_term'[n] = current_term[n]
          /\ is_log_up_to_date(log[n], m.last_log_index, m.last_log_term)
        BY <2>5 DEF Grants
    <3>3. role[c] = "Candidate" /\ current_term'[c] = current_term[c]
      <4>1. role'[c] = "Candidate"
          OBVIOUS
      <4> HIDE DEF c
      <4> QED BY <2>1, <3>2, <4>1, RolesActs
    <3>4. m.last_log_term = last_term(log[c]) /\ m.last_log_index = last_index(log[c])
      <4>1. m.term = current_term[m.from]
          BY <3>1, <3>3
      <4>2. /\ m.last_log_term = last_term(log[m.from])
            /\ m.last_log_index = last_index(log[m.from])
          BY <1>1, <3>1, <3>2, <3>3, <4>1 DEF MarkInv, RequestsTell
      <4> QED BY <3>1, <4>2
    <3>5. /\ last_term(log[n]) \in Nat /\ last_index(log[n]) \in Nat
          /\ last_term(log[c]) \in Nat /\ last_index(log[c]) \in Nat
        BY <1>1, <2>1, LastOf
    <3>6. Below(last_term(log[n]), last_index(log[n]), last_term(log[c]), last_index(log[c]))
      <4> HIDE DEF c
      <4> QED BY <3>2, <3>4, <3>5 DEF is_log_up_to_date, Below
    <3>7. Below(t, i, last_term(log[n]), last_index(log[n]))
        BY <2>2, <3>1, <3>2 DEF Covers
    <3>8. Covers(log[c], t, i)
      <4> HIDE DEF c
      <4> QED BY <3>5, <3>6, <3>7, BelowOrder DEF Covers
    <3> QED BY <3>2, <3>8
  <2> QED BY <1>4, <2>3, <2>4, <2>5
<1> QED BY <1>2, <1>6, <1>7

\* A term begins where a majority had moved on to it.
LEMMA BeginStep ==
    ASSUME NEW n \in Server, Moves(n)
    PROVE  TermsBegin'
<1>1. /\ BaseInv /\ BaseInv' /\ MarkInv /\ WholeLog(log[n])
      /\ \A p \in Server : /\ current_term[p] \in Nat /\ current_term'[p] \in Nat
                           /\ current_term[p] <= current_term'[p]
    BY MovesIs
<1>2. ASSUME NEW u \in Nat, NEW t, NEW i, MovedOn(u, t, i) PROVE MovedOn(u, t, i)'
  <2>1. PICK Q \in SUBSET Server :
            /\ Cardinality(Q) >= majority
            /\ \A p \in Q : /\ current_term[p] >= u
                            /\ \A v, j \in Nat : Holds(p, v, j) /\ v < u => Below(v, j, t, i)
      BY <1>2 DEF MovedOn
  <2>2. ASSUME NEW p \in Q, NEW v \in Nat, NEW j \in Nat, Holds(p, v, j)', v < u
        PROVE  Below(v, j, t, i)
    <3>1. Holds(p, v, j) \/ v >= current_term[p]
        BY <2>2, HoldsActs
    <3>2. current_term[p] >= u /\ current_term[p] \in Nat
        BY <1>1, <2>1
    <3>3. Holds(p, v, j)
        BY <2>2, <3>1, <3>2
    <3> QED BY <2>1, <2>2, <3>3
  <2>3. \A p \in Q : current_term'[p] >= u
      BY <1>1, <2>1
  <2> QED BY <2>1, <2>2, <2>3 DEF MovedOn, Holds, Ack, Below
<1>3. ASSUME NEW x, NewLink(n, x), x[1] # x[2].term
      PROVE  MovedOn(x[2].term, x[1], x[2].index - 1)
  <2>1. /\ x[1] = last_term(log[n]) /\ x[2].term = current_term[n]
        /\ x[2].index = last_index(log[n]) + 1
      BY <1>3, NewLinkIs
  <2>2. Wins(n)
    <3> SUFFICES ASSUME NEW c \in Command, Proposes(n, c) PROVE FALSE
        BY <1>3, NewLinkIs
    <3>1. role[n] = "Leader"
        BY DEF Proposes
    <3> QED BY <1>1, <1>3, <2>1, <3>1 DEF MarkInv, LastTerms
  <2>3. PICK Q \in SUBSET Server : ElectedBy(Q, current_term[n], n)
      BY <2>2 DEF Wins
  <2>4. ASSUME NEW p \in Q
        PROVE  /\ current_term[p] >= current_term[n]
               /\ \A v, j \in Nat : Holds(p, v, j) /\ v < current_term[n] =>
                      Covers(log[n], v, j)
    <3> DEFINE b == Ballot(p, current_term[n], n)
    <3>1. b \in ballots /\ b.voter = p /\ b.term = current_term[n] /\ b.candidate = n
        BY <2>3, <2>4 DEF ElectedBy, Ballot
    <3> HIDE DEF b
    <3>2. b.term <= current_term[b.voter]
        BY <1>1, <3>1 DEF BaseInv, ElectionInv, BallotsKept
    <3>3. role[n] = "Candidate"
        BY <2>2 DEF Wins
    <3>4. \A v, j \in Nat : Holds(b.voter, v, j) /\ v < b.term => Covers(log[b.candidate], v, j)
        BY <1>1, <3>1, <3>3 DEF MarkInv, VotersCovered
    <3> QED BY <1>1, <2>4, <3>1, <3>2, <3>4
  <2>5. x[2].index - 1 = last_index(log[n])
      BY <1>1, <2>1, LastOf
  <2> QED BY <2>1, <2>3, <2>4, <2>5 DEF MovedOn, ElectedBy, Covers
<1>4. \A x \in Links' : x[2].term \in Nat /\ x[2].index \in Nat
  <2>1. (TypeOK /\ DurabilityInv => LinksAreEntries)'
      BY LinksEnd, PTL
  <2> QED BY <1>1, <2>1 DEF BaseInv, LinksAreEntries, LogEntry
<1> SUFFICES ASSUME NEW x \in Links', x[1] # x[2].term
             PROVE  MovedOn(x[2].term, x[1], x[2].index - 1)'
    BY DEF TermsBegin
<1>5. MovedOn(x[2].term, x[1], x[2].index - 1)
  <2>1. CASE x \in Links
      BY <1>1, <2>1 DEF MarkInv, TermsBegin
  <2>2. CASE NewLink(n, x)
      BY <1>3, <2>2
  <2> QED BY <2>1, <2>2, LinksActs
<1> QED BY <1>2, <1>4, <1>5

\* Every step keeps the invariant,
LEMMA MarkStep ==
    ASSUME NEW n \in Server, Moves(n)
    PROVE  MarkInv'
BY BaseStep, SentStep, LastTermsStep, OrderStep, BallotStep, BeginStep DEF MarkInv

\* and an empty cluster has it.
LEMMA MarkInit == Init => MarkInv
<1> SUFFICES ASSUME Init PROVE MarkInv
    OBVIOUS
<1>1. /\ in_flight = {} /\ acked = {} /\ ballots = {} /\ term_leaders = {}
      /\ log = [p \in Server |-> new_log] /\ role = [p \in Server |-> "Follower"]
      /\ current_term = [p \in Server |-> 0]
    BY DEF Init
<1>2. Len(new_log) = 1 /\ last_term(new_log) = 0 /\ new_log[1].term = 0
    BY DEF new_log, last_term, sentinel
<1>3. Links = {}
  <2>1. \A x : x \notin LinksOf(new_log)
      BY <1>2 DEF LinksOf
  <2> HIDE DEF new_log
  <2> QED BY <1>1, <2>1, LinkIn
<1>4. \A t, i : ~Mark(t, i)
    BY <1>1 DEF Mark, Ack
<1>5. \A p, t, i : ~Holds(p, t, i)
    BY <1>1, <1>4 DEF Holds, Ack
<1>6. NoSnapshots /\ SentCarries /\ RequestsTell /\ BallotsAsked /\ VotersCovered
    BY <1>1 DEF NoSnapshots, SentCarries, RequestsTell, BallotsAsked, VotersCovered
<1>7. TermsRise /\ RunsOn /\ TermsBegin
    BY <1>3 DEF TermsRise, RunsOn, TermsBegin
<1>8. MarksLed /\ LeadersReach /\ HeldIsCovered
    BY <1>4, <1>5 DEF MarksLed, LeadersReach, HeldIsCovered
<1>9. LastTerms /\ ZeroBases
    BY <1>1, <1>2 DEF LastTerms, ZeroBases
<1> QED BY <1>6, <1>7, <1>8, <1>9 DEF MarkInv

------------------------------------------------------------------------------
(* What a majority has acknowledged.                                        *)

AckedTo(p, t, i) == \E a \in acked : a.node = p /\ a.term = t /\ a.index >= i

\* Somebody has acknowledged exactly the mark, and a majority it or more; the
\* leader of the term counts without an acknowledgement.
Chosen(t, c) ==
    /\ \E p \in Server : Ack(p, t, c)
    /\ \E n \in Server : /\ <<t, n>> \in term_leaders
                         /\ \E Q \in SUBSET Server : /\ Cardinality(Q) >= majority
                                                     /\ \A p \in Q : p = n \/ AckedTo(p, t, c)

\* A majority has at least two members.
LEMMA TwoAtLeast ==
    ASSUME NEW Q \in SUBSET Server, Cardinality(Q) >= majority, NEW n
    PROVE  \E q \in Q : q # n
<1> SUFFICES ASSUME Q \subseteq {n} PROVE FALSE
    OBVIOUS
<1>1. IsFiniteSet({n}) /\ Cardinality({n}) = 1
    BY FS_Singleton
<1>2. Cardinality(Q) <= 1 /\ Cardinality(Q) \in Nat
    BY <1>1, FS_Subset, FS_CardinalityType
<1>3. Cardinality(Server) \in Nat /\ Cardinality(Server) >= 2
    BY ServerAssumption, FS_CardinalityType
<1>4. majority >= 2 /\ majority \in Int
    BY <1>3, BoundAssumption DEF majority, peers_len
<1> QED BY <1>2, <1>4

\* A majority holds what is chosen, and a mark at least as far.
LEMMA ChosenIs ==
    ASSUME BaseInv, MarkInv, NEW t \in Nat, NEW c \in Nat, Chosen(t, c)
    PROVE  /\ Mark(t, c) /\ t >= 1
           /\ \E Q \in SUBSET Server :
                  /\ Cardinality(Q) >= majority
                  /\ \A p \in Q : /\ Covers(log[p], t, c)
                                  /\ \E j \in Nat : j >= c /\ Holds(p, t, j)
<1>1. Mark(t, c)
    BY DEF Chosen, Mark
<1>2. PICK n \in Server, Q \in SUBSET Server :
          /\ <<t, n>> \in term_leaders /\ Cardinality(Q) >= majority
          /\ \A p \in Q : p = n \/ AckedTo(p, t, c)
    BY DEF Chosen
<1>3. t >= 1
  <2>1. <<t, n>>[1] >= 1
      BY <1>2 DEF BaseInv, HintInv, TermsAreReal
  <2> QED BY <2>1
<1>4. ASSUME NEW p \in Q
      PROVE  Covers(log[p], t, c) /\ \E j \in Nat : j >= c /\ Holds(p, t, j)
  <2>1. PICK j \in Nat : j >= c /\ Holds(p, t, j)
    <3>1. CASE p = n
      <4>1. Holds(n, t, c)
          BY <1>1, <1>2 DEF Holds
      <4> QED BY <3>1, <4>1
    <3>2. CASE AckedTo(p, t, c)
      <4>1. PICK a \in acked : a.node = p /\ a.term = t /\ a.index >= c
          BY <3>2 DEF AckedTo
      <4>2. a \in [node : Server, term : Nat, index : Nat]
          BY DEF BaseInv, TypeOK
      <4>3. a.index \in Nat /\ a = [node |-> p, term |-> t, index |-> a.index]
          BY <4>1, <4>2
      <4>4. Holds(p, t, a.index)
          BY <4>3 DEF Holds, Ack
      <4> QED BY <4>1, <4>3, <4>4
    <3> QED BY <1>2, <3>1, <3>2
  <2>2. Covers(log[p], t, j)
      BY <2>1 DEF MarkInv, HeldIsCovered
  <2>3. last_index(log[p]) \in Nat /\ last_term(log[p]) \in Nat
      BY LogsAreWhole, LastOf
  <2>4. Covers(log[p], t, c)
      BY <2>1, <2>2, <2>3 DEF Covers, Below
  <2> QED BY <2>1, <2>4
<1> QED BY <1>1, <1>2, <1>3, <1>4

\* Whoever has a chosen mark below the end of its log holds it: every later term
\* begins behind it.
LEMMA CoversHolds ==
    ASSUME BaseInv, MarkInv, NEW t \in Nat, NEW c \in Nat, Chosen(t, c),
           NEW p \in Server, Covers(log[p], t, c)
    PROVE  c < Len(log[p]) /\ log[p][c + 1].term = t /\ c >= 1
<1> DEFINE l == log[p]
<1>1. WholeLog(l) /\ RunsOn /\ TermsBegin /\ l[1].term = 0
    BY LogsAreWhole DEF MarkInv, ZeroBases
<1>2. /\ Len(l) \in Nat /\ Len(l) >= 1 /\ Len(l) \in 1..Len(l)
      /\ last_index(l) = Len(l) - 1 /\ last_term(l) \in Nat /\ last_term(l) = l[Len(l)].term
    BY <1>1, LastOf
<1>3. \A k \in 1..Len(l) : l[k].term \in Nat /\ l[k].index = k - 1
    BY <1>1 DEF WholeLog
<1>4. PICK Q \in SUBSET Server :
          /\ Cardinality(Q) >= majority
          /\ \A q \in Q : \E j \in Nat : j >= c /\ Holds(q, t, j)
    BY ChosenIs
<1>5. Mark(t, c) /\ t >= 1
    BY ChosenIs
<1>6. ASSUME NEW k \in 1..Len(l), l[k].term = t, c < k
      PROVE  c + 1 \in 1..Len(l) /\ l[c + 1].term = t
    BY <1>1, <1>5, <1>6, RunDown
<1>7. c + 1 \in 1..Len(l) /\ l[c + 1].term = t
  <2>1. CASE last_term(l) = t
    <3>1. c < Len(l)
        BY <1>2, <2>1 DEF Covers, Below
    <3> QED BY <1>2, <1>6, <2>1, <3>1
  <2>2. CASE last_term(l) > t
    <3> DEFINE S == {k \in 1..Len(l) : l[k].term > t}
    <3>1. S \subseteq Nat /\ S # {}
        BY <1>2, <2>2
    <3> DEFINE k == Min(S)
    <3>2. k \in S /\ \A j \in S : k <= j
      <4> HIDE DEF S
      <4> QED BY <3>1, MinIn
    <3> HIDE DEF k
    <3>3. k \in 1..Len(l) /\ l[k].term > t /\ k \in Nat
        BY <3>2
    <3>4. k >= 2
      <4> SUFFICES ASSUME k = 1 PROVE FALSE
          BY <3>3
      <4> QED BY <1>1, <3>3
    <3>5. /\ k - 1 \in Nat /\ k - 1 >= 1 /\ k - 1 < Len(l) /\ (k - 1) + 1 = k
          /\ k - 1 \in 1..Len(l) /\ ~(k <= k - 1)
        BY <1>2, <3>3, <3>4
    <3>6. l[k - 1].term <= t
      <4>1. k - 1 \notin S
          BY <3>2, <3>5
      <4>2. ~(l[k - 1].term > t)
          BY <3>5, <4>1
      <4> QED BY <1>3, <3>5, <4>2
    <3> HIDE DEF S
    <3> DEFINE x == <<l[k - 1].term, l[k]>>
    <3>7. x \in Links /\ x[2].index = k - 1 /\ x[2].term = l[k].term /\ x[1] = l[k - 1].term
      <4>1. /\ <<l[k - 1].term, l[(k - 1) + 1]>> \in Links
            /\ l[(k - 1) + 1].index = k - 1
          BY <1>1, <3>5, LogLink
      <4> HIDE DEF l
      <4> QED BY <3>5, <4>1
    <3> HIDE DEF x
    <3>8. l[k].term \in Nat /\ l[k - 1].term \in Nat
        BY <1>3, <3>3, <3>5
    <3>9. MovedOn(l[k].term, l[k - 1].term, (k - 1) - 1)
      <4>1. x[1] # x[2].term
          BY <3>3, <3>6, <3>7, <3>8
      <4>2. MovedOn(x[2].term, x[1], x[2].index - 1)
          BY <1>1, <3>7, <4>1 DEF TermsBegin
      <4> QED BY <3>7, <4>2
    <3>10. PICK R \in SUBSET Server :
               /\ Cardinality(R) >= majority
               /\ \A q \in R : \A v, j \in Nat :
                      Holds(q, v, j) /\ v < l[k].term => Below(v, j, l[k - 1].term, (k - 1) - 1)
        BY <3>9 DEF MovedOn
    <3>11. PICK q \in Server : q \in Q /\ q \in R
        BY <1>4, <3>10, QuorumsMeet
    <3>12. PICK j \in Nat : j >= c /\ Holds(q, t, j)
        BY <1>4, <3>11
    <3>13. Below(t, j, l[k - 1].term, (k - 1) - 1)
        BY <3>3, <3>10, <3>11, <3>12
    <3>14. l[k - 1].term = t /\ c < k - 1
      <4> HIDE DEF l
      <4> QED BY <3>5, <3>6, <3>8, <3>12, <3>13 DEF Below
    <3> QED BY <1>6, <3>5, <3>14
  <2>3. last_term(l) >= t
      BY <1>2 DEF Covers, Below
  <2> QED BY <1>2, <2>1, <2>2, <2>3
<1>8. c # 0
    BY <1>1, <1>5, <1>7
<1> QED BY <1>2, <1>7, <1>8

\* Logs that have a chosen mark below their ends agree up to it.
ChosenAgree ==
    \A t, c \in Nat : \A p, q \in Server :
        Chosen(t, c) /\ Covers(log[p], t, c) /\ Covers(log[q], t, c) =>
            /\ c < Len(log[p])
            /\ \A j \in 1..c : log[p][j + 1] = log[q][j + 1]

\* A majority has a chosen mark below the ends of its logs.
ChosenCovered ==
    \A t, c \in Nat : Chosen(t, c) =>
        \E Q \in SUBSET Server : /\ Cardinality(Q) >= majority
                                 /\ \A p \in Q : Covers(log[p], t, c)

\* Both follow from the invariant.
LEMMA ChosenShared == BaseInv /\ MarkInv => ChosenAgree /\ ChosenCovered
<1> SUFFICES ASSUME BaseInv, MarkInv PROVE ChosenAgree /\ ChosenCovered
    OBVIOUS
<1>1. ChosenCovered
    BY ChosenIs DEF ChosenCovered
<1>2. ASSUME NEW t \in Nat, NEW c \in Nat, NEW p \in Server, NEW q \in Server,
             Chosen(t, c), Covers(log[p], t, c), Covers(log[q], t, c)
      PROVE  c < Len(log[p]) /\ \A j \in 1..c : log[p][j + 1] = log[q][j + 1]
  <2>1. /\ c < Len(log[p]) /\ log[p][c + 1].term = t /\ c >= 1
        /\ c < Len(log[q]) /\ log[q][c + 1].term = t
      BY <1>2, CoversHolds
  <2>2. /\ WholeLog(log[p]) /\ WholeLog(log[q]) /\ LogMatching
      BY LogsAreWhole, InvImpliesMatching DEF BaseInv
  <2>3. /\ first_index(log[p]) = 0 /\ first_index(log[q]) = 0
        /\ last_index(log[p]) = Len(log[p]) - 1 /\ last_index(log[q]) = Len(log[q]) - 1
        /\ Len(log[p]) \in Nat /\ Len(log[q]) \in Nat
      BY <2>2 DEF WholeLog
  <2>4. /\ Max2(first_index(log[p]), first_index(log[q])) = 0
        /\ c \in 0+1 .. Min2(last_index(log[p]), last_index(log[q]))
      BY <2>1, <2>3 DEF Max2, Min2
  <2>5. log[p][c - first_index(log[p]) + 1].term = log[q][c - first_index(log[q]) + 1].term
      BY <2>1, <2>3
  <2>6. \A j \in 0+1 .. c : log[p][j - first_index(log[p]) + 1] = log[q][j - first_index(log[q]) + 1]
      BY <2>2, <2>4, <2>5, Zenon DEF LogMatching
  <2>7. ASSUME NEW j \in 1..c PROVE log[p][j + 1] = log[q][j + 1]
    <3>1. j \in 0+1 .. c /\ j - 0 + 1 = j + 1
        BY <2>7
    <3>2. log[p][j - 0 + 1] = log[q][j - 0 + 1]
        BY <2>3, <2>6, <3>1, Zenon
    <3> QED BY <3>1, <3>2
  <2> QED BY <2>1, <2>7
<1> QED BY <1>1, <1>2 DEF ChosenAgree

\* What a majority acknowledged up to some index is chosen up to it at least.
LEMMA HeldIsChosen ==
    ASSUME BaseInv, NEW t \in Nat, NEW i \in Nat, NEW n \in Server,
           <<t, n>> \in term_leaders, NEW Q \in SUBSET Server, Cardinality(Q) >= majority,
           \A p \in Q : p = n \/ AckedTo(p, t, i)
    PROVE  \E c \in Nat : c >= i /\ Chosen(t, c)
<1> DEFINE S == {j \in Nat : j >= i /\ \E p \in Server : Ack(p, t, j)}
<1>1. ASSUME NEW a \in acked, a.term = t, a.index >= i PROVE a.index \in S
  <2>1. a \in [node : Server, term : Nat, index : Nat]
      BY DEF BaseInv, TypeOK
  <2>2. a.node \in Server /\ a.index \in Nat
        /\ a = [node |-> a.node, term |-> t, index |-> a.index]
      BY <1>1, <2>1
  <2> QED BY <1>1, <2>2 DEF Ack
<1>2. S # {}
  <2>1. PICK p \in Q : p # n
      BY TwoAtLeast
  <2>2. PICK a \in acked : a.term = t /\ a.index >= i
      BY <2>1 DEF AckedTo
  <2> QED BY <1>1, <2>2
<1> DEFINE c == Min(S)
<1>3. c \in S /\ \A j \in S : c <= j
  <2>1. S \subseteq Nat
      OBVIOUS
  <2> HIDE DEF S
  <2> QED BY <1>2, <2>1, MinIn
<1> HIDE DEF c
<1>4. c \in Nat /\ c >= i /\ \E p \in Server : Ack(p, t, c)
    BY <1>3
<1>5. ASSUME NEW p \in Q, p # n PROVE AckedTo(p, t, c)
  <2>1. PICK a \in acked : a.node = p /\ a.term = t /\ a.index >= i
      BY <1>5 DEF AckedTo
  <2>2. a.index \in S
      BY <1>1, <2>1
  <2>3. c <= a.index /\ a.index \in Nat
      BY <1>3, <2>2
  <2>4. a.index >= c
      BY <1>4, <2>3
  <2> QED BY <2>1, <2>4 DEF AckedTo
<1> QED BY <1>4, <1>5 DEF Chosen

------------------------------------------------------------------------------
(* What is committed and applied.                                           *)

\* A commit index is backed by a chosen mark the log holds,
CommitHeld ==
    \A n \in Server : commit_index[n] = 0 \/
        \E t, c \in Nat : Chosen(t, c) /\ c >= commit_index[n] /\ Covers(log[n], t, c)

\* so is the one a message tells,
SentBacked ==
    \A m \in in_flight : Carries(m) => m.leader_commit = 0 \/
        \E t, c \in Nat : /\ Chosen(t, c) /\ c >= m.leader_commit
                          /\ Below(t, c, m.term, Top(m))

\* and an applied entry lies below a chosen mark, in every log that covers it.
Settled(e) ==
    /\ e.index \in Nat /\ e.index >= 1
    /\ \E t, c \in Nat : /\ Chosen(t, c) /\ e.index <= c
                         /\ \A p \in Server : Covers(log[p], t, c) => log[p][e.index + 1] = e

AppliedChosen == \A e \in applied : Settled(e)

CommitInv == ~unsupported => CommitHeld /\ SentBacked /\ AppliedChosen

\* The entries apply_committed_entries hands over are entries of the log, up to
\* the commit index.
LEMMA ToApplyIs ==
    ASSUME NEW l, WholeLog(l), NEW from \in Nat, NEW commit \in Nat,
           NEW k \in DOMAIN to_apply(l, from, commit)
    PROVE  \E j \in 2..Len(l) : to_apply(l, from, commit)[k] = l[j] /\ j - 1 <= commit
<1> DEFINE es == entries_from(l, from + 1)
           s == (from + 1) - first_index(l)
           takes == {i \in 0..Len(es) : \A j \in 1..i : es[j].index <= commit}
           m == Max(takes)
<1>1. l \in Log /\ first_index(l) = 0 /\ Len(l) \in Nat
      /\ \A j \in 1..Len(l) : l[j].index = j - 1
    BY DEF WholeLog
<1>2. from + 1 \in Nat /\ from + 1 > first_index(l)
    BY <1>1
<1>3. /\ es \in Seq(LogEntry)
      /\ \A i \in 1..Len(es) : es[i] = l[i + s] /\ i + s \in 2..Len(l)
    BY <1>1, <1>2, EntriesFromIs
<1>4. to_apply(l, from, commit) = SubSeq(es, 1, m)
    BY DEF to_apply
<1> HIDE DEF es, s, takes, m
<1>5. Len(es) \in Nat
    BY <1>3, LenProperties
<1>6. m \in takes
  <2>1. takes \subseteq Nat /\ 0 \in takes /\ \A i \in takes : i <= Len(es)
      BY <1>5 DEF takes
  <2> QED BY <1>5, <2>1, MaxIn DEF m
<1>7. m \in 0..Len(es) /\ \A j \in 1..m : es[j].index <= commit
    BY <1>6 DEF takes
<1>8. /\ Len(SubSeq(es, 1, m)) = m /\ \A i \in 1..m : SubSeq(es, 1, m)[i] = es[i]
      /\ SubSeq(es, 1, m) \in Seq(LogEntry)
  <2>1. m \in Int /\ \A i \in 1..m : es[i] \in LogEntry
      BY <1>3, <1>7, <1>5, ElementOfSeq
  <2> QED BY <1>3, <1>7, <1>5, <2>1, SubSeqProperties
<1>9. k \in 1..m
    BY <1>4, <1>8
<1>10. to_apply(l, from, commit)[k] = es[k] /\ es[k].index <= commit /\ k \in 1..Len(es)
    BY <1>4, <1>7, <1>8, <1>9, <1>5
<1>11. es[k] = l[k + s] /\ k + s \in 2..Len(l)
    BY <1>3, <1>10
<1>12. l[k + s].index = (k + s) - 1
  <2>1. k + s \in 1..Len(l)
      BY <1>1, <1>11
  <2> QED BY <1>1, <2>1
<1> QED BY <1>10, <1>11, <1>12

\* CommitTo.
LEMMA CommitToIs ==
    ASSUME TypeOK, NEW n \in Server, NEW l, WholeLog(l), NEW i \in Nat, CommitTo(n, l, i)
    PROVE  \/ commit_index'[n] = commit_index[n] /\ applied' = applied
           \/ /\ commit_index'[n] = i /\ i > commit_index[n]
              /\ \A e \in applied' : e \in applied \/ \E j \in 2..Len(l) : e = l[j] /\ j - 1 <= i
<1>1. commit_index \in [Server -> Nat] /\ last_applied[n] \in Nat
    BY DEF TypeOK
<1>2. CASE i <= commit_index[n]
    BY <1>2 DEF CommitTo
<1>3. CASE ~(i <= commit_index[n])
  <2> DEFINE es == to_apply(l, last_applied[n], i)
  <2>1. /\ commit_index' = [commit_index EXCEPT ![n] = i]
        /\ applied' = IF i > last_applied[n] THEN applied \cup {es[k] : k \in DOMAIN es} ELSE applied
      BY <1>3 DEF CommitTo
  <2>2. commit_index'[n] = i /\ i > commit_index[n]
      BY <1>1, <1>3, <2>1
  <2>3. \A k \in DOMAIN es : \E j \in 2..Len(l) : es[k] = l[j] /\ j - 1 <= i
      BY <1>1, ToApplyIs
  <2> HIDE DEF es
  <2> QED BY <2>1, <2>2, <2>3
<1> QED BY <1>2, <1>3

\* What is chosen stays chosen.
LEMMA ChosenStays ==
    ASSUME NEW n \in Server, Moves(n), NEW t, NEW c, Chosen(t, c)
    PROVE  Chosen(t, c)'
<1>1. Acts(n) /\ term_leaders \subseteq term_leaders'
    BY MovesIs
<1>2. acked \subseteq acked'
    BY <1>1, Zenon DEF Acts, Rests, Campaigns, Grants, Wins, Proposes, Commits, Accepts
<1>3. \A p \in Server : Ack(p, t, c) => Ack(p, t, c)'
    BY <1>2 DEF Ack
<1>4. \A p : AckedTo(p, t, c) => AckedTo(p, t, c)'
    BY <1>2 DEF AckedTo
<1> QED BY <1>1, <1>3, <1>4 DEF Chosen

\* What a log covers it goes on covering.
LEMMA CoversStays ==
    ASSUME NEW n \in Server, Moves(n), NEW p \in Server, NEW t \in Nat, NEW c \in Nat,
           Covers(log[p], t, c)
    PROVE  Covers(log'[p], t, c)
<1>1. WholeLog(log[p]) /\ WholeLog(log'[p])
    BY MovesIs
<1>2. /\ last_index(log[p]) \in Nat /\ last_index(log'[p]) \in Nat
      /\ last_term(log[p]) \in Nat /\ last_term(log'[p]) \in Nat
    BY <1>1, LastOf
<1>3. Below(last_term(log[p]), last_index(log[p]), last_term(log'[p]), last_index(log'[p]))
    BY LastGrows
<1>4. Below(t, c, last_term(log[p]), last_index(log[p]))
    BY DEF Covers
<1> QED BY <1>2, <1>3, <1>4 DEF Covers, Below

\* A leader covers the marks of its term.
LEMMA LeaderCovers ==
    ASSUME MarkInv, NEW n \in Server, role[n] = "Leader", NEW i \in Nat,
           Mark(current_term[n], i)
    PROVE  Covers(log[n], current_term[n], i)
<1>1. i <= last_index(log[n]) /\ last_term(log[n]) = current_term[n]
    BY DEF MarkInv, LeadersReach, LastTerms
<1> QED BY <1>1 DEF Covers, Below

\* Node n commits up to i, which a chosen mark backs that its log covers, and
\* applies entries of its log.
CommitsBacked(n, i) ==
    /\ commit_index'[n] = i
    /\ \A e \in applied' :
           e \in applied \/ \E j \in 2..Len(log'[n]) : e = log'[n][j] /\ j - 1 <= i
    /\ \E t, c \in Nat : Chosen(t, c)' /\ c >= i /\ Covers(log'[n], t, c)

\* A step commits nothing, or what a chosen mark backs.
LEMMA CommitActs ==
    ASSUME NEW n \in Server, Moves(n), ~unsupported', ~unsupported => SentBacked
    PROVE  /\ ~unsupported
           /\ \/ commit_index'[n] \in {commit_index[n], 0} /\ applied' = applied
              \/ \E i \in Nat : CommitsBacked(n, i)
<1>1. /\ BaseInv /\ MarkInv /\ Acts(n) /\ TypeOK /\ WholeLog(log[n]) /\ WholeLog(log'[n])
      /\ current_term[n] \in Nat
    BY MovesIs DEF BaseInv
<1>2. commit_index[n] \in Nat
    BY <1>1 DEF TypeOK
<1>3. CASE \/ Rests(n) \/ Campaigns(n) \/ (\E m \in in_flight : Grants(n, m)) \/ Wins(n)
           \/ (\E c \in Command : Proposes(n, c))
  <2>1. unsupported' = unsupported /\ applied' = applied
      BY <1>3, Zenon DEF Rests, Campaigns, Grants, Wins, Proposes
  <2>2. commit_index'[n] \in {commit_index[n], 0}
      BY <1>3, Zenon DEF Rests, Campaigns, Grants, Wins, Proposes
  <2> QED BY <2>1, <2>2
<1>4. ASSUME NEW m \in in_flight, Accepts(n, m)
      PROVE  /\ ~unsupported
             /\ \/ commit_index'[n] = commit_index[n] /\ applied' = applied
                \/ \E i \in Nat : CommitsBacked(n, i)
  <2> DEFINE i == Min2(m.leader_commit, last_index(log'[n]))
  <2>1. /\ unsupported' = unsupported /\ CommitTo(n, log'[n], i)
        /\ m.kind = "AppendEntries"
        /\ acked' = acked \cup {[node |-> n, term |-> m.term,
                                 index |-> m.prev_log_index + Len(m.entries)]}
      BY <1>4, Zenon DEF Accepts
  <2>2. m.leader_commit \in Nat /\ m.term \in Nat /\ Top(m) \in Nat /\ Carries(m)
      BY <1>1, <1>4, <2>1, SentIs, AcceptedIs
  <2>3. last_index(log'[n]) \in Nat /\ last_term(log'[n]) \in Nat
      BY <1>1, LastOf
  <2>4. i \in Nat /\ i <= m.leader_commit
      BY <2>2, <2>3 DEF Min2
  <2> HIDE DEF i
  <2>5. CASE commit_index'[n] = commit_index[n] /\ applied' = applied
      BY <2>1, <2>5
  <2>6. CASE /\ commit_index'[n] = i /\ i > commit_index[n]
             /\ \A e \in applied' :
                    e \in applied \/ \E j \in 2..Len(log'[n]) : e = log'[n][j] /\ j - 1 <= i
    <3>1. m.leader_commit # 0
        BY <1>2, <2>2, <2>4, <2>6
    <3>2. SentBacked
        BY <2>1
    <3>3. PICK t \in Nat, c \in Nat : /\ Chosen(t, c) /\ c >= m.leader_commit
                                      /\ Below(t, c, m.term, Top(m))
        BY <2>2, <3>1, <3>2 DEF SentBacked
    <3>4. Chosen(t, c)'
        BY <3>3, ChosenStays
    <3>5. Covers(log'[n], m.term, Top(m))
      <4>1. Holds(n, m.term, Top(m))'
          BY <2>1 DEF Holds, Ack, Top
      <4> QED BY <2>2, <4>1, HoldsActs
    <3>6. Covers(log'[n], t, c)
        BY <2>2, <2>3, <3>3, <3>5, BelowOrder DEF Covers
    <3>7. c >= i
        BY <2>2, <2>4, <3>3
    <3>8. \E u, d \in Nat : Chosen(u, d)' /\ d >= i /\ Covers(log'[n], u, d)
        BY <3>4, <3>6, <3>7
    <3>9. CommitsBacked(n, i)
        BY <2>6, <3>8 DEF CommitsBacked
    <3> QED BY <2>1, <2>4, <3>9
  <2>7. \/ commit_index'[n] = commit_index[n] /\ applied' = applied
        \/ /\ commit_index'[n] = i /\ i > commit_index[n]
           /\ \A e \in applied' :
                  e \in applied \/ \E j \in 2..Len(log'[n]) : e = log'[n][j] /\ j - 1 <= i
      BY <1>1, <2>1, <2>4, CommitToIs
  <2> QED BY <2>5, <2>6, <2>7
<1>5. CASE Commits(n)
  <2>1. PICK i \in Nat : /\ CommitTo(n, log[n], i)
                         /\ unsupported' = (unsupported \/ (/\ i > commit_index[n]
                                                            /\ ~Supported(n, i)))
      BY <1>5 DEF Commits
  <2>2. ~unsupported /\ (i > commit_index[n] => Supported(n, i))
      BY <2>1
  <2>3. log'[n] = log[n] /\ role[n] = "Leader"
      BY <1>5 DEF Commits
  <2>4. CASE commit_index'[n] = commit_index[n] /\ applied' = applied
      BY <2>2, <2>4
  <2>5. CASE /\ commit_index'[n] = i /\ i > commit_index[n]
             /\ \A e \in applied' :
                    e \in applied \/ \E j \in 2..Len(log[n]) : e = log[n][j] /\ j - 1 <= i
    <3> DEFINE Q == {n} \cup {p \in Peers(n) : \E a \in acked : /\ a.node = p /\ a.index >= i
                                                                /\ a.term = current_term[n]}
    <3>1. Cardinality(Q) >= majority
        BY <2>2, <2>5 DEF Supported
    <3>2. Q \in SUBSET Server /\ \A p \in Q : p = n \/ AckedTo(p, current_term[n], i)
        BY DEF Peers, AckedTo
    <3>3. <<current_term[n], n>> \in term_leaders
        BY <1>1, <2>3 DEF BaseInv, DurabilityInv, LeadersAreListed
    <3> HIDE DEF Q
    <3>4. PICK t \in Nat, c \in Nat : t = current_term[n] /\ c >= i /\ Chosen(t, c)
        BY <1>1, <3>1, <3>2, <3>3, HeldIsChosen
    <3>5. Mark(t, c)
        BY <3>4 DEF Chosen, Mark
    <3>6. Covers(log[n], t, c)
        BY <1>1, <2>3, <3>4, <3>5, LeaderCovers
    <3>7. Covers(log'[n], t, c) /\ Chosen(t, c)'
        BY <2>3, <3>4, <3>6, ChosenStays
    <3>8. CommitsBacked(n, i)
        BY <2>3, <2>5, <3>4, <3>7 DEF CommitsBacked
    <3> QED BY <2>2, <3>8
  <2>6. \/ commit_index'[n] = commit_index[n] /\ applied' = applied
        \/ /\ commit_index'[n] = i /\ i > commit_index[n]
           /\ \A e \in applied' :
                  e \in applied \/ \E j \in 2..Len(log[n]) : e = log[n][j] /\ j - 1 <= i
      BY <1>1, <2>1, CommitToIs
  <2> QED BY <2>4, <2>5, <2>6
<1> QED BY <1>1, <1>3, <1>4, <1>5 DEF Acts

\* Commit indices stay backed.
LEMMA CommitHeldStep ==
    ASSUME NEW n \in Server, Moves(n), ~unsupported', CommitInv
    PROVE  CommitHeld'
<1>1. ~unsupported /\ CommitHeld
    BY CommitActs DEF CommitInv
<1> SUFFICES ASSUME NEW p \in Server
             PROVE  commit_index'[p] = 0 \/
                    \E t, c \in Nat : /\ Chosen(t, c)' /\ c >= commit_index'[p]
                                      /\ Covers(log'[p], t, c)
    BY DEF CommitHeld
<1>2. CASE commit_index'[p] = commit_index[p]
  <2>1. CASE commit_index[p] = 0
      BY <1>2, <2>1
  <2>2. CASE commit_index[p] # 0
    <3>1. PICK t \in Nat, c \in Nat :
              Chosen(t, c) /\ c >= commit_index[p] /\ Covers(log[p], t, c)
        BY <1>1, <2>2 DEF CommitHeld
    <3>2. Chosen(t, c)' /\ Covers(log'[p], t, c)
        BY <3>1, ChosenStays, CoversStays
    <3> QED BY <1>2, <3>1, <3>2
  <2> QED BY <2>1, <2>2
<1>3. CASE p = n /\ \E i \in Nat : CommitsBacked(n, i)
  <2>1. PICK i \in Nat : CommitsBacked(n, i)
      BY <1>3
  <2> QED BY <1>3, <2>1 DEF CommitsBacked
<1>4. p # n => commit_index'[p] = commit_index[p]
    BY MovesIs DEF Alone
<1>5. \/ commit_index'[n] \in {commit_index[n], 0}
      \/ \E i \in Nat : CommitsBacked(n, i)
    BY CommitActs DEF CommitInv
<1> QED BY <1>2, <1>3, <1>4, <1>5

\* So do the ones that messages tell: a leader tells its own, and reaches to the
\* end of its log.
LEMMA SentBackedStep ==
    ASSUME NEW n \in Server, Moves(n), ~unsupported', CommitInv
    PROVE  SentBacked'
<1>1. ~unsupported /\ CommitHeld /\ SentBacked
    BY CommitActs DEF CommitInv
<1> SUFFICES ASSUME NEW m \in in_flight', Carries(m)
             PROVE  m.leader_commit = 0 \/
                    \E t, c \in Nat : /\ Chosen(t, c)' /\ c >= m.leader_commit
                                      /\ Below(t, c, m.term, Top(m))
    BY DEF SentBacked
<1>2. CASE m \in in_flight
  <2>1. CASE m.leader_commit # 0
    <3>1. PICK t \in Nat, c \in Nat : /\ Chosen(t, c) /\ c >= m.leader_commit
                                      /\ Below(t, c, m.term, Top(m))
        BY <1>1, <1>2, <2>1 DEF SentBacked
    <3>2. Chosen(t, c)'
        BY <3>1, ChosenStays
    <3> QED BY <3>1, <3>2
  <2> QED BY <2>1
<1>3. CASE m \notin in_flight /\ m.leader_commit # 0
  <2>1. m.kind = "AppendEntries" /\ PlaceTerm(m, Len(m.entries)) = m.term
      BY DEF Carries
  <2>2. /\ m.from = n /\ m.term = current_term[n] /\ role'[n] = "Leader"
        /\ current_term'[n] = current_term[n] /\ m.leader_commit = commit_index[n]
        /\ \/ Top(m) = last_index(log'[n]) /\ PlaceTerm(m, Len(m.entries)) = last_term(log'[n])
           \/ Hollow(m)
      BY <1>3, <2>1, SentActs DEF Plain
  <2>3. m.term >= 1
      BY <2>2, MovesIs
  <2>4. ~Hollow(m)
      BY <2>1, <2>3 DEF Hollow, PlaceTerm
  <2>5. Top(m) = last_index(log'[n]) /\ m.term = last_term(log'[n])
      BY <2>1, <2>2, <2>4
  <2>6. PICK t \in Nat, c \in Nat :
            Chosen(t, c) /\ c >= commit_index[n] /\ Covers(log[n], t, c)
      BY <1>1, <1>3, <2>2 DEF CommitHeld
  <2>7. Chosen(t, c)' /\ Covers(log'[n], t, c)
      BY <2>6, ChosenStays, CoversStays
  <2> QED BY <2>2, <2>5, <2>6, <2>7 DEF Covers
<1> QED BY <1>2, <1>3

\* What is covered above a mark covers the mark.
LEMMA CoversBelow ==
    ASSUME NEW l, WholeLog(l), NEW t \in Nat, NEW c \in Nat, NEW u \in Nat, NEW d \in Nat,
           Below(t, c, u, d), Covers(l, u, d)
    PROVE  Covers(l, t, c)
<1>1. last_index(l) \in Nat /\ last_term(l) \in Nat
    BY LastOf
<1> QED BY <1>1, BelowOrder DEF Covers

\* A settled entry stays where it is, in a majority and in every log that covers
\* it.
LEMMA SettledStays ==
    ASSUME NEW n \in Server, Moves(n), NEW e, Settled(e)
    PROVE  Settled(e)'
<1>1. BaseInv /\ MarkInv /\ BaseInv' /\ MarkInv' /\ Alone(n)
    BY MovesIs, MarkStep
<1>2. ChosenCovered
    BY <1>1, ChosenShared
<1>3. ChosenAgree'
    BY <1>1, ChosenShared, PTL
<1>4. /\ e.index \in Nat /\ e.index >= 1
      /\ \E t, c \in Nat :
             /\ Chosen(t, c) /\ e.index <= c
             /\ \A p \in Server : Covers(log[p], t, c) => log[p][e.index + 1] = e
    BY DEF Settled
<1>5. PICK t \in Nat, c \in Nat :
          /\ Chosen(t, c) /\ e.index <= c
          /\ \A p \in Server : Covers(log[p], t, c) => log[p][e.index + 1] = e
    BY <1>4
<1>6. PICK Q \in SUBSET Server : Cardinality(Q) >= majority /\ \A p \in Q : Covers(log[p], t, c)
    BY <1>2, <1>5 DEF ChosenCovered
<1>7. PICK q \in Q : q # n
    BY <1>6, TwoAtLeast
<1>8. q \in Server /\ log'[q] = log[q] /\ Covers(log'[q], t, c) /\ Chosen(t, c)'
    BY <1>1, <1>5, <1>6, <1>7, ChosenStays DEF Alone
<1>9. log'[q][e.index + 1] = e
    BY <1>5, <1>6, <1>7, <1>8
<1>10. e.index \in 1..c
    BY <1>4, <1>5
<1>11. ASSUME NEW p \in Server, Covers(log'[p], t, c) PROVE log'[p][e.index + 1] = e
  <2>1. \A i \in 1..c : log'[p][i + 1] = log'[q][i + 1]
      BY <1>3, <1>8, <1>11 DEF ChosenAgree
  <2> QED BY <1>9, <1>10, <2>1
<1> QED BY <1>4, <1>5, <1>8, <1>11 DEF Settled

\* What a log holds below a chosen mark it covers is settled.
HeldBelow ==
    \A t, c \in Nat : \A p \in Server : \A i \in 1..c :
        Chosen(t, c) /\ Covers(log[p], t, c) =>
            i < Len(log[p]) /\ Settled(log[p][i + 1])

\* And the settled entries of one index are one.
OneSettled == \A a, b : Settled(a) /\ Settled(b) /\ a.index = b.index => a = b

\* Both follow from the invariant: the log of whoever covers the higher of two
\* chosen marks covers the other.
LEMMA SettledIs == BaseInv /\ MarkInv => HeldBelow /\ OneSettled
<1> SUFFICES ASSUME BaseInv, MarkInv PROVE HeldBelow /\ OneSettled
    OBVIOUS
<1>1. ChosenAgree /\ ChosenCovered /\ \A p \in Server : WholeLog(log[p])
    BY ChosenShared, LogsAreWhole
<1>2. ASSUME NEW t \in Nat, NEW c \in Nat, NEW p \in Server, NEW i \in 1..c,
             Chosen(t, c), Covers(log[p], t, c)
      PROVE  i < Len(log[p]) /\ Settled(log[p][i + 1])
  <2>1. /\ c < Len(log[p])
        /\ \A q \in Server : Covers(log[q], t, c) => log[q][i + 1] = log[p][i + 1]
      BY <1>1, <1>2 DEF ChosenAgree
  <2>2. Len(log[p]) \in Nat /\ i \in Nat /\ i >= 1 /\ i <= c
      BY <1>1 DEF WholeLog
  <2>3. i < Len(log[p]) /\ i + 1 \in 1..Len(log[p]) /\ (i + 1) - 1 = i
      BY <2>1, <2>2
  <2>4. log[p][i + 1].index = i
      BY <1>1, <2>3 DEF WholeLog
  <2> QED BY <1>2, <2>1, <2>2, <2>3, <2>4 DEF Settled
<1>3. ASSUME NEW a, NEW b, Settled(a), Settled(b), a.index = b.index PROVE a = b
  <2>1. PICK t \in Nat, c \in Nat :
            /\ Chosen(t, c)
            /\ \A p \in Server : Covers(log[p], t, c) => log[p][a.index + 1] = a
      BY <1>3 DEF Settled
  <2>2. PICK u \in Nat, d \in Nat :
            /\ Chosen(u, d)
            /\ \A p \in Server : Covers(log[p], u, d) => log[p][b.index + 1] = b
      BY <1>3 DEF Settled
  <2>3. \E p \in Server : Covers(log[p], t, c)
    <3>1. PICK Q \in SUBSET Server : Cardinality(Q) >= majority /\ \A p \in Q : Covers(log[p], t, c)
        BY <1>1, <2>1 DEF ChosenCovered
    <3> QED BY <3>1, TwoAtLeast
  <2>4. \E p \in Server : Covers(log[p], u, d)
    <3>1. PICK Q \in SUBSET Server : Cardinality(Q) >= majority /\ \A p \in Q : Covers(log[p], u, d)
        BY <1>1, <2>2 DEF ChosenCovered
    <3> QED BY <3>1, TwoAtLeast
  <2>5. PICK p \in Server : Covers(log[p], t, c) /\ Covers(log[p], u, d)
    <3>1. Below(t, c, u, d) \/ Below(u, d, t, c)
        BY BelowOrder
    <3> QED BY <1>1, <2>3, <2>4, <3>1, CoversBelow
  <2> QED BY <1>3, <2>1, <2>2, <2>5
<1> QED BY <1>2, <1>3 DEF HeldBelow, OneSettled

\* What is applied is settled.
LEMMA AppliedStep ==
    ASSUME NEW n \in Server, Moves(n), ~unsupported', CommitInv
    PROVE  AppliedChosen'
<1>1. ~unsupported /\ AppliedChosen
    BY CommitActs DEF CommitInv
<1>2. BaseInv' /\ MarkInv'
    BY MovesIs, MarkStep
<1>3. HeldBelow'
    BY <1>2, SettledIs, PTL
<1> SUFFICES ASSUME NEW e \in applied' PROVE Settled(e)'
    BY DEF AppliedChosen
<1>4. CASE e \in applied
    BY <1>1, <1>4, SettledStays DEF AppliedChosen
<1>5. CASE e \notin applied
  <2>1. PICK i \in Nat : CommitsBacked(n, i)
      BY <1>5, CommitActs DEF CommitInv
  <2>2. PICK j \in 2..Len(log'[n]) : e = log'[n][j] /\ j - 1 <= i
      BY <1>5, <2>1 DEF CommitsBacked
  <2>3. PICK t \in Nat, c \in Nat : Chosen(t, c)' /\ c >= i /\ Covers(log'[n], t, c)
      BY <2>1 DEF CommitsBacked
  <2>4. PICK k \in 1..c : k + 1 = j
    <3>1. j - 1 \in 1..c /\ (j - 1) + 1 = j
        BY <2>2, <2>3
    <3> QED BY <3>1
  <2>5. e = log'[n][k + 1]
      BY <2>2, <2>4
  <2> QED BY <1>3, <2>3, <2>5 DEF HeldBelow
<1> QED BY <1>4, <1>5

\* Together:
LEMMA CommitStep ==
    ASSUME NEW n \in Server, Moves(n), CommitInv
    PROVE  CommitInv'
BY CommitHeldStep, SentBackedStep, AppliedStep DEF CommitInv

\* Nothing is committed at first.
LEMMA CommitInit == Init => CommitInv
BY DEF Init, CommitInv, CommitHeld, SentBacked, AppliedChosen

\* A leader that nobody is ahead of covers everything chosen.
LEMMA NewestCovers ==
    ASSUME BaseInv, MarkInv, NEW n \in Server, role[n] = "Leader",
           \A p \in Server : current_term[p] <= current_term[n],
           NEW t \in Nat, NEW c \in Nat, Chosen(t, c)
    PROVE  Covers(log[n], t, c)
<1>1. PICK q \in Server : <<t, q>> \in term_leaders
    BY DEF Chosen
<1>2. t <= current_term[q] /\ current_term[q] \in Nat /\ current_term[n] \in Nat
  <2>1. <<t, q>>[1] <= current_term[<<t, q>>[2]]
      BY <1>1 DEF BaseInv, DurabilityInv, LeadersKept
  <2> QED BY <2>1 DEF BaseInv, TypeOK
<1>3. t <= current_term[n]
    BY <1>2
<1>4. CASE t = current_term[n]
  <2>1. Mark(t, c)
      BY DEF Chosen, Mark
  <2> QED BY <1>4, <2>1, LeaderCovers
<1>5. CASE t < current_term[n]
  <2>1. last_term(log[n]) = current_term[n]
      BY DEF MarkInv, LastTerms
  <2> QED BY <1>5, <2>1 DEF Covers, Below
<1> QED BY <1>2, <1>3, <1>4, <1>5

\* What is applied is settled, so no two applied entries share an index, and a
\* leader that nobody is ahead of holds them all.
LEMMA CommitSafe == BaseInv /\ MarkInv /\ CommitInv => SafeWhileSupported
<1> SUFFICES ASSUME BaseInv, MarkInv, CommitInv, ~unsupported
             PROVE  StateMachineSafety /\ LeaderCompleteness
    BY DEF SafeWhileSupported
<1>1. \A e \in applied : Settled(e)
    BY DEF CommitInv, AppliedChosen
<1>2. ChosenAgree /\ OneSettled /\ \A p \in Server : WholeLog(log[p])
    BY ChosenShared, SettledIs, LogsAreWhole
<1>3. StateMachineSafety
    BY <1>1, <1>2 DEF OneSettled, StateMachineSafety
<1>4. LeaderCompleteness
  <2> SUFFICES ASSUME NEW n \in Server, role[n] = "Leader",
                      \A p \in Server : current_term[p] <= current_term[n],
                      NEW e \in applied
               PROVE  e \in EntriesAfter(log[n], 0)
      BY DEF LeaderCompleteness
  <2>1. PICK t \in Nat, c \in Nat :
            /\ Chosen(t, c) /\ e.index <= c
            /\ \A p \in Server : Covers(log[p], t, c) => log[p][e.index + 1] = e
      BY <1>1 DEF Settled
  <2>2. Covers(log[n], t, c)
      BY <2>1, NewestCovers
  <2>3. c < Len(log[n]) /\ log[n][e.index + 1] = e
      BY <1>2, <2>1, <2>2 DEF ChosenAgree
  <2>4. Len(log[n]) \in Nat /\ e.index \in Nat /\ e.index >= 1
      BY <1>1, <1>2 DEF WholeLog, Settled
  <2>5. e.index + 1 \in 2..Len(log[n]) /\ e.index > 0
      BY <2>1, <2>3, <2>4
  <2> QED BY <2>3, <2>5 DEF EntriesAfter
<1> QED BY <1>3, <1>4

------------------------------------------------------------------------------
(* The theorems about the nodes.                                            *)

\* A step of a cluster that does not compact is a move of one node; a proposal
\* is one of the node that proposes.
LEMMA StepMoves ==
    ASSUME BaseInv, MarkInv, [Uncompacted]_vars
    PROVE  /\ BaseInv' /\ \E n \in Server : Moves(n)
           /\ \A n \in Server, c \in Command : propose_command(n, c) => Moves(n)
<1>1. TypeOK /\ ElectionInv /\ DurabilityInv /\ HintInv /\ MatchInv /\ WholeInv
    BY DEF BaseInv
<1>2. TypeOK' /\ ElectionInv' /\ VotesKept /\ DurabilityInv'
    BY <1>1, UncompactedIs, NextType, ElectionStep, DurabilityStep
<1>3. HintInv' /\ WholeInv' /\ AsBefore
    BY <1>1, UncompactedIs, HintStep, WholeStep
<1>4. MatchInv'
    BY <1>1, <1>3, UncompactedIs, MatchStep
<1>5. BaseInv'
    BY <1>2, <1>3, <1>4 DEF BaseInv
<1>6. \E n \in Server : Alone(n) /\ Acts(n)
    BY <1>1, StepActs DEF MarkInv
<1>7. \A n \in Server, c \in Command : propose_command(n, c) => Alone(n) /\ Acts(n)
    BY <1>1, LocalActs
<1> QED BY <1>2, <1>5, <1>6, <1>7 DEF Moves

\* At the start.
LEMMA BaseInit == Init => BaseInv /\ MarkInv /\ CommitInv
<1> SUFFICES ASSUME Init PROVE BaseInv /\ MarkInv /\ CommitInv
    OBVIOUS
<1>1. HintInv
    BY DEF Init, HintInv, LeadersSend, HeardOfLeaders, TermsAreReal, LeadersAreListed
<1> QED BY <1>1, InitType, ElectionInit, DurabilityInit, MatchInit, WholeInit, MarkInit,
           CommitInit DEF BaseInv

\* What holds of a cluster of raft-servers until one misreads its file.
SafeInv == BaseInv /\ MarkInv /\ CommitInv

\* Up to there it moves as the nodes do.
LEMMA ServersMove ==
    ASSUME BaseInv, MarkInv, [ClusterNext]_clusterVars, ~misread'
    PROVE  [Uncompacted]_vars /\ BaseInv' /\ MarkInv'
<1>1. [Uncompacted]_vars
    BY ReadBackStep DEF BaseInv
<1> QED BY <1>1, StepMoves, MarkStep

\* README.md:47, State Machine Safety, and the Leader Completeness it rests on,
\* for a cluster of raft-servers, with any number of nodes and clients, terms,
\* kills, losses and duplicates: up to the first server that does not come back
\* with the log it had, and as long as every commit index a leader took was
\* acknowledged by a majority (node.rs:587 takes the length of the leader's own log
\* for what a peer holds), no two nodes apply different entries at one index, and a
\* leader that nobody has outlived holds every entry applied.
THEOREM SupportedCommitsAreSafe == ClusterSpec => []SafeWhileReadBack
<1>1. (~misread => SafeInv) /\ [ClusterNext]_clusterVars => (~misread => SafeInv)'
  <2> SUFFICES ASSUME ~misread => SafeInv, [ClusterNext]_clusterVars, ~misread'
               PROVE  SafeInv'
      OBVIOUS
  <2>1. SafeInv
      BY MisreadStays
  <2>2. [Uncompacted]_vars /\ BaseInv' /\ MarkInv'
      BY <2>1, ServersMove DEF SafeInv
  <2>3. PICK n \in Server : Moves(n)
      BY <2>1, <2>2, StepMoves DEF SafeInv
  <2> QED BY <2>1, <2>2, <2>3, CommitStep DEF SafeInv
<1>2. (~misread => SafeInv) => SafeWhileReadBack
    BY CommitSafe DEF SafeInv, SafeWhileReadBack
<1>3. ClusterInit => (~misread => SafeInv)
    BY BaseInit DEF ClusterInit, SafeInv
<1> QED BY <1>1, <1>2, <1>3, PTL DEF ClusterSpec

------------------------------------------------------------------------------
(* What clients were told.                                                  *)

\* Behind an answered command, the entries of the term of the answer follow one
\* another; where the answer says, they hold the command; and who still leads
\* the term has a log that reaches there.
Placed(a) ==
    /\ a.index \in Nat /\ a.index >= 1 /\ a.term \in Nat /\ a.from \in Server
    /\ <<a.term, a.from>> \in term_leaders
    /\ \A x \in Links : x[2].term = a.term =>
           /\ a.index < x[2].index => x[1] = a.term
           /\ x[2].index = a.index => x[2].command = a.command
    /\ \A n \in Server : role[n] = "Leader" /\ current_term[n] = a.term =>
           last_index(log[n]) >= a.index

AnswerInv == \A a \in answers : a.success => Placed(a)

\* A step does not move an answered command.
LEMMA PlacedStays ==
    ASSUME NEW n \in Server, Moves(n), NEW a, Placed(a)
    PROVE  Placed(a)'
<1>1. /\ BaseInv /\ MarkInv /\ term_leaders \subseteq term_leaders'
      /\ \A p \in Server : /\ WholeLog(log[p]) /\ WholeLog(log'[p])
                           /\ current_term[p] \in Nat
    BY MovesIs
<1>2. /\ a.index \in Nat /\ a.index >= 1 /\ a.term \in Nat /\ a.from \in Server
      /\ <<a.term, a.from>> \in term_leaders
    BY DEF Placed
<1>3. Wins(n) => current_term[n] # a.term
    BY <1>2, WinsFirst
<1>4. ASSUME NEW x \in Links', x[2].term = a.term
      PROVE  /\ a.index < x[2].index => x[1] = a.term
             /\ x[2].index = a.index => x[2].command = a.command
  <2>1. CASE x \in Links
      BY <1>4, <2>1 DEF Placed
  <2>2. CASE NewLink(n, x)
    <3>1. /\ x[1] = last_term(log[n]) /\ x[2].term = current_term[n]
          /\ x[2].index = last_index(log[n]) + 1
          /\ Wins(n) \/ \E c \in Command : Proposes(n, c)
        BY <2>2, NewLinkIs
    <3>2. role[n] = "Leader" /\ current_term[n] = a.term
        BY <1>3, <1>4, <3>1 DEF Proposes
    <3>3. last_term(log[n]) = a.term /\ last_index(log[n]) >= a.index
        BY <1>1, <3>2 DEF MarkInv, LastTerms, Placed
    <3>4. last_index(log[n]) \in Nat
        BY <1>1, LastOf
    <3> QED BY <1>2, <3>1, <3>3, <3>4
  <2> QED BY <2>1, <2>2, LinksActs
<1>5. ASSUME NEW p \in Server, role'[p] = "Leader", current_term'[p] = a.term
      PROVE  last_index(log'[p]) >= a.index
  <2>1. role[p] = "Leader" /\ current_term'[p] = current_term[p]
    <3>1. p = n /\ Wins(n) => current_term'[p] = current_term[n]
        BY DEF Wins
    <3> QED BY <1>3, <1>5, <3>1, RolesActs
  <2>2. last_index(log[p]) >= a.index /\ last_term(log[p]) = a.term
      BY <1>1, <1>5, <2>1 DEF Placed, MarkInv, LastTerms
  <2>3. LastTerms'
      BY LastTermsStep
  <2>4. last_term(log'[p]) = a.term
      BY <1>5, <2>3 DEF LastTerms
  <2>5. Below(last_term(log[p]), last_index(log[p]), last_term(log'[p]), last_index(log'[p]))
      BY LastGrows
  <2>6. last_index(log[p]) \in Nat /\ last_index(log'[p]) \in Nat
      BY <1>1, LastOf
  <2> QED BY <1>2, <2>2, <2>4, <2>5, <2>6 DEF Below
<1> QED BY <1>1, <1>2, <1>4, <1>5 DEF Placed

\* A command is put behind everything its leader's term has.
LEMMA AnswerPlaced ==
    ASSUME NEW n \in Server, Moves(n), NEW c \in Command, propose_command(n, c),
           NEW a, a.command = c, a.term = current_term[n], a.from = n,
           a.index = last_index(log[n]) + 1
    PROVE  Placed(a)'
<1>1. /\ BaseInv /\ MarkInv /\ BaseInv' /\ WholeLog(log[n]) /\ WholeLog(log'[n])
      /\ current_term[n] \in Nat /\ term_leaders \subseteq term_leaders'
    BY MovesIs
<1>2. /\ role[n] = "Leader" /\ current_term' = current_term /\ role' = role
      /\ log' = [log EXCEPT ![n] = Grown(log[n], current_term[n], c)]
    BY DEF propose_command, propose, termVars, Grown
<1>3. log'[n] = Grown(log[n], current_term[n], c)
    BY <1>1, <1>2 DEF BaseInv, TypeOK
<1>4. /\ a.command = c /\ a.term = current_term[n] /\ a.from = n
      /\ a.index = last_index(log[n]) + 1
    OBVIOUS
<1>5. /\ last_index(log'[n]) = last_index(log[n]) + 1 /\ last_index(log[n]) \in Nat
      /\ log'[n][Len(log[n]) + 1] = Entry(last_index(log[n]) + 1, current_term[n], c)
    BY <1>1, <1>3, AppendedIs, LastOf
<1>6. /\ a.index \in Nat /\ a.index >= 1 /\ a.term \in Nat /\ a.from \in Server
      /\ <<a.term, a.from>> \in term_leaders'
  <2>1. <<current_term[n], n>> \in term_leaders
      BY <1>1, <1>2 DEF BaseInv, DurabilityInv, LeadersAreListed
  <2> QED BY <1>1, <1>4, <1>5, <2>1
<1>7. ASSUME NEW x \in Links', x[2].term = a.term
      PROVE  /\ a.index < x[2].index => x[1] = a.term
             /\ x[2].index = a.index => x[2].command = a.command
  <2>1. CASE x \in Links
    <3>1. x[2].index <= last_index(log[n])
        BY <1>1, <1>2, <1>4, <1>7, <2>1 DEF BaseInv, MatchInv, LeadersAhead
    <3>2. x[2].index \in Nat
        BY <1>1, <2>1, LinksEnd DEF BaseInv, LinksAreEntries, LogEntry
    <3> QED BY <1>4, <1>5, <3>1, <3>2
  <2>2. CASE NewLink(n, x)
    <3>1. PICK d \in Command \cup {Noop} :
              /\ x = <<last_term(log[n]), Entry(last_index(log[n]) + 1, current_term[n], d)>>
              /\ (d = Noop /\ Wins(n)) \/ (d \in Command /\ Proposes(n, d))
        BY <2>2 DEF NewLink
    <3>2. log'[n] = Grown(log[n], current_term[n], d)
        BY <3>1 DEF Wins, Proposes
    <3>3. log'[n][Len(log[n]) + 1] = Entry(last_index(log[n]) + 1, current_term[n], d)
        BY <1>1, <3>2, AppendedIs
    <3>4. d = c
        BY <1>5, <3>3 DEF Entry
    <3>5. x[2].command = c /\ x[2].index = last_index(log[n]) + 1
        BY <3>1, <3>4 DEF Entry
    <3> QED BY <1>4, <1>5, <3>5
  <2> QED BY <2>1, <2>2, LinksActs
<1>8. ASSUME NEW p \in Server, role'[p] = "Leader", current_term'[p] = a.term
      PROVE  last_index(log'[p]) >= a.index
  <2>1. /\ <<current_term'[p], p>> \in term_leaders' /\ <<current_term'[n], n>> \in term_leaders'
        /\ current_term'[p] = current_term'[n]
      BY <1>2, <1>4, <1>8, MovesIs
  <2>2. p = n
      BY <2>1, MovesIs
  <2> QED BY <1>4, <1>5, <2>2
<1> QED BY <1>6, <1>7, <1>8 DEF Placed

\* So answered commands stay placed.
LEMMA AnswerStep ==
    ASSUME BaseInv, MarkInv, AnswerInv, [ClusterNext]_clusterVars, ~misread'
    PROVE  AnswerInv'
<1> SUFFICES ASSUME NEW a \in answers', a.success PROVE Placed(a)'
    BY DEF AnswerInv
<1>1. [Uncompacted]_vars
    BY ServersMove
<1>2. CASE a \in answers
  <2>1. PICK n \in Server : Moves(n)
      BY <1>1, StepMoves
  <2>2. Placed(a)
      BY <1>2 DEF AnswerInv
  <2> QED BY <2>1, <2>2, PlacedStays
<1>3. CASE a \notin answers
  <2>1. PICK n \in Server, c \in Command :
            client_request_accepted(n, c) \/ client_request_redirected(n, c)
      BY <1>3 DEF ClusterNext, clusterVars, restart_server
  <2>2. CASE client_request_accepted(n, c)
    <3>1. /\ propose_command(n, c)
          /\ a = ClientResponse(n, c, TRUE, n, last_index(log[n]) + 1)
        BY <1>3, <2>2 DEF client_request_accepted
    <3>2. Moves(n)
        BY <1>1, <3>1, StepMoves
    <3>3. /\ a.command = c /\ a.term = current_term[n] /\ a.from = n
          /\ a.index = last_index(log[n]) + 1
        BY <3>1 DEF ClientResponse
    <3> QED BY <3>1, <3>2, <3>3, AnswerPlaced
  <2>3. CASE client_request_redirected(n, c)
    <3>1. a.success = FALSE
        BY <1>3, <2>3 DEF client_request_redirected, ClientResponse
    <3> QED BY <3>1
  <2> QED BY <2>1, <2>2, <2>3
<1> QED BY <1>2, <1>3

\* What a majority acknowledged to the leader that answered is chosen, the newest
\* leader covers it, and its log leads back to the place of the command.
LEMMA AnswersKept ==
    (~misread => BaseInv /\ MarkInv /\ AnswerInv) => AnsweredIsKeptOnceHeld
<1> SUFFICES ASSUME BaseInv, MarkInv, AnswerInv, NEW a \in answers, a.success,
                    Cardinality({p \in Server : p = a.from \/ AckedTo(p, a.term, a.index)})
                        >= majority
             PROVE  Kept(a)
    BY Zenon DEF AnsweredIsKeptOnceHeld, AckedTo
<1>1. Placed(a)
    BY DEF AnswerInv
<1>2. /\ a.index \in Nat /\ a.index >= 1 /\ a.term \in Nat /\ a.from \in Server
      /\ <<a.term, a.from>> \in term_leaders
      /\ \A x \in Links : x[2].term = a.term /\ a.index < x[2].index => x[1] = a.term
      /\ \A x \in Links : x[2].term = a.term /\ x[2].index = a.index =>
             x[2].command = a.command
    BY <1>1 DEF Placed
<1>3. PICK c \in Nat : c >= a.index /\ Chosen(a.term, c)
    BY <1>2, HeldIsChosen
<1> SUFFICES ASSUME NEW n \in Server, role[n] = "Leader",
                    \A p \in Server : current_term[p] <= current_term[n]
             PROVE  \E k \in 1..Len(log[n]) : log[n][k].command = a.command
    BY DEF Kept
<1>4. Covers(log[n], a.term, c)
    BY <1>2, <1>3, NewestCovers
<1>5. c < Len(log[n]) /\ log[n][c + 1].term = a.term /\ c >= 1
    BY <1>2, <1>3, <1>4, CoversHolds
<1>6. WholeLog(log[n]) /\ Len(log[n]) \in Nat
    BY LogsAreWhole DEF WholeLog
<1>7. c + 1 \in 1..Len(log[n]) /\ a.index < c + 1
    BY <1>2, <1>3, <1>5, <1>6
<1>8. a.index + 1 \in 1..Len(log[n]) /\ log[n][a.index + 1].term = a.term
    BY <1>2, <1>5, <1>6, <1>7, RunBack
<1>9. a.index < Len(log[n])
    BY <1>2, <1>6, <1>8
<1> DEFINE x == <<log[n][a.index].term, log[n][a.index + 1]>>
<1>10. x \in Links /\ x[2].index = a.index /\ x[2].term = a.term
       /\ x[2] = log[n][a.index + 1]
    BY <1>2, <1>6, <1>8, <1>9, LogLink
<1> HIDE DEF x
<1>11. log[n][a.index + 1].command = a.command
    BY <1>2, <1>10
<1> QED BY <1>8, <1>11

\* node.rs:173 answers before anything is replicated.  For every cluster of
\* raft-servers, with any number of nodes, clients, kills, losses and duplicates,
\* up to the first server that does not come back with the log it had: once a
\* majority has acknowledged the entry to the leader that answered, committed or
\* not, every leader that nobody has outlived holds it.
THEOREM HeldAnswersAreKept == ClusterSpec => []AnsweredIsKeptOnceHeld
<1> DEFINE I == BaseInv /\ MarkInv /\ AnswerInv
<1>1. (~misread => I) /\ [ClusterNext]_clusterVars => (~misread => I)'
    BY MisreadStays, ServersMove, AnswerStep
<1>2. (~misread => I) => AnsweredIsKeptOnceHeld
    BY AnswersKept
<1>3. ClusterInit => (~misread => I)
    BY BaseInit DEF ClusterInit, AnswerInv
<1> HIDE DEF I
<1> QED BY <1>1, <1>2, <1>3, PTL DEF ClusterSpec

------------------------------------------------------------------------------
(* The runtime checks.                                                      *)

\* Nobody has applied more than it has committed.
AppliedBehind == \A n \in Server : last_applied[n] <= commit_index[n]

CheckInv ==
    /\ AppliedBehind
    /\ seen_leaders \subseteq term_leaders
    /\ ~unsupported => verdict = "Ok" /\ \A e \in committed_entries : Settled(e)

\* Committing keeps it.
LEMMA CommitToBehind ==
    ASSUME TypeOK, AppliedBehind, NEW n \in Server, NEW l, WholeLog(l), NEW i \in Nat,
           CommitTo(n, l, i)
    PROVE  AppliedBehind'
<1>1. /\ commit_index \in [Server -> Nat] /\ last_applied \in [Server -> Nat]
      /\ \A p \in Server : last_applied[p] <= commit_index[p]
    BY DEF TypeOK, AppliedBehind
<1>2. CASE i <= commit_index[n]
  <2>1. UNCHANGED <<commit_index, last_applied>>
      BY <1>2 DEF CommitTo
  <2> QED BY <2>1 DEF AppliedBehind
<1>3. CASE ~(i <= commit_index[n])
  <2> DEFINE es == to_apply(l, last_applied[n], i)
             up == applied_up_to(l, last_applied[n], i)
  <2>1. /\ commit_index' = [commit_index EXCEPT ![n] = i]
        /\ last_applied' = [last_applied EXCEPT ![n] = up]
      BY <1>3 DEF CommitTo
  <2>2. last_applied[n] <= i /\ last_applied[n] \in Nat
      BY <1>1, <1>3
  <2>3. up <= i
    <3>1. CASE up = last_applied[n]
        BY <2>2, <3>1
    <3>2. CASE es # << >> /\ up = last_index(es)
      <4>1. l \in Log /\ es \in Seq(LogEntry)
          BY <2>2, ToApplyType DEF WholeLog
      <4>2. Len(es) \in Nat /\ DOMAIN es = 1..Len(es) /\ Len(es) # 0
        <5> HIDE DEF es
        <5> QED BY <3>2, <4>1, EmptySeq, LenProperties
      <4>3. Len(es) \in DOMAIN es
          BY <4>2
      <4>4. PICK j \in 2..Len(l) : es[Len(es)] = l[j] /\ j - 1 <= i
          BY <2>2, <4>3, ToApplyIs
      <4>5. j \in 1..Len(l)
          BY DEF WholeLog
      <4>6. l[j].index = j - 1
          BY <4>5 DEF WholeLog
      <4> QED BY <3>2, <4>4, <4>6 DEF last_index
    <3>3. up = last_applied[n] \/ (es # << >> /\ up = last_index(es))
        BY DEF applied_up_to
    <3> QED BY <3>1, <3>2, <3>3
  <2> HIDE DEF up
  <2> QED BY <1>1, <2>1, <2>3 DEF AppliedBehind
<1> QED BY <1>2, <1>3

\* So does every step.
LEMMA BehindStep ==
    ASSUME BaseInv, BaseInv', AppliedBehind, [Next]_vars
    PROVE  AppliedBehind'
<1>1. /\ TypeOK /\ commit_index \in [Server -> Nat] /\ last_applied \in [Server -> Nat]
      /\ \A n \in Server : WholeLog(log[n]) /\ WholeLog(log'[n])
    BY LogsAreWhole DEF BaseInv, TypeOK
<1>2. ASSUME UNCHANGED <<commit_index, last_applied>> PROVE AppliedBehind'
    BY <1>2 DEF AppliedBehind
<1>3. ASSUME NEW n \in Server, NEW i,
             commit_index' = [commit_index EXCEPT ![n] = i],
             last_applied' = [last_applied EXCEPT ![n] = i], i \in Nat
      PROVE  AppliedBehind'
    BY <1>1, <1>3 DEF AppliedBehind
<1>4. ASSUME NEW n \in Server, spawn_node(n) PROVE AppliedBehind'
  <2> DEFINE i == BaseOf(disk[n]).last_included_index
  <2>1. /\ commit_index' = [commit_index EXCEPT ![n] = i]
        /\ last_applied' = [last_applied EXCEPT ![n] = i]
      BY <1>4 DEF spawn_node, restore, BaseOf
  <2>2. i \in Nat
    <3>1. i = commit_index'[n]
        BY <1>1, <2>1
    <3> QED BY <3>1 DEF BaseInv, TypeOK
  <2> HIDE DEF i
  <2> QED BY <1>3, <2>1, <2>2
<1>5. ASSUME NEW m \in in_flight, Deliver(m.to, m) PROVE AppliedBehind'
  <2> DEFINE n == m.to
  <2>1. m \in Message /\ n \in Server
      BY <1>1, MessageFields DEF TypeOK
  <2> HIDE DEF n
  <2>2. CASE \/ handle_pre_vote(n, m) \/ handle_pre_vote_response(n, m)
             \/ handle_request_vote(n, m) \/ handle_request_vote_response(n, m)
             \/ handle_append_entries_missing(n, m) \/ handle_append_entries_conflict(n, m)
    <3>1. UNCHANGED <<commit_index, last_applied>>
        BY <2>2 DEF handle_pre_vote, handle_pre_vote_response, start_real_election,
           handle_request_vote, handle_request_vote_response, become_leader,
           handle_append_entries_missing, handle_append_entries_conflict, logVars
    <3> QED BY <1>2, <3>1
  <2>3. CASE handle_append_entries_accept(n, m)
    <3>1. \E i : /\ CommitTo(n, log'[n], i) /\ i = Min2(m.leader_commit, last_index(log'[n]))
                 /\ m.kind = "AppendEntries"
      <4> DEFINE held   == already_held(log[n], m.entries)
                 suffix == SubSeq(m.entries, held + 1, Len(m.entries))
                 l == IF suffix = << >> THEN log[n]
                      ELSE truncate_and_append(log[n], m.entries[1].index + held, suffix)
      <4>1. /\ log' = [log EXCEPT ![n] = l] /\ m.kind = "AppendEntries"
            /\ CommitTo(n, l, Min2(m.leader_commit, last_index(l)))
          BY <2>3, Zenon DEF handle_append_entries_accept, Receives
      <4> HIDE DEF l
      <4>2. log'[n] = l
          BY <1>1, <2>1, <4>1 DEF TypeOK
      <4> QED BY <4>1, <4>2
    <3>2. PICK i : /\ CommitTo(n, log'[n], i) /\ i = Min2(m.leader_commit, last_index(log'[n]))
                   /\ m.kind = "AppendEntries"
        BY <3>1
    <3>3. m.leader_commit \in Nat /\ last_index(log'[n]) \in Nat
        BY <1>1, <2>1, <3>2, MessageFields, LastOf
    <3>4. i \in Nat
        BY <3>2, <3>3 DEF Min2
    <3> QED BY <1>1, <2>1, <3>2, <3>4, CommitToBehind
  <2>4. CASE handle_append_entries_response(n, m)
    <3> DEFINE match == [match_index[n] EXCEPT ![m.from] = last_index(log[n])]
               commit == advanced_commit(n, match)
    <3>1. CommitTo(n, log[n], commit) \/ UNCHANGED <<commit_index, last_applied>>
        BY <2>4, Zenon DEF handle_append_entries_response
    <3>2. commit \in Nat
      <4>1. match_index[n] \in [Server -> Nat] /\ commit_index[n] \in Nat /\ log[n] \in Log
          BY <1>1, <2>1 DEF TypeOK
      <4> HIDE DEF match
      <4> QED BY <2>1, <4>1, AdvancedCommitType
    <3> HIDE DEF commit
    <3> QED BY <1>1, <1>2, <2>1, <3>1, <3>2, CommitToBehind
  <2>5. CASE handle_install_snapshot(n, m)
    <3>1. FALSE
        BY <2>5 DEF handle_install_snapshot, Receives, BaseInv, WholeInv
    <3> QED BY <3>1
  <2>6. CASE handle_install_snapshot_response(n, m)
    <3> DEFINE match == [match_index[n] EXCEPT ![m.from] = first_index(log[n])]
               commit == advanced_commit(n, match)
    <3>1. CommitTo(n, log[n], commit) \/ UNCHANGED <<commit_index, last_applied>>
        BY <2>6, Zenon DEF handle_install_snapshot_response
    <3>2. commit \in Nat
      <4>1. match_index[n] \in [Server -> Nat] /\ commit_index[n] \in Nat /\ log[n] \in Log
          BY <1>1, <2>1 DEF TypeOK
      <4> HIDE DEF match
      <4> QED BY <2>1, <4>1, AdvancedCommitType
    <3> HIDE DEF commit
    <3> QED BY <1>1, <1>2, <2>1, <3>1, <3>2, CommitToBehind
  <2> QED BY <1>5, <2>2, <2>3, <2>4, <2>5, <2>6 DEF Deliver, n
<1>6. ASSUME NEW n \in Server,
             \/ tick_idle(n) \/ tick_election_timeout(n) \/ tick_leader(n)
             \/ crash_node(n) \/ compaction_pass(n) \/ \E c \in Command : propose_command(n, c)
      PROVE  UNCHANGED <<commit_index, last_applied>>
    BY <1>6, Zenon DEF tick_idle, tick_lease_lapses, tick_election_timeout, start_pre_vote,
       tick_leader, tick_heartbeat, crash_node, compaction_pass, compact_logs,
       propose_command, propose, logVars, nodeVars
<1>7. ASSUME NEW m \in in_flight, drop_message(m) PROVE UNCHANGED <<commit_index, last_applied>>
    BY <1>7 DEF drop_message, logVars
<1>8. UNCHANGED vars => UNCHANGED <<commit_index, last_applied>>
    BY DEF vars, nodeVars, logVars
<1> QED BY <1>2, <1>4, <1>5, <1>6, <1>7, <1>8 DEF Next

\* What the checks look at is what the proofs are about: every leader they see is
\* listed,
LeadersSeen == leaders_now \subseteq term_leaders

\* what they take for applied is settled,
CommandsSettled == \A e \in applied_commands : Settled(e)

\* and they compare what LogMatching compares.
LEMMA ChecksAgree ==
    /\ BaseInv => LeadersSeen /\ ElectionSafety /\ check_log_matching
    /\ BaseInv /\ MarkInv /\ CommitHeld /\ AppliedBehind => CommandsSettled
<1>1. ASSUME BaseInv PROVE LeadersSeen
    BY <1>1 DEF LeadersSeen, leaders_now, BaseInv, DurabilityInv, LeadersAreListed, TypeOK
<1>2. ASSUME BaseInv PROVE ElectionSafety
    BY <1>2, InvImpliesSafety DEF BaseInv
<1>3. ASSUME BaseInv PROVE check_log_matching
  <2> SUFFICES ASSUME NEW n \in alive, NEW p \in alive,
                      NEW i \in 1..Min2(last_index(log[n]), last_index(log[p])),
                      term_at(log[n], i) # None, term_at(log[n], i) = term_at(log[p], i)
               PROVE  entry_at(log[n], i).command = entry_at(log[p], i).command
      BY DEF check_log_matching
  <2>1. n \in Server /\ p \in Server
      BY <1>3 DEF BaseInv, TypeOK
  <2>2. WholeLog(log[n]) /\ WholeLog(log[p]) /\ LogMatching
      BY <1>3, <2>1, LogsAreWhole, InvImpliesMatching DEF BaseInv
  <2>3. /\ first_index(log[n]) = 0 /\ first_index(log[p]) = 0
        /\ last_index(log[n]) = Len(log[n]) - 1 /\ last_index(log[p]) = Len(log[p]) - 1
        /\ Len(log[n]) \in Nat /\ Len(log[p]) \in Nat
      BY <2>2 DEF WholeLog
  <2>4. /\ Max2(first_index(log[n]), first_index(log[p])) = 0 /\ i \in Nat /\ i >= 1
        /\ i \in 0+1 .. Min2(last_index(log[n]), last_index(log[p])) /\ i \in 0+1 .. i
        /\ i - 0 < Len(log[n]) /\ i - 0 < Len(log[p]) /\ 0 <= i
      BY <2>3 DEF Max2, Min2
  <2>5. /\ term_at(log[n], i) = log[n][i - first_index(log[n]) + 1].term
        /\ term_at(log[p], i) = log[p][i - first_index(log[p]) + 1].term
        /\ entry_at(log[n], i) = log[n][i - first_index(log[n]) + 1]
        /\ entry_at(log[p], i) = log[p][i - first_index(log[p]) + 1]
      BY <2>3, <2>4, Zenon DEF term_at, entry_at
  <2>6. \A j \in 0+1 .. i : log[n][j - first_index(log[n]) + 1] = log[p][j - first_index(log[p]) + 1]
    <3>1. log[n][i - first_index(log[n]) + 1].term = log[p][i - first_index(log[p]) + 1].term
        BY <2>5
    <3> QED BY <2>1, <2>2, <2>4, <3>1, Zenon DEF LogMatching
  <2> QED BY <2>4, <2>5, <2>6, Zenon
<1>4. ASSUME BaseInv, MarkInv, CommitHeld, AppliedBehind PROVE CommandsSettled
  <2> SUFFICES ASSUME NEW e \in applied_commands PROVE Settled(e)
      BY DEF CommandsSettled
  <2>1. PICK n \in alive :
            e \in {x \in {entry_at(log[n], i) : i \in 1..last_applied[n]} \ {None} :
                      x.command # Noop}
      BY Zenon DEF applied_commands
  <2>2. PICK i \in 1..last_applied[n] : e = entry_at(log[n], i)
      BY <2>1
  <2>3. /\ n \in Server /\ last_applied[n] \in Nat /\ commit_index[n] \in Nat
        /\ last_applied[n] <= commit_index[n] /\ HeldBelow /\ WholeLog(log[n])
      BY <1>4, SettledIs, LogsAreWhole DEF BaseInv, TypeOK, AppliedBehind
  <2>4. commit_index[n] # 0
      BY <2>3
  <2>5. PICK t \in Nat, c \in Nat :
            Chosen(t, c) /\ c >= commit_index[n] /\ Covers(log[n], t, c)
      BY <1>4, <2>3, <2>4 DEF CommitHeld
  <2>6. i \in 1..c
      BY <2>3, <2>5
  <2>7. i < Len(log[n]) /\ Settled(log[n][i + 1])
      BY <2>3, <2>5, <2>6 DEF HeldBelow
  <2>8. e = log[n][i + 1]
    <3>1. first_index(log[n]) = 0 /\ i - 0 = i /\ 0 <= i
        BY <2>3 DEF WholeLog
    <3> QED BY <2>2, <2>7, <3>1 DEF entry_at
  <2> QED BY <2>7, <2>8
<1> QED BY <1>1, <1>2, <1>3, <1>4

\* A step with its checks is a step.
LEMMA CheckedStepIs ==
    ASSUME [CheckedNext]_checkedVars
    PROVE  [Next]_vars
BY DEF CheckedNext, checkedVars

\* The checks go on passing.
LEMMA CheckStep ==
    ASSUME BaseInv, MarkInv, CommitInv, CheckInv, [CheckedNext]_checkedVars,
           [NoCompaction]_vars
    PROVE  CheckInv'
<1>1. [Uncompacted]_vars
    BY CheckedStepIs, UncompactedIs
<1>2. PICK n \in Server : Moves(n)
    BY <1>1, StepMoves
<1>3. BaseInv' /\ MarkInv' /\ CommitInv' /\ term_leaders \subseteq term_leaders'
    BY <1>2, MovesIs, MarkStep, CommitStep
<1>4. AppliedBehind'
    BY <1>1, <1>3, UncompactedIs, BehindStep DEF CheckInv
<1>5. LeadersSeen' /\ ElectionSafety' /\ check_log_matching'
    BY <1>3, ChecksAgree, PTL
<1>6. OneSettled'
    BY <1>3, SettledIs, PTL
<1>7. \A e : Settled(e) => Settled(e)'
    BY <1>2, SettledStays
<1>8. unsupported => unsupported'
    BY <1>2, CommitActs DEF CommitInv
<1>9. CASE UNCHANGED checkedVars
  <2>1. UNCHANGED <<seen_leaders, committed_entries, verdict>>
      BY <1>9 DEF checkedVars
  <2> QED BY <1>3, <1>4, <1>7, <1>8, <2>1 DEF CheckInv
<1>10. CASE CheckedNext
  <2>1. verify_safety
      BY <1>10 DEF CheckedNext
  <2>2. seen_leaders' \subseteq seen_leaders \cup leaders_now'
      BY <2>1, Zenon DEF verify_safety
  <2>3. seen_leaders' \subseteq term_leaders'
      BY <1>3, <1>5, <2>2 DEF CheckInv, LeadersSeen
  <2>4. ASSUME ~unsupported'
        PROVE  verdict' = "Ok" /\ \A e \in committed_entries' : Settled(e)'
    <3>1. ~unsupported /\ \A e \in committed_entries : Settled(e)
        BY <1>8, <2>4 DEF CheckInv
    <3>2. CommitHeld'
        BY <1>3, <2>4 DEF CommitInv
    <3>3. CommandsSettled'
        BY <1>3, <1>4, <3>2, ChecksAgree, PTL
    <3>4. check_election_safety(seen_leaders, leaders_now')
      <4>1. leaders_now' \subseteq term_leaders' /\ seen_leaders \subseteq term_leaders'
          BY <1>3, <1>5 DEF CheckInv, LeadersSeen
      <4>2. \A a, b \in term_leaders' : a[1] = b[1] => a[2] = b[2]
          BY <1>5 DEF ElectionSafety
      <4> QED BY <4>1, <4>2 DEF check_election_safety
    <3>5. \A e \in committed_entries \cup applied_commands' : Settled(e)'
        BY <1>7, <3>1, <3>3 DEF CommandsSettled
    <3>6. check_state_machine_safety(committed_entries, applied_commands')
        BY <1>6, <3>5 DEF check_state_machine_safety, OneSettled
    <3>7. verdict' = "Ok"
        BY <1>5, <2>1, <3>4, <3>6 DEF verify_safety, check_leader_append_only
    <3>8. committed_entries' \subseteq committed_entries \cup applied_commands'
        BY <2>1, Zenon DEF verify_safety
    <3> QED BY <3>5, <3>7, <3>8
  <2> QED BY <1>4, <2>3, <2>4 DEF CheckInv
<1> QED BY <1>9, <1>10

\* invariants.rs:59, for a cluster that does not compact, with any number of
\* nodes, terms, crashes, losses and duplicates: as long as leaders commit only
\* what a majority acknowledged, none of the checks fails, whatever they remember
\* of earlier ticks.
THEOREM SupportedClustersPass ==
    CheckedSpec /\ NeverCompacts =>
        [](~unsupported => verdict = "Ok" /\ NoFalseAlarm)
<1>1. BaseInv /\ MarkInv /\ CommitInv /\ CheckInv /\ [CheckedNext]_checkedVars
          /\ [NoCompaction]_vars => BaseInv' /\ MarkInv' /\ CommitInv' /\ CheckInv'
    BY CheckedStepIs, UncompactedIs, StepMoves, MarkStep, CommitStep, CheckStep
<1>2. CheckInv => (~unsupported => verdict = "Ok" /\ NoFalseAlarm)
    BY DEF CheckInv, NoFalseAlarm
<1>3. Init /\ ChecksInit => BaseInv /\ MarkInv /\ CommitInv /\ CheckInv
    BY BaseInit DEF Init, ChecksInit, CheckInv, AppliedBehind
<1> QED BY <1>1, <1>2, <1>3, PTL DEF CheckedSpec, NeverCompacts
==============================================================================
