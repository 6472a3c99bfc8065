------------------------------- MODULE RaftNode -------------------------------
(***************************************************************************)
(* raft-core/src/node.rs: the consensus state machine of every node, and   *)
(* the effects its Actions have when process_actions of the simulator      *)
(* (raft-sim/src/simulator.rs) carries them out: Send puts messages in     *)
(* flight, the Persist and Append actions change the disk, Apply hands     *)
(* entries to the state machine.  A handler and the Actions it returns are *)
(* one step, because the simulator runs process_actions to the end before  *)
(* anything else happens.                                                  *)
(*                                                                         *)
(* Time.  election_elapsed is only ever compared with                      *)
(* election_timeout_base (the leader lease) and with the randomised        *)
(* election_timeout, which lies in base..2*base-1.  lease_fresh[n] stands  *)
(* for election_elapsed < election_timeout_base; a timeout may fire while  *)
(* the lease is fresh (the tick that reaches base when the drawn timeout   *)
(* is base itself) or at any later tick.  heartbeat_elapsed is abstracted  *)
(* to "the heartbeat tick may come".                                       *)
(***************************************************************************)
EXTENDS StableDisk, FiniteSets

CONSTANTS Server,       \* NodeIds of the cluster
          Command,      \* client commands (non-empty byte vectors)
          Duplicates,   \* duplicate_rate > 0: a delivered message may come again
          SelfInPeers,  \* the peer list holds the node itself: raft-server does this
          MaxTerm       \* bound: no election is started above this term

ASSUME ServerAssumption ==
    /\ IsFiniteSet(Server) /\ Cardinality(Server) >= 2
    /\ None \notin Server
ASSUME CommandAssumption == Noop \notin Command
ASSUME NoneAssumption ==    \* no Some(x) is None
    /\ None \notin Nat
    /\ None \notin [last_included_index : Nat, last_included_term : Nat]
ASSUME BoundAssumption ==
    MaxTerm \in Nat /\ Duplicates \in BOOLEAN /\ SelfInPeers \in BOOLEAN

VARIABLES
    role, current_term, voted_for, log, commit_index, last_applied,
    next_index, match_index, votes_received, pre_votes_received, leader_id,
    lease_fresh,    \* election_elapsed < election_timeout_base
    disk,           \* Simulator::disks
    in_flight,      \* SimNetwork::in_flight
    panicked,       \* an assert! or panic! has fired
    \* what has happened so far, read by properties only
    term_leaders,   \* <<term, node>>: SafetyInvariants::term_leaders
    ballots,        \* [voter, term, candidate]: every vote ever cast
    applied,        \* every entry handed to a state machine by Action::Apply
    acked,          \* [node, term, index]: how far each success answer reaches
    unsupported     \* a leader committed more than a majority had acknowledged

termVars   == <<role, current_term, voted_for, leader_id, lease_fresh>>
voteVars   == <<votes_received, pre_votes_received>>
leaderVars == <<next_index, match_index>>
logVars    == <<log, commit_index, last_applied, applied>>
histVars   == <<term_leaders, ballots, acked, unsupported>>
nodeVars   == <<termVars, voteVars, leaderVars, logVars, disk, in_flight,
                panicked, histVars>>

Peers(n) == Server \ {n}

\* peers.len(): the simulator leaves the node itself out of its peer list; the
\* server (main.rs:54) does not.  What a node sends itself there is dropped, for
\* it has no connection to itself and no address of itself (main.rs:69), so
\* only the count changes.
peers_len == Cardinality(Server) - IF SelfInPeers THEN 0 ELSE 1

\* (peers.len() + 1) / 2 + 1
majority == (peers_len + 1) \div 2 + 1

Entry(i, t, c) == [index |-> i, term |-> t, command |-> c]

Max2(a, b) == IF a >= b THEN a ELSE b
Min2(a, b) == IF a <= b THEN a ELSE b

------------------------------------------------------------------------------
(* Messages (raft-core/src/message.rs).  InstallSnapshot always carries      *)
(* offset 0, done = true and a constant payload, which are left out.         *)

Vote(k, n, p, t, l) ==
    [kind |-> k, from |-> n, to |-> p, term |-> t,
     last_log_index |-> last_index(l), last_log_term |-> last_term(l)]

VoteResponse(k, n, p, t, g) ==
    [kind |-> k, from |-> n, to |-> p, term |-> t, vote_granted |-> g]

AppendResponse(n, p, t, ok, ct, ci) ==
    [kind |-> "AppendEntriesResponse", from |-> n, to |-> p, term |-> t,
     success |-> ok, conflict_term |-> ct, conflict_index |-> ci]

SnapshotResponse(n, p, t) ==
    [kind |-> "InstallSnapshotResponse", from |-> n, to |-> p, term |-> t]

Refusals == {"PreVoteResponse", "RequestVoteResponse"}

LogEntry == [index : Nat, term : Nat, command : Command \cup {Noop}]
Log == Seq(LogEntry) \ {<< >>}
OptNat == Nat \cup {None}
OptServer == Server \cup {None}
Disk == [current_term : Nat, voted_for : OptServer, log_entries : Log,
         snapshot : [last_included_index : Nat, last_included_term : Nat] \cup {None}]

Message ==
         [kind : {"PreVote", "RequestVote"}, from : Server, to : Server, term : Nat,
          last_log_index : Nat, last_log_term : Nat]
    \cup [kind : Refusals, from : Server, to : Server, term : Nat,
          vote_granted : BOOLEAN]
    \cup [kind : {"AppendEntries"}, from : Server, to : Server, term : Nat,
          prev_log_index : Nat, prev_log_term : Nat, entries : Seq(LogEntry),
          leader_commit : Nat]
    \cup [kind : {"AppendEntriesResponse"}, from : Server, to : Server, term : Nat,
          success : BOOLEAN, conflict_term : OptNat, conflict_index : OptNat]
    \cup [kind : {"InstallSnapshot"}, from : Server, to : Server, term : Nat,
          last_included_index : Nat, last_included_term : Nat]
    \cup [kind : {"InstallSnapshotResponse"}, from : Server, to : Server, term : Nat]


\* Whether step() can still do anything with message x once node n has term t.
\* A message of a term below its receiver's is dropped by the early return of
\* step(), or (pre-votes) refused or compared with an equal term, and terms
\* never decrease, on disk neither; a refusal changes nothing, it carries the
\* term its receiver had when it asked.  Such messages are not kept.
Live(x, n, t) ==
    /\ x.term >= IF x.to = n THEN t ELSE current_term[x.to]
    /\ x.kind \in Refusals => x.vote_granted

\* SimNetwork: node n handles m, ends in term t and sends its answers.  Loss,
\* delay, reordering and partitions are messages delivered late or never.
Handle(n, m, t, answers) ==
    in_flight' = {x \in (IF Duplicates THEN in_flight ELSE in_flight \ {m})
                          \cup answers : Live(x, n, t)}

Send(n, messages) ==
    in_flight' = in_flight \cup {x \in messages : Live(x, n, current_term[n])}

\* Mutant: a leader sends older entries as its own.
replicate_to_peer_restamped(n, p, t, l, c, next) ==
    [kind |-> "AppendEntries", from |-> n, to |-> p, term |-> t,
     prev_log_index |-> next - 1,
     prev_log_term  |-> IF term_at(l, next - 1) = None THEN 0 ELSE term_at(l, next - 1),
     entries        |-> [k \in DOMAIN entries_from(l, next) |->
                            [entries_from(l, next)[k] EXCEPT !.term = t]],
     leader_commit  |-> c]

\* replicate_to_peer for a leader of term t with log l and commit index c.
replicate_to_peer(n, p, t, l, c, next) ==
    IF next <= first_index(l)
    THEN [kind |-> "InstallSnapshot", from |-> n, to |-> p, term |-> t,
          last_included_index |-> first_index(l),
          last_included_term  |-> l[1].term]
    ELSE [kind |-> "AppendEntries", from |-> n, to |-> p, term |-> t,
          prev_log_index |-> next - 1,
          prev_log_term  |-> IF term_at(l, next - 1) = None
                             THEN 0 ELSE term_at(l, next - 1),
          entries        |-> entries_from(l, next),
          leader_commit  |-> c]

broadcast(n, t, l, c, next) ==
    {replicate_to_peer(n, p, t, l, c, next[p]) : p \in Peers(n)}

------------------------------------------------------------------------------
(* Pure helpers of the handlers.                                            *)

\* Mutant: the two logs are compared the wrong way round.
is_log_outdated(l, last_log_index, last_log_term) ==
    \/ last_log_term < last_term(l)
    \/ last_log_term = last_term(l) /\ last_log_index <= last_index(l)

is_log_up_to_date(l, last_log_index, last_log_term) ==
    \/ last_log_term > last_term(l)
    \/ last_log_term = last_term(l) /\ last_log_index >= last_index(l)

leader_lease_active(n) == leader_id[n] # None /\ lease_fresh[n]

\* The entries apply_committed_entries hands over, and the new last_applied.
to_apply(l, from, commit) ==
    LET es == entries_from(l, from + 1)
        takes == {k \in 0..Len(es) : \A j \in 1..k : es[j].index <= commit}
    IN  SubSeq(es, 1, Max(takes))

applied_up_to(l, from, commit) ==
    LET es == to_apply(l, from, commit)
    IN  IF commit > from /\ es # << >> THEN last_index(es) ELSE from

\* A higher commit index is taken and apply_committed_entries runs on log l.
CommitTo(n, l, commit) ==
    LET es == to_apply(l, last_applied[n], commit)
    IN  IF commit <= commit_index[n]
        THEN UNCHANGED <<commit_index, last_applied, applied>>
        ELSE
        /\ commit_index' = [commit_index EXCEPT ![n] = commit]
        /\ last_applied' = [last_applied EXCEPT
                               ![n] = applied_up_to(l, @, commit)]
        /\ applied' = IF commit > last_applied[n]
                      THEN applied \cup {es[k] : k \in DOMAIN es}
                      ELSE applied

\* Whether a majority, n included, holds n's log up to i by its own answers.
Supported(n, i) ==
    LET holds(p) == \E a \in acked : /\ a.node = p /\ a.index >= i
                                     /\ a.term = current_term[n]
    IN  Cardinality({n} \cup {p \in Peers(n) : holds(p)}) >= majority

\* The commit index maybe_advance_commit_index leaves, given match_index.
advanced_commit(n, match) ==
    LET agree(i) == {n} \cup {p \in Peers(n) : match[p] >= i}
        ready == {i \in commit_index[n]+1 .. last_index(log[n]) :
                    /\ term_at(log[n], i) = current_term[n]
                    /\ Cardinality(agree(i)) >= majority}
    IN  IF ready = {} THEN commit_index[n] ELSE Max(ready)

------------------------------------------------------------------------------
(* step(): a message of a newer term, unless it belongs to a pre-vote, makes *)
(* the node a follower of that term first; one of an older term is dropped.  *)

Newer(n, m) == m.term > current_term[n]

\* Mutant: whoever sends a newer term is taken for its leader.
leader_seen_sender(n, m) == IF Newer(n, m) THEN m.from ELSE leader_id[n]

vote_seen(n, m)   == IF Newer(n, m) THEN None ELSE voted_for[n]
role_seen(n, m)   == IF Newer(n, m) THEN "Follower" ELSE role[n]
leader_seen(n, m) == IF Newer(n, m) THEN None ELSE leader_id[n]
fresh_seen(n, m)  == IF Newer(n, m) THEN TRUE ELSE lease_fresh[n]

hard_state_seen(n, m) ==
    IF Newer(n, m) THEN write_hard_state(disk[n], m.term, None) ELSE disk[n]

\* The effect of that, for a handler that adds nothing to it.
Observe(n, m) ==
    /\ current_term' = [current_term EXCEPT ![n] = m.term]
    /\ voted_for' = [voted_for EXCEPT ![n] = vote_seen(n, m)]
    /\ role' = [role EXCEPT ![n] = role_seen(n, m)]
    /\ leader_id' = [leader_id EXCEPT ![n] = leader_seen(n, m)]
    /\ lease_fresh' = [lease_fresh EXCEPT ![n] = fresh_seen(n, m)]
    /\ disk' = [disk EXCEPT ![n] = hard_state_seen(n, m)]

\* become_follower(m.term, Some(m.from)), after the step above; disk aside.
Follow(n, m) ==
    /\ current_term' = [current_term EXCEPT ![n] = m.term]
    /\ voted_for' = [voted_for EXCEPT ![n] = vote_seen(n, m)]
    /\ role' = [role EXCEPT ![n] = "Follower"]
    /\ leader_id' = [leader_id EXCEPT ![n] = m.from]
    /\ lease_fresh' = [lease_fresh EXCEPT ![n] = TRUE]

Receives(n, m, k) == m \in in_flight /\ m.to = n /\ m.kind = k

\* Past the early return of step().
Current(n, m) == m.term >= current_term[n]

------------------------------------------------------------------------------
(* tick()                                                                   *)

\* A tick that takes election_elapsed to election_timeout_base, below the
\* drawn timeout: from here on the node no longer honours its leader's lease.
tick_lease_lapses(n) ==
    /\ role[n] # "Leader" /\ lease_fresh[n]
    /\ leader_id[n] # None \/ role[n] = "Candidate"
    /\ lease_fresh' = [lease_fresh EXCEPT ![n] = FALSE]
    /\ UNCHANGED <<role, current_term, voted_for, leader_id, voteVars,
                   leaderVars, logVars, disk, in_flight, panicked, histVars>>

\* The tick that reaches election_timeout: start_pre_vote.  leader_id stays.
start_pre_vote(n) ==
    /\ role[n] # "Leader"
    /\ current_term[n] < MaxTerm
    /\ role' = [role EXCEPT ![n] = "PreCandidate"]
    /\ pre_votes_received' = [pre_votes_received EXCEPT ![n] = {n}]
    /\ lease_fresh' = [lease_fresh EXCEPT ![n] = TRUE]
    /\ Send(n, {Vote("PreVote", n, p, current_term[n] + 1, log[n]) : p \in Peers(n)})
    /\ UNCHANGED <<current_term, voted_for, leader_id, votes_received,
                   leaderVars, logVars, disk, panicked, histVars>>

\* The tick that reaches heartbeat_interval: broadcast_heartbeats.
tick_heartbeat(n) ==
    /\ role[n] = "Leader"
    /\ Send(n, broadcast(n, current_term[n], log[n], commit_index[n], next_index[n]))
    /\ UNCHANGED <<termVars, voteVars, leaderVars, logVars, disk, panicked,
                   histVars>>

------------------------------------------------------------------------------
(* Elections                                                                *)

\* Pre-votes change nothing at the voter, and neither side takes a term from
\* the other: the answer carries the voter's own term.
pre_vote_granted(n, m) ==
    /\ m.term >= current_term[n]
    /\ is_log_up_to_date(log[n], m.last_log_index, m.last_log_term)
    /\ ~leader_lease_active(n)

handle_pre_vote(n, m) ==
    /\ Receives(n, m, "PreVote")
    /\ Handle(n, m, current_term[n],
              {VoteResponse("PreVoteResponse", n, m.from, current_term[n],
                            pre_vote_granted(n, m))})
    /\ UNCHANGED <<termVars, voteVars, leaderVars, logVars, disk, panicked,
                   histVars>>

\* start_real_election: a new term, a vote for itself on disk, RequestVotes.
start_real_election(n, m) ==
    LET t == current_term[n] + 1
    IN  /\ current_term' = [current_term EXCEPT ![n] = t]
        /\ role' = [role EXCEPT ![n] = "Candidate"]
        /\ voted_for' = [voted_for EXCEPT ![n] = n]
        /\ votes_received' = [votes_received EXCEPT ![n] = {n}]
        /\ lease_fresh' = [lease_fresh EXCEPT ![n] = TRUE]
        /\ disk' = [disk EXCEPT ![n] = write_hard_state(@, t, n)]
        /\ ballots' = ballots \cup {[voter |-> n, term |-> t, candidate |-> n]}
        /\ Handle(n, m, t, {Vote("RequestVote", n, p, t, log[n]) : p \in Peers(n)})
        /\ UNCHANGED <<leader_id, leaderVars, logVars, panicked, term_leaders,
                       acked, unsupported>>

counts_pre_vote(n, m) ==
    role[n] = "PreCandidate" /\ m.term = current_term[n] /\ m.vote_granted

handle_pre_vote_response(n, m) ==
    LET granted == pre_votes_received[n] \cup {m.from}
    IN  /\ Receives(n, m, "PreVoteResponse")
        /\ IF counts_pre_vote(n, m)
           THEN /\ pre_votes_received' = [pre_votes_received EXCEPT ![n] = granted]
                /\ IF Cardinality(granted) >= majority
                   THEN start_real_election(n, m)
                   ELSE /\ Handle(n, m, current_term[n], {})
                        /\ UNCHANGED <<termVars, votes_received, leaderVars,
                                       logVars, disk, panicked, histVars>>
           ELSE /\ Handle(n, m, current_term[n], {})
                /\ UNCHANGED <<termVars, voteVars, leaderVars, logVars, disk,
                               panicked, histVars>>

\* Mutants of vote_granted: a second vote in a term; a vote for any log.
vote_granted_again(n, m) ==
    /\ is_log_up_to_date(log[n], m.last_log_index, m.last_log_term)
    /\ ~(leader_seen(n, m) # None /\ fresh_seen(n, m))
vote_granted_to_any_log(n, m) ==
    /\ vote_seen(n, m) \in {None, m.from}
    /\ ~(leader_seen(n, m) # None /\ fresh_seen(n, m))

\* A RequestVote of a newer term has cleared leader_id and voted_for by the
\* time the handler looks at them.
vote_granted(n, m) ==
    /\ vote_seen(n, m) \in {None, m.from}
    /\ is_log_up_to_date(log[n], m.last_log_index, m.last_log_term)
    /\ ~(leader_seen(n, m) # None /\ fresh_seen(n, m))

handle_request_vote(n, m) ==
    LET grant == vote_granted(n, m)
    IN  /\ Receives(n, m, "RequestVote")
        /\ Current(n, m)
        /\ current_term' = [current_term EXCEPT ![n] = m.term]
        /\ role' = [role EXCEPT ![n] = role_seen(n, m)]
        /\ leader_id' = [leader_id EXCEPT ![n] = leader_seen(n, m)]
        /\ voted_for' = [voted_for EXCEPT
                            ![n] = IF grant THEN m.from ELSE vote_seen(n, m)]
        /\ lease_fresh' = [lease_fresh EXCEPT ![n] = grant \/ fresh_seen(n, m)]
        /\ disk' = [disk EXCEPT
                       ![n] = IF grant THEN write_hard_state(@, m.term, m.from)
                                       ELSE hard_state_seen(n, m)]
        /\ ballots' = IF grant
                      THEN ballots \cup {[voter |-> n, term |-> m.term,
                                          candidate |-> m.from]}
                      ELSE ballots
        /\ Handle(n, m, m.term,
                  {VoteResponse("RequestVoteResponse", n, m.from, m.term, grant)})
        /\ UNCHANGED <<voteVars, leaderVars, logVars, panicked, term_leaders,
                       acked, unsupported>>

\* become_leader: fresh progress maps, a no-op of the new term in the log and
\* on disk, and a first round of AppendEntries.
become_leader(n, m) ==
    LET last == last_index(log[n])
        noop == Entry(last + 1, current_term[n], Noop)
        next == [p \in Server |-> last + 1]
        l    == Append(log[n], noop)
    IN  /\ role' = [role EXCEPT ![n] = "Leader"]
        /\ leader_id' = [leader_id EXCEPT ![n] = n]
        /\ next_index' = [next_index EXCEPT ![n] = next]
        /\ match_index' = [match_index EXCEPT ![n] = [p \in Server |-> 0]]
        /\ log' = [log EXCEPT ![n] = l]
        /\ disk' = [disk EXCEPT ![n] = append_entries(@, <<noop>>)]
        /\ panicked' = (panicked \/ append_panics(disk[n].log_entries, <<noop>>))
        /\ term_leaders' = term_leaders \cup {<<current_term[n], n>>}
        /\ Handle(n, m, m.term, broadcast(n, current_term[n], l, commit_index[n], next))
        /\ UNCHANGED <<current_term, voted_for, lease_fresh, commit_index,
                       last_applied, applied, ballots, acked, unsupported>>

counts_vote(n, m) ==
    role[n] = "Candidate" /\ m.term = current_term[n] /\ m.vote_granted

handle_request_vote_response(n, m) ==
    LET granted == votes_received[n] \cup {m.from}
    IN  /\ Receives(n, m, "RequestVoteResponse")
        /\ Current(n, m)
        /\ UNCHANGED pre_votes_received
        /\ IF counts_vote(n, m)
           THEN /\ votes_received' = [votes_received EXCEPT ![n] = granted]
                /\ IF Cardinality(granted) >= majority
                   THEN become_leader(n, m)
                   ELSE /\ Handle(n, m, m.term, {})
                        /\ UNCHANGED <<termVars, leaderVars, logVars, disk,
                                       panicked, histVars>>
           ELSE /\ Observe(n, m)
                /\ Handle(n, m, m.term, {})
                /\ UNCHANGED <<votes_received, leaderVars, logVars, panicked,
                               histVars>>

------------------------------------------------------------------------------
(* Log replication                                                          *)

\* propose() on a leader: the entry goes to the log and to disk, and every
\* peer is sent what it lacks.
propose(n, c) ==
    LET entry == Entry(last_index(log[n]) + 1, current_term[n], c)
        l == Append(log[n], entry)
    IN  /\ role[n] = "Leader"
        /\ log' = [log EXCEPT ![n] = l]
        /\ disk' = [disk EXCEPT ![n] = append_entries(@, <<entry>>)]
        /\ panicked' = (panicked \/ append_panics(disk[n].log_entries, <<entry>>))
        /\ Send(n, broadcast(n, current_term[n], l, commit_index[n], next_index[n]))
        /\ UNCHANGED <<termVars, voteVars, leaderVars, commit_index,
                       last_applied, applied, histVars>>

\* The local log does not reach prev_log_index, or has compacted it away.
handle_append_entries_missing(n, m) ==
    /\ Receives(n, m, "AppendEntries")
    /\ Current(n, m)
    /\ term_at(log[n], m.prev_log_index) = None
    /\ Follow(n, m)
    /\ disk' = [disk EXCEPT ![n] = hard_state_seen(n, m)]
    /\ Handle(n, m, m.term, {AppendResponse(n, m.from, m.term, FALSE, None,
                                 last_index(log[n]) + 1)})
    /\ UNCHANGED <<voteVars, leaderVars, logVars, panicked, histVars>>

\* The first index of the run of term-t entries that ends at i.
first_of_run(l, i, t) ==
    Min({j \in first_index(l)..i : \A k \in j..i : term_at(l, k) = t})

\* The local log has another term at prev_log_index.
handle_append_entries_conflict(n, m) ==
    LET t == term_at(log[n], m.prev_log_index)
    IN  /\ Receives(n, m, "AppendEntries")
        /\ Current(n, m)
        /\ t # None /\ t # m.prev_log_term
        /\ Follow(n, m)
        /\ disk' = [disk EXCEPT ![n] = hard_state_seen(n, m)]
        /\ Handle(n, m, m.term, {AppendResponse(n, m.from, m.term, FALSE, t,
                                     first_of_run(log[n], m.prev_log_index, t))})
        /\ UNCHANGED <<voteVars, leaderVars, logVars, panicked, histVars>>

\* Mutant: an entry is held when its index is, whatever its term.
already_held_by_index(l, es) ==
    Max({k \in 0..Len(es) : \A j \in 1..k : term_at(l, es[j].index) # None})

\* How many leading entries the local log already holds with the same term.
already_held(l, es) ==
    Max({k \in 0..Len(es) : \A j \in 1..k : term_at(l, es[j].index) = es[j].term})

\* prev matches: everything from the first entry that is missing or differs
\* replaces the local suffix, in memory and on disk; then the commit index.
handle_append_entries_accept(n, m) ==
    LET held   == already_held(log[n], m.entries)
        suffix == SubSeq(m.entries, held + 1, Len(m.entries))
        attach == m.entries[1].index + held
        l      == IF suffix = << >> THEN log[n]
                  ELSE truncate_and_append(log[n], attach, suffix)
        d      == hard_state_seen(n, m)
        panics == /\ suffix # << >>
                  /\ \/ ~truncate_ok(log[n], attach)
                     \/ disk_truncate_panics(d, attach, suffix)
        commit == Min2(m.leader_commit, last_index(l))
    IN  /\ Receives(n, m, "AppendEntries")
        /\ Current(n, m)
        /\ term_at(log[n], m.prev_log_index) = m.prev_log_term
        /\ Follow(n, m)
        /\ log' = [log EXCEPT ![n] = l]
        /\ disk' = [disk EXCEPT ![n] =
                       IF suffix = << >> \/ panics THEN d
                       ELSE disk_truncate_and_append(d, attach, suffix)]
        /\ panicked' = (panicked \/ panics)
        /\ CommitTo(n, l, commit)
        /\ Handle(n, m, m.term, {AppendResponse(n, m.from, m.term, TRUE, None, None)})
        /\ acked' = acked \cup {[node |-> n, term |-> m.term,
                                 index |-> m.prev_log_index + Len(m.entries)]}
        /\ UNCHANGED <<voteVars, leaderVars, term_leaders, ballots, unsupported>>

\* Mutant: a rejected leader tries the same place again.
backtracked_nowhere(l, next, m) == next

\* Where a rejected leader resumes: after its own last entry of the
\* conflicting term if it has one, else where the follower says.
backtracked_next(l, next, m) ==
    LET same == {i \in first_index(l)..last_index(l) :
                    term_at(l, i) = m.conflict_term}
        i == IF m.conflict_term # None /\ same # {} THEN Max(same) + 1
             ELSE IF m.conflict_index # None THEN m.conflict_index
             ELSE IF m.conflict_term # None THEN 1
             ELSE next - 1
    IN  Max2(i, 1)

\* A success is taken to cover the whole log of the leader as it is NOW: the
\* answer does not say which entries it acknowledges.
handle_append_entries_response(n, m) ==
    LET leads == role[n] = "Leader" /\ m.term = current_term[n]
        last  == last_index(log[n])
        match == [match_index[n] EXCEPT ![m.from] = last]
        commit == advanced_commit(n, match)
        next  == backtracked_next(log[n], next_index[n][m.from], m)
    IN  /\ Receives(n, m, "AppendEntriesResponse")
        /\ Current(n, m)
        /\ UNCHANGED <<voteVars, log, panicked, term_leaders, ballots, acked>>
        /\ \/ /\ leads /\ m.success
              /\ next_index' = [next_index EXCEPT ![n][m.from] = last + 1]
              /\ match_index' = [match_index EXCEPT ![n] = match]
              /\ CommitTo(n, log[n], commit)
              /\ unsupported' = (unsupported \/ (/\ commit > commit_index[n]
                                                 /\ ~Supported(n, commit)))
              /\ Handle(n, m, m.term, {})
              /\ UNCHANGED <<termVars, disk>>
           \/ /\ leads /\ ~m.success
              /\ next_index' = [next_index EXCEPT ![n][m.from] = next]
              /\ Handle(n, m, m.term, {replicate_to_peer(n, m.from, current_term[n], log[n],
                                              commit_index[n], next)})
              /\ UNCHANGED <<termVars, match_index, commit_index, last_applied,
                             applied, disk, unsupported>>
           \/ /\ ~leads
              /\ Observe(n, m)
              /\ Handle(n, m, m.term, {})
              /\ UNCHANGED <<leaderVars, commit_index, last_applied, applied,
                             unsupported>>

------------------------------------------------------------------------------
(* Snapshots                                                                *)

\* compact_logs, which pushes PersistSnapshot even when nothing is compacted.
compact_logs(n, i, t) ==
    /\ i <= commit_index[n]
    /\ log' = [log EXCEPT ![n] = compact(@, i, t)]
    /\ disk' = [disk EXCEPT ![n] = write_snapshot(@, SnapshotMeta(i, t))]
    /\ UNCHANGED <<termVars, voteVars, leaderVars, commit_index, last_applied,
                   applied, in_flight, panicked, histVars>>

\* A snapshot at or below commit_index is acknowledged and ignored; any other
\* replaces the whole log, also entries that follow it.
handle_install_snapshot(n, m) ==
    LET i == m.last_included_index
        d == hard_state_seen(n, m)
    IN  /\ Receives(n, m, "InstallSnapshot")
        /\ Current(n, m)
        /\ Follow(n, m)
        /\ IF i <= commit_index[n]
           THEN /\ disk' = [disk EXCEPT ![n] = d]
                /\ UNCHANGED <<log, commit_index, last_applied>>
           ELSE /\ log' = [log EXCEPT ![n] = install_snapshot(i, m.last_included_term)]
                /\ commit_index' = [commit_index EXCEPT ![n] = i]
                /\ last_applied' = [last_applied EXCEPT ![n] = i]
                /\ disk' = [disk EXCEPT ![n] =
                               write_snapshot(d, SnapshotMeta(i, m.last_included_term))]
        /\ Handle(n, m, m.term, {SnapshotResponse(n, m.from, m.term)})
        /\ UNCHANGED <<voteVars, leaderVars, applied, panicked, histVars>>

\* The leader resumes after its CURRENT base, whichever snapshot was answered.
handle_install_snapshot_response(n, m) ==
    LET first == first_index(log[n])
        match == [match_index[n] EXCEPT ![m.from] = first]
    IN  /\ Receives(n, m, "InstallSnapshotResponse")
        /\ Current(n, m)
        /\ UNCHANGED <<voteVars, log, panicked, histVars>>
        /\ Handle(n, m, m.term, {})
        /\ IF role[n] = "Leader" /\ m.term = current_term[n]
           THEN /\ match_index' = [match_index EXCEPT ![n] = match]
                /\ next_index' = [next_index EXCEPT ![n][m.from] = first + 1]
                /\ CommitTo(n, log[n], advanced_commit(n, match))
                /\ UNCHANGED <<termVars, disk>>
           ELSE /\ Observe(n, m)
                /\ UNCHANGED <<leaderVars, commit_index, last_applied, applied>>
==============================================================================
