------------------------------ MODULE Simulator ------------------------------
(***************************************************************************)
(* raft-sim: a cluster of raft-core nodes on simulated disks and a         *)
(* simulated network (simulator.rs, network.rs), with the safety checks of *)
(* invariants.rs and the stronger ones a reviewer of Raft would ask for.   *)
(***************************************************************************)
EXTENDS RaftNode

CONSTANTS CompactAbove,   \* compaction runs on logs longer than this (15 in the code)
          MaxCrashes,     \* bound on the crashes of a behaviour
          MaxLosses,      \* bound on the messages the network drops
          MaxTimeouts,    \* bound on the election timeouts, None for no bound
          MaxHeartbeats   \* bound on the heartbeat ticks, None for no bound

ASSUME SimulatorAssumption ==
    /\ CompactAbove \in Nat /\ MaxCrashes \in Nat /\ MaxLosses \in Nat
    /\ MaxTimeouts \in Nat \cup {None} /\ MaxHeartbeats \in Nat \cup {None}

VARIABLES alive,      \* keys of Simulator::nodes
          proposed,   \* commands the clients have submitted
          timeouts, heartbeats, crashes, losses

simVars == <<alive, proposed, timeouts, heartbeats, crashes, losses>>
vars == <<nodeVars, simVars>>

Init ==
    /\ role = [n \in Server |-> "Follower"]
    /\ current_term = [n \in Server |-> 0]
    /\ voted_for = [n \in Server |-> None]
    /\ log = [n \in Server |-> new_log]
    /\ commit_index = [n \in Server |-> 0]
    /\ last_applied = [n \in Server |-> 0]
    /\ next_index = [n \in Server |-> [p \in Server |-> 1]]
    /\ match_index = [n \in Server |-> [p \in Server |-> 0]]
    /\ votes_received = [n \in Server |-> {}]
    /\ pre_votes_received = [n \in Server |-> {}]
    /\ leader_id = [n \in Server |-> None]
    /\ lease_fresh = [n \in Server |-> TRUE]
    /\ disk = [n \in Server |-> new_disk]
    /\ in_flight = {} /\ panicked = FALSE
    /\ term_leaders = {} /\ ballots = {} /\ applied = {}
    /\ acked = {} /\ unsupported = FALSE
    /\ alive = Server /\ proposed = {}
    /\ timeouts = 0 /\ heartbeats = 0 /\ crashes = 0 /\ losses = 0

------------------------------------------------------------------------------
\* A counter is only kept while it is bounded.
Within(used, bound) == IF bound = None THEN TRUE ELSE used < bound
Spend(used, bound) == IF bound = None THEN used ELSE used + 1

\* With the bound on timeouts spent and no vote request in flight, the lease
\* is never looked at again: its lapse would only multiply equivalent states.
LeaseMatters == \/ Within(timeouts, MaxTimeouts)
                \/ \E m \in in_flight : m.kind \in {"PreVote", "RequestVote"}

tick_idle(n) ==
    /\ n \in alive /\ LeaseMatters
    /\ tick_lease_lapses(n)
    /\ UNCHANGED simVars

tick_election_timeout(n) ==
    /\ n \in alive /\ Within(timeouts, MaxTimeouts)
    /\ start_pre_vote(n)
    /\ timeouts' = Spend(timeouts, MaxTimeouts)
    /\ UNCHANGED <<alive, proposed, heartbeats, crashes, losses>>

tick_leader(n) ==
    /\ n \in alive /\ Within(heartbeats, MaxHeartbeats)
    /\ tick_heartbeat(n)
    /\ heartbeats' = Spend(heartbeats, MaxHeartbeats)
    /\ UNCHANGED <<alive, proposed, timeouts, crashes, losses>>

Deliver(n, m) ==
    /\ n \in alive
    /\ \/ handle_pre_vote(n, m)
       \/ handle_pre_vote_response(n, m)
       \/ handle_request_vote(n, m)
       \/ handle_request_vote_response(n, m)
       \/ handle_append_entries_missing(n, m)
       \/ handle_append_entries_conflict(n, m)
       \/ handle_append_entries_accept(n, m)
       \/ handle_append_entries_response(n, m)
       \/ handle_install_snapshot(n, m)
       \/ handle_install_snapshot_response(n, m)
    /\ UNCHANGED simVars

\* propose_command picks whichever node believes it leads.
propose_command(n, c) ==
    /\ n \in alive /\ c \notin proposed
    /\ propose(n, c)
    /\ proposed' = proposed \cup {c}
    /\ UNCHANGED <<alive, timeouts, heartbeats, crashes, losses>>

\* The compaction pass at the end of Simulator::step.
compaction_pass(n) ==
    /\ n \in alive
    /\ Len(log[n]) - 1 > CompactAbove
    /\ LET t == term_at(log[n], commit_index[n])
       IN  compact_logs(n, commit_index[n], IF t = None THEN 0 ELSE t)
    /\ UNCHANGED simVars

crash_node(n) ==
    /\ n \in alive /\ crashes < MaxCrashes
    /\ alive' = alive \ {n} /\ crashes' = crashes + 1
    /\ UNCHANGED <<nodeVars, proposed, timeouts, heartbeats, losses>>

\* RaftNode::restore: what is passed to it survives, everything else starts
\* afresh.
restore(n, t, v, l, base) ==
    /\ role' = [role EXCEPT ![n] = "Follower"]
    /\ current_term' = [current_term EXCEPT ![n] = t]
    /\ voted_for' = [voted_for EXCEPT ![n] = v]
    /\ log' = [log EXCEPT ![n] = l]
    /\ commit_index' = [commit_index EXCEPT ![n] = base]
    /\ last_applied' = [last_applied EXCEPT ![n] = base]
    /\ next_index' = [next_index EXCEPT ![n] = [p \in Server |-> 1]]
    /\ match_index' = [match_index EXCEPT ![n] = [p \in Server |-> 0]]
    /\ votes_received' = [votes_received EXCEPT ![n] = {}]
    /\ pre_votes_received' = [pre_votes_received EXCEPT ![n] = {}]
    /\ leader_id' = [leader_id EXCEPT ![n] = None]
    /\ lease_fresh' = [lease_fresh EXCEPT ![n] = TRUE]

\* Term, vote, snapshot base and entries are read back from the disk.
spawn_node(n) ==
    LET d    == disk[n]
        meta == IF d.snapshot = None THEN SnapshotMeta(0, 0) ELSE d.snapshot
    IN  /\ n \notin alive
        /\ alive' = alive \cup {n}
        /\ restore(n, d.current_term, d.voted_for,
                   restore_log(meta, Tail(d.log_entries)), meta.last_included_index)
        /\ UNCHANGED <<disk, in_flight, panicked, histVars, applied, proposed,
                       timeouts, heartbeats, crashes, losses>>

\* SimNetwork::send drops a message (drop_rate, a partition), and a message
\* for a node that is down is lost on delivery.  Safety does not need this
\* step, a message may stay in flight for ever; liveness does.
drop_message(m) ==
    /\ losses < MaxLosses /\ m \in in_flight
    /\ in_flight' = in_flight \ {m} /\ losses' = losses + 1
    /\ UNCHANGED <<termVars, voteVars, leaderVars, logVars, disk, panicked,
                   histVars, alive, proposed, timeouts, heartbeats, crashes>>

Next ==
    \/ \E n \in Server : \/ tick_idle(n)
                         \/ tick_election_timeout(n)
                         \/ tick_leader(n)
                         \/ \E c \in Command : propose_command(n, c)
                         \/ compaction_pass(n)
                         \/ crash_node(n)
                         \/ spawn_node(n)
    \/ \E m \in in_flight : Deliver(m.to, m) \/ drop_message(m)

Spec == Init /\ [][Next]_vars

(* Fairness.  Simulator::step ticks every node that is alive and delivers    *)
(* every message that is due, for ever.  A leader therefore keeps sending    *)
(* heartbeats, and a message that is not lost is delivered after at most     *)
(* max_delay_ticks ticks (three more for a duplicate): fairness is per link, *)
(* kind and term.  While no leader is heard of, every timer keeps running    *)
(* out.                                                                      *)
Kinds == {"PreVote", "PreVoteResponse", "RequestVote", "RequestVoteResponse",
          "AppendEntries", "AppendEntriesResponse", "InstallSnapshot",
          "InstallSnapshotResponse"}

DeliverOn(p, n, k, t) ==
    \E m \in in_flight : /\ m.from = p /\ m.to = n /\ m.kind = k /\ m.term = t
                         /\ Deliver(n, m)

FairDelivery ==
    /\ \A n \in Server : WF_vars(tick_leader(n))
    /\ \A n \in Server : \A p \in Peers(n) : \A k \in Kinds : \A t \in 0..MaxTerm :
           WF_vars(DeliverOn(p, n, k, t))

FairTimeouts == \A n \in Server : WF_vars(tick_election_timeout(n))

ReplicationSpec == Spec /\ FairDelivery
ElectionSpec == Spec /\ FairDelivery /\ FairTimeouts

------------------------------------------------------------------------------
(* Safety                                                                   *)

\* Every variable keeps its type: logs are never empty (last_index and the
\* base are always defined), and indices and terms never leave the naturals.
TypeOK ==
    /\ role \in [Server -> {"Follower", "PreCandidate", "Candidate", "Leader"}]
    /\ current_term \in [Server -> Nat] /\ voted_for \in [Server -> OptServer]
    /\ log \in [Server -> Log]
    /\ commit_index \in [Server -> Nat] /\ last_applied \in [Server -> Nat]
    /\ next_index \in [Server -> [Server -> Nat]]
    /\ match_index \in [Server -> [Server -> Nat]]
    /\ votes_received \in [Server -> SUBSET Server]
    /\ pre_votes_received \in [Server -> SUBSET Server]
    /\ leader_id \in [Server -> OptServer] /\ lease_fresh \in [Server -> BOOLEAN]
    /\ disk \in [Server -> Disk]
    /\ in_flight \in SUBSET Message /\ panicked \in BOOLEAN
    /\ term_leaders \in SUBSET (Nat \X Server)
    /\ ballots \in SUBSET [voter : Server, term : Nat, candidate : Server]
    /\ applied \in SUBSET LogEntry
    /\ acked \in SUBSET [node : Server, term : Nat, index : Nat]
    /\ unsupported \in BOOLEAN
    /\ alive \in SUBSET Server /\ proposed \in SUBSET Command
    /\ timeouts \in Nat /\ heartbeats \in Nat /\ crashes \in Nat /\ losses \in Nat

\* README.md:44 and check_election_safety: at most one leader per term, over
\* the whole history and across crashes and restarts of voters.
ElectionSafety ==
    \A a, b \in term_leaders : a[1] = b[1] => a[2] = b[2]

\* Persisted votes: no step, a crash and restart included, takes a node back
\* to an older term or lets it change or forget the vote of its term.
VotesAreFinal ==
    [][\A n \in Server :
          /\ current_term'[n] >= current_term[n]
          /\ current_term'[n] = current_term[n] /\ voted_for[n] # None
                => voted_for'[n] = voted_for[n]]_vars

\* No assert! of log.rs or storage.rs and no panic! of storage.rs fires: the
\* log in memory and the disk it is mirrored on never drift apart so far that
\* a write lands outside the disk or at the snapshot base.
NoPanic == ~panicked

\* What spawn_node would rebuild from the disk of n.
restored(n) ==
    LET d == disk[n]
    IN  restore_log(IF d.snapshot = None THEN SnapshotMeta(0, 0) ELSE d.snapshot,
                    Tail(d.log_entries))

\* Everything a live node holds in memory survives its next crash: its log is
\* a prefix of what a restart would read back, which has no gap (log.rs:10).
LogIsDurable ==
    \A n \in alive : /\ Contiguous(restored(n))
                     /\ Len(log[n]) <= Len(restored(n))
                     /\ log[n] = SubSeq(restored(n), 1, Len(log[n]))

\* README.md:45, check_log_matching, in full: when two logs hold an entry of
\* the same index and term, they agree on every entry before it that both
\* still retain, commands included.
LogMatching ==
    \A n, p \in Server :
        LET base == Max2(first_index(log[n]), first_index(log[p]))
            at(q, i) == log[q][i - first_index(log[q]) + 1]
        IN  \A i \in base+1 .. Min2(last_index(log[n]), last_index(log[p])) :
                at(n, i).term = at(p, i).term =>
                    \A j \in base+1 .. i : at(n, j) = at(p, j)

\* README.md:46, "Leader Append-Only": while a node leads a term, it neither
\* overwrites nor drops an entry of its log, compaction aside.
LeaderAppendOnly ==
    [][\A n \in Server :
          (/\ role[n] = "Leader" /\ role'[n] = "Leader"
           /\ current_term'[n] = current_term[n]) =>
              EntriesAfter(log[n], first_index(log'[n]))
                  \subseteq EntriesAfter(log'[n], first_index(log'[n]))]_vars

\* README.md:47, check_state_machine_safety: no two state machines ever apply
\* different entries at the same index.
StateMachineSafety ==
    \A a, b \in applied : a.index = b.index => a = b

\* A leader no other node has outlived holds every entry that was ever
\* applied, or has compacted it into its snapshot.
LeaderCompleteness ==
    \A n \in Server :
        (/\ role[n] = "Leader"
         /\ \A p \in Server : current_term[p] <= current_term[n]) =>
            \A e \in applied : \/ e.index <= first_index(log[n])
                               \/ e \in EntriesAfter(log[n], 0)

\* As long as every commit of a leader was covered by what a majority really
\* acknowledged, the two properties above hold: true as long as no node installs
\* a snapshot, which makes it forget what it has acknowledged (node.rs:659).
SafeWhileSupported ==
    ~unsupported => StateMachineSafety /\ LeaderCompleteness

------------------------------------------------------------------------------
(* Liveness                                                                 *)

\* log_replication_happy_path (node.rs:975): what a leader has in its log
\* reaches every node, unless it stops leading or somebody outruns its term.
ReplicationCompletes ==
    \A n \in Server :
        role[n] = "Leader" ~>
            \/ role[n] # "Leader"
            \/ \E p \in Server : current_term[p] > current_term[n]
            \/ \A p \in Server : commit_index[p] >= last_index(log[n])

\* README.md:33 and :37: a node that has fallen behind, or run ahead of the
\* leader's term, is brought back.  A behaviour that reaches the bound on terms
\* is not judged.
LaggardsCatchUp ==
    \A n \in Server :
        role[n] = "Leader" ~>
            \/ role[n] # "Leader"
            \/ \E p \in Server : current_term[p] = MaxTerm
            \/ \A p \in Server : commit_index[p] >= last_index(log[n])

\* three_nodes_elect_one_leader (node.rs:892): elections never come to a
\* standstill.  A leader is elected, or terms keep growing up to the bound.
ElectionsProgress ==
    <>(\E n \in Server : role[n] = "Leader" \/ current_term[n] = MaxTerm)
==============================================================================
