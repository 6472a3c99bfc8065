----------------------------- MODULE LeaderLease -----------------------------
(***************************************************************************)
(* The timers of raft-core/src/node.rs, tick by tick, which RaftNode       *)
(* abstracts from: election_elapsed against the drawn election_timeout and *)
(* against election_timeout_base (the lease that makes a node refuse its   *)
(* vote), heartbeat_elapsed, and the delays of SimNetwork.  Three nodes: a *)
(* leader, a follower that hears it, and a stray node cut off from both    *)
(* for as long as it likes.  Nothing is proposed, so all logs are equal    *)
(* and log_ok always holds: the case in which the stray node is strongest. *)
(***************************************************************************)
EXTENDS Integers, FiniteSets

CONSTANTS None,
          election_timeout_base, heartbeat_interval,   \* Config, in ticks
          max_delay_ticks,                             \* SimNetwork
          LossesInARow,   \* heartbeats to the follower lost one after the other
          MaxCopies,      \* bound on the messages the network duplicates
          MaxTerm         \* bound: no election is started above this term

\* The assert! of RaftNode::new.
ASSUME TimerAssumption ==
    /\ election_timeout_base \in Nat /\ heartbeat_interval \in Nat \ {0}
    /\ heartbeat_interval < election_timeout_base
    /\ max_delay_ticks \in Nat /\ LossesInARow \in Nat
    /\ MaxCopies \in Nat /\ MaxTerm \in Nat

Node  == {"leader", "follower", "stray"}
ASSUME NoneAssumption == None \notin Node

Waits == 1..(IF max_delay_ticks = 0 THEN 1 ELSE max_delay_ticks)
RoundTrip == 2 * Cardinality(Waits)

VARIABLES node,        \* the timers, role, term, vote and leader_id of each node
          in_flight,   \* messages, and the steps until drain_due returns them
          to_tick,     \* nodes still to be ticked in this step
          row,         \* heartbeats to the follower lost in a row
          copies,      \* messages duplicated so far
          healed       \* the stray node's links work from now on

vars == <<node, in_flight, to_tick, row, copies, healed>>

State(role, term, voted_for, leader_id, elapsed) ==
    [role |-> role, term |-> term, voted_for |-> voted_for, leader_id |-> leader_id,
     election_elapsed |-> elapsed, heartbeat_elapsed |-> 0, votes |-> {}]

\* The leader has won term 1 with the follower's vote, and the follower has
\* heard from it; what was sent before that is gone.  A vote request and its
\* answer together take from 2 to RoundTrip steps, and election_elapsed is what
\* that has left it at: become_leader does not reset it.  The two extremes do.
Init ==
    /\ \E e \in {2, RoundTrip} :
       \E stray \in {State("Follower", 1, "leader", None, 0),
                     State("Follower", 0, None, None, 0)} :
           node = [leader   |-> State("Leader", 1, "leader", "leader", e),
                   follower |-> State("Follower", 1, "leader", "leader", 0),
                   stray    |-> stray]
    /\ in_flight = {} /\ to_tick = Node /\ row = 0 /\ copies = 0
    /\ healed = FALSE
------------------------------------------------------------------------------
Message(kind, from, to, term, granted) ==
    [kind |-> kind, from |-> from, to |-> to, term |-> term, granted |-> granted]

ToPeers(kind, n, term) == {Message(kind, n, p, term, FALSE) : p \in Node \ {n}}

\* SimNetwork::send: every message waits for some delay or is lost, and a copy
\* may follow one to three ticks behind it.  The step that sends a message has
\* drained already, so that it waits for one step at least.
Heartbeat(m) == m.kind = "AppendEntries" /\ m.from = "leader" /\ m.to = "follower"

MayLose(m) == \/ "stray" \in {m.from, m.to} /\ ~healed
              \/ Heartbeat(m) /\ row < LossesInARow

Send(rest, out) ==
    \E wait \in [out -> {0} \cup Waits] : \E twice \in SUBSET {m \in out : wait[m] # 0} :
    \E behind \in [twice -> 1..3] :
        /\ \A m \in out : wait[m] = 0 => MayLose(m)
        /\ copies' = copies + Cardinality(twice) /\ copies' <= MaxCopies
        /\ in_flight' = rest \cup {[wait |-> wait[m], msg |-> m] :
                                      m \in {o \in out : wait[o] # 0}}
                            \cup {[wait |-> wait[m] + behind[m], msg |-> m] : m \in twice}
        /\ row' = IF \E m \in out : Heartbeat(m) /\ wait[m] = 0 THEN row + 1
                  ELSE IF \E m \in out : Heartbeat(m) THEN 0 ELSE row

become_follower(s, term, leader) ==
    [s EXCEPT !.role = "Follower", !.term = term, !.leader_id = leader,
              !.election_elapsed = 0,
              !.voted_for = IF term > s.term THEN None ELSE @]

\* Mutant: the leader that is known is no reason to refuse.
leader_lease_never(s) == FALSE

leader_lease_active(s) ==
    s.leader_id # None /\ s.election_elapsed < election_timeout_base

majority == Cardinality(Node) \div 2 + 1

start_pre_vote(n, s) ==
    [state |-> [s EXCEPT !.role = "PreCandidate", !.votes = {n},
                         !.election_elapsed = 0],
     out   |-> ToPeers("PreVote", n, s.term + 1)]

start_real_election(n, s) ==
    [state |-> [s EXCEPT !.role = "Candidate", !.term = s.term + 1,
                         !.voted_for = n, !.votes = {n}, !.election_elapsed = 0],
     out   |-> ToPeers("RequestVote", n, s.term + 1)]

become_leader(n, s) ==
    [state |-> [s EXCEPT !.role = "Leader", !.leader_id = n, !.heartbeat_elapsed = 0],
     out   |-> ToPeers("AppendEntries", n, s.term)]

\* A granted vote of the round that is on; the round is won with a majority.
counted(n, s, m) ==
    LET pre   == m.kind = "PreVoteResponse"
        votes == s.votes \cup {m.from}
        t     == [s EXCEPT !.votes = votes]
    IN  IF \/ s.role # (IF pre THEN "PreCandidate" ELSE "Candidate")
           \/ m.term # s.term \/ ~m.granted
        THEN [state |-> s, out |-> {}]
        ELSE IF Cardinality(votes) < majority THEN [state |-> t, out |-> {}]
        ELSE IF pre THEN start_real_election(n, t) ELSE become_leader(n, t)

pre_vote(n, s, m) ==
    [state |-> s,
     out   |-> {Message("PreVoteResponse", n, m.from, s.term,
                        m.term >= s.term /\ ~leader_lease_active(s))}]

request_vote(n, s, m) ==
    LET grant == s.voted_for \in {None, m.from} /\ ~leader_lease_active(s)
    IN  [state |-> IF grant THEN [s EXCEPT !.voted_for = m.from,
                                           !.election_elapsed = 0] ELSE s,
         out   |-> {Message("RequestVoteResponse", n, m.from, s.term, grant)}]

\* Mutant: a node that asks for pre-votes goes on asking.
append_entries_when_following(s, m) ==
    [state |-> IF s.role = "PreCandidate" THEN s ELSE become_follower(s, m.term, m.from),
     out |-> {}]

\* Its answer touches no timer and carries no newer term: it is left out.
append_entries(s, m) ==
    [state |-> become_follower(s, m.term, m.from), out |-> {}]

\* RaftNode::step
step(n, m) ==
    LET vote == m.kind \in {"PreVote", "PreVoteResponse"}
        s    == IF m.term > node[n].term /\ ~vote
                THEN become_follower(node[n], m.term, None) ELSE node[n]
    IN  IF m.term < s.term /\ ~vote THEN [state |-> s, out |-> {}]
        ELSE CASE m.kind = "PreVote" -> pre_vote(n, s, m)
               [] m.kind = "RequestVote" -> request_vote(n, s, m)
               [] m.kind \in {"PreVoteResponse", "RequestVoteResponse"} ->
                      counted(n, s, m)
               [] m.kind = "AppendEntries" -> append_entries(s, m)
------------------------------------------------------------------------------
(* Simulator::step: what is due is delivered, then every node is ticked.    *)

Due == {f \in in_flight : f.wait = 0}

deliver(f) ==
    LET r == step(f.msg.to, f.msg)
    IN  /\ f \in Due
        /\ node' = [node EXCEPT ![f.msg.to] = r.state]
        /\ Send(in_flight \ {f}, r.out)
        /\ UNCHANGED <<to_tick, healed>>

tick_leader(n) ==
    LET s    == node[n]
        beat == s.heartbeat_elapsed + 1 >= heartbeat_interval
    IN  /\ Due = {} /\ n \in to_tick /\ s.role = "Leader"
        /\ node' = [node EXCEPT ![n].heartbeat_elapsed = IF beat THEN 0 ELSE @ + 1]
        /\ Send(in_flight, IF beat THEN ToPeers("AppendEntries", n, s.term) ELSE {})
        /\ to_tick' = to_tick \ {n}
        /\ UNCHANGED healed

\* Mutant: drawn from base-1..2*base-1.
may_fire_early(e) == e >= election_timeout_base - 1

\* The election_timeout was drawn from base..2*base-1.  Which value it is need
\* not be known before election_elapsed gets there.
may_fire(e) == e >= election_timeout_base

must_fire(e) == e = 2 * election_timeout_base - 1

tick_waits(n) ==
    LET e == node[n].election_elapsed + 1
    IN  /\ Due = {} /\ n \in to_tick /\ node[n].role # "Leader"
        /\ ~must_fire(e)
        /\ node' = [node EXCEPT ![n].election_elapsed = e]
        /\ to_tick' = to_tick \ {n}
        /\ UNCHANGED <<in_flight, row, copies, healed>>

tick_fires(n) ==
    LET r == start_pre_vote(n, node[n])
    IN  /\ Due = {} /\ n \in to_tick /\ node[n].role # "Leader"
        /\ may_fire(node[n].election_elapsed + 1)
        /\ node[n].term < MaxTerm
        /\ node' = [node EXCEPT ![n] = r.state]
        /\ Send(in_flight, r.out)
        /\ to_tick' = to_tick \ {n}
        /\ UNCHANGED healed

next_step ==
    /\ Due = {} /\ to_tick = {}
    /\ in_flight' = {[f EXCEPT !.wait = @ - 1] : f \in in_flight}
    /\ to_tick' = Node
    /\ UNCHANGED <<node, row, copies, healed>>

heal ==
    /\ ~healed /\ healed' = TRUE
    /\ UNCHANGED <<node, in_flight, to_tick, row, copies>>

Next ==
    \/ \E f \in in_flight : deliver(f)
    \/ \E n \in Node : tick_leader(n) \/ tick_waits(n) \/ tick_fires(n)
    \/ next_step \/ heal

Spec == Init /\ [][Next]_vars

\* The simulator's loop goes on.
FairSpec == Spec /\ WF_vars(Next)
------------------------------------------------------------------------------
\* README.md:37, "Pre-Vote Protocol preventing disruptive partitioned servers":
\* a leader whose heartbeats reach a majority in time stays leader of its term,
\* whatever the stray node does and whenever its links work.
LeaderUndisturbed == node["leader"].role = "Leader" /\ node["leader"].term = 1

\* The heartbeats keep the follower from an election of its own, with
\* LossesInARow of them lost one after the other and all delays at their worst.
FollowerStays == node["follower"].role = "Follower" /\ node["follower"].term = 1

\* Once its links work the stray node ends up following the leader again,
\* although both others refuse its votes: the round it has started is given up.
StrayRejoins ==
    (<>healed) => <>[](/\ node["stray"].role = "Follower"
                       /\ node["stray"].leader_id = "leader")
==============================================================================
