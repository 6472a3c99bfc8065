---------------------------- MODULE ServerCluster ----------------------------
(***************************************************************************)
(* A cluster of raft-server processes and the clients that talk to it: the *)
(* nodes of Simulator without its driver.  A server never compacts its     *)
(* log, takes commands from clients (the ClientRequest branch of           *)
(* RaftNode::step and the one question raft-client asks), fills its peer   *)
(* list as SelfInPeers says, and comes back from a kill with what          *)
(* replay_wal makes of its file.  Of disk only the hard state is the       *)
(* server's: log_entries repeats the log, and no restart reads it.         *)
(*                                                                         *)
(* A kill falls between two events.  One inside an event is that event     *)
(* with its messages lost and a file that lacks what was not yet written;  *)
(* the kill between two writes of the hard state is left to ServerProcess. *)
(***************************************************************************)
EXTENDS Simulator

CONSTANT Padding    \* what may be read, instead of the next entries, in the
                    \* padding of a write and behind it (DurableDisk)

ASSUME PaddingAssumption == Padding \subseteq Seq(LogEntry)

VARIABLES answers,  \* every ClientResponse, with the command it answers
          misread   \* history: a server has not come back with the log it had

clusterVars == <<vars, answers, misread>>

\* index is history: where in its log the leader has put the command.
ClientResponse(n, c, ok, hint, index) ==
    [command |-> c, from |-> n, term |-> current_term[n], success |-> ok,
     leader_hint |-> hint, index |-> index]

\* raft-client asks one node once, prints the answer and ends: a command is
\* asked for once, whether its client is told success or sent elsewhere.
unanswered(c) == \A a \in answers : a.command # c

client_request_accepted(n, c) ==
    /\ unanswered(c) /\ propose_command(n, c)
    /\ answers' = answers \cup {ClientResponse(n, c, TRUE, n, last_index(log[n]) + 1)}
    /\ UNCHANGED misread

client_request_redirected(n, c) ==
    /\ unanswered(c) /\ n \in alive
    /\ role[n] # "Leader"
    /\ answers' = answers \cup {ClientResponse(n, c, FALSE, leader_id[n], 0)}
    /\ UNCHANGED <<vars, misread>>

\* The entries that were written up to some place, and then whatever parses.
replay_wal(entries) ==
    {SubSeq(entries, 1, k) \o p : k \in 0..Len(entries), p \in Padding \cup {<< >>}}

\* main.rs:41, the start of a server on the files of a killed one.
restart_server(n) ==
    /\ n \notin alive /\ alive' = alive \cup {n}
    /\ \E entries \in replay_wal(Tail(log[n])) :
           LET l == restore_log(SnapshotMeta(0, 0), entries)
           IN  /\ restore(n, disk[n].current_term, disk[n].voted_for, l, 0)
               /\ disk' = [disk EXCEPT ![n].log_entries = l]
               /\ misread' = (misread \/ l # log[n])
    /\ UNCHANGED <<in_flight, panicked, histVars, applied, proposed, timeouts,
                   heartbeats, crashes, losses, answers>>

\* The main loop of a server, a kill, and the network.
ServerStep ==
    \/ \E n \in Server : \/ tick_idle(n)
                         \/ tick_election_timeout(n)
                         \/ tick_leader(n)
                         \/ crash_node(n)
    \/ \E m \in in_flight : Deliver(m.to, m) \/ drop_message(m)

ClusterInit == Init /\ answers = {} /\ misread = FALSE

ClusterNext ==
    \/ \E n \in Server, c \in Command : \/ client_request_accepted(n, c)
                                        \/ client_request_redirected(n, c)
    \/ \E n \in Server : restart_server(n)
    \/ ServerStep /\ UNCHANGED <<answers, misread>>

ClusterSpec == ClusterInit /\ [][ClusterNext]_clusterVars

------------------------------------------------------------------------------
\* The log of every leader that nobody has outlived holds the command.
Kept(a) ==
    \A n \in Server :
        (/\ role[n] = "Leader"
         /\ \A p \in Server : current_term[p] <= current_term[n]) =>
            \E k \in 1..Len(log[n]) : log[n][k].command = a.command

\* The properties below about logs speak of servers that have come back with the
\* log they had, if they were killed at all: of what a misread file costs see
\* AcknowledgedSurvives of ServerProcess.

\* Simulator!SafeWhileSupported for raft-servers.
SafeWhileReadBack == ~misread => SafeWhileSupported

\* README.md:45, Simulator!LogMatching for raft-servers.
MatchingWhileReadBack == ~misread => LogMatching

\* raft-client/src/main.rs:57, "TRANSACTION COMMITTED": what a client was told
\* is committed is never lost.
AnsweredIsKept == ~misread => \A a \in answers : a.success => Kept(a)

\* What becomes of an answer that node.rs:173 gives before anything is
\* replicated: from the moment a majority has acknowledged the entry to the
\* leader that gave it, committed or not, no change of leader loses the command.
AnsweredIsKeptOnceHeld ==
    ~misread => \A a \in answers :
        LET holds(p) == \/ p = a.from
                        \/ \E x \in acked : /\ x.node = p /\ x.term = a.term
                                           /\ x.index >= a.index
        IN  a.success /\ Cardinality({p \in Server : holds(p)}) >= majority
            => Kept(a)

\* README.md:38, "automatic leader hinting": a node a client is sent to has
\* been elected in the term of the answer or before it, whatever elections the
\* node that gives the hint has seen, lost or stood in since, and whatever it has
\* read back after a kill.
HintWasElected ==
    \A a \in answers : a.leader_hint # None =>
        \E t \in 1..a.term : <<t, a.leader_hint>> \in term_leaders
==============================================================================
