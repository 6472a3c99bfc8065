----------------------------- MODULE MCSimulator -----------------------------
(***************************************************************************)
(* Instances of Simulator for TLC.  Spec starts from an empty cluster.     *)
(* The other starts are states such a cluster reaches, with every message  *)
(* delivered or lost, except what the leader elected last has on its way:  *)
(*   LedSpec        every node voted for n in term 1;                      *)
(*   OvertakenSpec  every node voted for o in term 1, then, o being cut    *)
(*                  off, all the others for n in term 2, and o still       *)
(*                  believes that it leads;                                *)
(*   ProposedSpec   as LedSpec, and the leader has committed its no-op and  *)
(*                  appended a command;                                    *)
(*   InstalledSpec  a node has just installed a snapshot that begins where *)
(*                  its own log has a conflicting entry;                   *)
(*   OneDownSpec    one node has crashed and stays down.                   *)
(* They leave the interleavings of those elections to the runs of Spec and *)
(* reach deeper into what comes after them.  DiskLoop is extended so that   *)
(* its comparison of StableDisk with the loop of the code is evaluated.    *)
(***************************************************************************)
EXTENDS Simulator, DiskLoop, TLC

ServerSymmetry == Permutations(Server)

\* n was elected in term t by everybody outside cut, the leader of term 1.
Elected(n, t, cut) ==
    LET by(p, new, old, other) == IF p = n THEN new ELSE IF p \in cut THEN old ELSE other
        termOf(p)  == by(p, t, 1, t)
        voteOf(p)  == by(p, n, p, n)
        noop(u)    == Entry(1, u, Noop)
        with(u)    == Append(new_log, noop(u))
        hard(p)    == write_hard_state(new_disk, termOf(p), voteOf(p))
        logged(p)  == append_entries(hard(p), <<noop(termOf(p))>>)
    IN  /\ role = [p \in Server |-> by(p, "Leader", "Leader", "Follower")]
        /\ current_term = [p \in Server |-> termOf(p)]
        /\ voted_for = [p \in Server |-> voteOf(p)]
        /\ log = [p \in Server |-> by(p, with(t), with(1), new_log)]
        /\ votes_received = [p \in Server |-> by(p, Server \ cut, Server, {})]
        /\ pre_votes_received = [p \in Server |-> by(p, Server \ cut, Server, {})]
        /\ leader_id = [p \in Server |-> by(p, p, p, None)]
        /\ disk = [p \in Server |-> by(p, logged(p), logged(p), hard(p))]
        /\ in_flight = broadcast(n, t, with(t), 0, [p \in Server |-> 1])
        /\ term_leaders = {<<t, n>>} \cup {<<1, o>> : o \in cut}
        /\ ballots = [voter : Server \ cut, term : {t}, candidate : {n}]
                        \cup [voter : Server, term : {1}, candidate : cut]

FreshProgress(down) ==
    /\ commit_index = [n \in Server |-> 0]
    /\ last_applied = [n \in Server |-> 0]
    /\ next_index = [n \in Server |-> [p \in Server |-> 1]]
    /\ match_index = [n \in Server |-> [p \in Server |-> 0]]
    /\ lease_fresh = [n \in Server |-> TRUE]
    /\ panicked = FALSE /\ applied = {} /\ acked = {} /\ unsupported = FALSE
    /\ alive = Server \ down /\ proposed = {}
    /\ timeouts = 0 /\ heartbeats = 0 /\ crashes = Cardinality(down) /\ losses = 0

\* Nobody has stood for election yet.
NeverElected ==
    /\ role = [p \in Server |-> "Follower"]
    /\ current_term = [p \in Server |-> 0]
    /\ voted_for = [p \in Server |-> None]
    /\ log = [p \in Server |-> new_log]
    /\ votes_received = [p \in Server |-> {}]
    /\ pre_votes_received = [p \in Server |-> {}]
    /\ leader_id = [p \in Server |-> None]
    /\ disk = [p \in Server |-> new_disk]
    /\ in_flight = {} /\ term_leaders = {} /\ ballots = {}

LedInit == FreshProgress({}) /\ \E n \in Server : Elected(n, 1, {})
OvertakenInit == FreshProgress({}) /\ \E n \in Server : \E o \in Peers(n) : Elected(n, 2, {o})

LedSpec == LedInit /\ [][Next]_vars
LedReplicationSpec == LedSpec /\ FairDelivery
OvertakenSpec == OvertakenInit /\ [][Next]_vars

\* n leads term 1; the answers of some made it commit its no-op, the others have
\* not got it; new is what it has appended since.
Acknowledged(n, some, new) ==
    LET noop == Entry(1, 1, Noop)
        l(p) == new_log \o (IF p = n THEN <<noop>> \o new
                            ELSE IF p \in some THEN <<noop>> ELSE << >>)
    IN  /\ role = [p \in Server |-> IF p = n THEN "Leader" ELSE "Follower"]
        /\ current_term = [p \in Server |-> 1]
        /\ voted_for = [p \in Server |-> n]
        /\ log = [p \in Server |-> l(p)]
        /\ disk = [p \in Server |-> append_entries(write_hard_state(new_disk, 1, n), Tail(l(p)))]
        /\ votes_received = [p \in Server |-> IF p = n THEN Server ELSE {}]
        /\ pre_votes_received = votes_received
        /\ leader_id = [p \in Server |-> IF p \in some \cup {n} THEN n ELSE None]
        /\ commit_index = [p \in Server |-> IF p = n THEN 1 ELSE 0]
        /\ last_applied = commit_index /\ applied = {noop}
        /\ next_index = [p \in Server |-> [r \in Server |-> IF p = n /\ r \in some THEN 2 ELSE 1]]
        /\ match_index = [p \in Server |-> [r \in Server |-> IF p = n /\ r \in some THEN 1 ELSE 0]]
        /\ lease_fresh = [p \in Server |-> TRUE]
        /\ term_leaders = {<<1, n>>}
        /\ ballots = [voter : Server, term : {1}, candidate : {n}]
        /\ acked = [node : some, term : {1}, index : {1}]
        /\ panicked = FALSE /\ unsupported = FALSE
        /\ alive = Server /\ proposed = {new[k].command : k \in DOMAIN new}
        /\ timeouts = 0 /\ heartbeats = 0 /\ crashes = 0 /\ losses = 0

\* A command has been appended and is on its way, to q alone and to the others
\* with the no-op.
ProposedInit ==
    \E n \in Server, c \in Command : \E q \in Peers(n) :
        /\ Acknowledged(n, {q}, <<Entry(2, 1, c)>>)
        /\ in_flight = broadcast(n, 1, log[n], 1, next_index[n])

ProposedSpec == ProposedInit /\ [][Next]_vars

\* Five nodes.  "sender" led term 1, appended c, committed it too early (with the
\* no-op acknowledged only) and compacted; "keeper" alone received c.
\* "forgetful" led term 2, appended d, and "copy" alone received that.  "sender"
\* leads term 3 by the votes of "keeper" and "voter", and "forgetful" has just
\* installed its snapshot.  Everything else was lost.
InstalledInit ==
    \E c, d \in Command : \E who \in [Server -> {"sender", "keeper", "forgetful", "copy", "voter"}] :
        LET is(p, S)  == who[p] \in S
            the(r)    == CHOOSE p \in Server : who[p] = r
            base      == SnapshotMeta(2, 1)
            start     == Append(new_log, Entry(1, 1, Noop))
            kept      == [sender    |-> <<sentinel(2, 1), Entry(3, 3, Noop)>>,
                          keeper    |-> Append(start, Entry(2, 1, c)),
                          forgetful |-> <<sentinel(2, 1), Entry(3, 2, d)>>,
                          copy      |-> start \o <<Entry(2, 2, Noop), Entry(3, 2, d)>>,
                          voter     |-> start]
            by3(p)    == is(p, {"sender", "keeper", "voter"})
            elected   == [sender    |-> {p \in Server : by3(p)},
                          forgetful |-> {p \in Server : is(p, {"forgetful", "copy", "voter"})},
                          keeper    |-> {}, copy |-> {}, voter |-> {}]
            from(p)   == IF is(p, {"sender"}) THEN 3 ELSE IF is(p, {"forgetful"}) THEN 2 ELSE 1
            ballot(t, p, r) == [voter |-> p, term |-> t, candidate |-> the(r)]
        IN  /\ c # d /\ \A p, q \in Server : who[p] = who[q] => p = q
            /\ role = [p \in Server |-> IF is(p, {"sender"}) THEN "Leader" ELSE "Follower"]
            /\ current_term = [p \in Server |-> 3]
            /\ voted_for = [p \in Server |-> IF by3(p) THEN the("sender") ELSE None]
            /\ log = [p \in Server |-> IF is(p, {"forgetful"}) THEN <<sentinel(2, 1)>> ELSE kept[who[p]]]
            /\ disk = [p \in Server |->
                          [new_disk EXCEPT !.current_term = 3, !.voted_for = voted_for[p],
                              !.log_entries = kept[who[p]],
                              !.snapshot = IF is(p, {"sender", "forgetful"}) THEN base ELSE None]]
            /\ votes_received = [p \in Server |-> elected[who[p]]]
            /\ pre_votes_received = votes_received
            /\ leader_id = [p \in Server |-> IF is(p, {"sender", "forgetful"}) THEN the("sender") ELSE None]
            /\ commit_index = [p \in Server |-> IF is(p, {"sender", "forgetful"}) THEN 2 ELSE 0]
            /\ last_applied = commit_index /\ applied = {Entry(1, 1, Noop), Entry(2, 1, c)}
            /\ next_index = [p \in Server |-> [r \in Server |->
                                IF is(p, {"sender"}) /\ is(r, {"forgetful"}) THEN 2 ELSE from(p)]]
            /\ match_index = [p \in Server |-> [r \in Server |-> 0]]
            /\ lease_fresh = [p \in Server |-> TRUE]
            /\ in_flight = {} /\ panicked = FALSE /\ unsupported = TRUE
            /\ term_leaders = {<<1, the("sender")>>, <<2, the("forgetful")>>, <<3, the("sender")>>}
            /\ ballots = {ballot(t, p, "sender") : t \in {1, 3}, p \in elected.sender}
                            \cup {ballot(2, p, "forgetful") : p \in elected.forgetful}
            /\ acked = {[node |-> p, term |-> 1, index |-> 1] : p \in Server \ {the("sender")}}
                          \cup {[node |-> the("keeper"), term |-> 1, index |-> 2],
                                [node |-> the("copy"), term |-> 2, index |-> 3]}
            /\ alive = Server /\ proposed = {c, d}
            /\ timeouts = 0 /\ heartbeats = 0 /\ crashes = 0 /\ losses = 0

InstalledSpec == InstalledInit /\ [][Next]_vars

OneDownInit == NeverElected /\ \E n \in Server : FreshProgress({n})
OneDownSpec == /\ OneDownInit /\ [][Next /\ UNCHANGED alive]_vars
               /\ FairDelivery /\ FairTimeouts
==============================================================================
