----------------------------- MODULE LeaseProofs -----------------------------
(***************************************************************************)
(* The leader lease of LeaderLease, for all timers, delays and runs of     *)
(* lost heartbeats that leave enough margin.                               *)
(***************************************************************************)
EXTENDS LeaderLease, FiniteSetTheorems, TLAPS

\* What the configuration has to provide.  A follower hears nothing for
\* LossesInARow + 1 intervals and the longest delay, less the tick in which the
\* heartbeat arrives; the round trip of an election leaves the leader a lease.
Margins ==
    /\ (LossesInARow + 1) * heartbeat_interval + Cardinality(Waits) <= election_timeout_base
    /\ RoundTrip < election_timeout_base

\* The longest delay, of which there is one even if max_delay_ticks is 0.
MaxWait == IF max_delay_ticks = 0 THEN 1 ELSE max_delay_ticks

------------------------------------------------------------------------------
(* The inductive invariant.                                                 *)

NodeState ==
    [role : {"Leader", "Follower", "PreCandidate"}, term : Nat,
     voted_for : Node \cup {None}, leader_id : Node \cup {None},
     election_elapsed : Nat, heartbeat_elapsed : Nat, votes : SUBSET Node]

\* The leader leads, and its lease never lapses.
Leads(s) ==
    /\ s.role = "Leader" /\ s.term = 1 /\ s.leader_id = "leader"
    /\ s.election_elapsed < election_timeout_base
    /\ s.heartbeat_elapsed < heartbeat_interval

\* The follower follows it.
Hears(s) == s.role = "Follower" /\ s.term = 1 /\ s.leader_id = "leader"

\* The stray node asks for pre-votes at most.
Strays(s) == s.role \in {"Follower", "PreCandidate"} /\ s.term \in {0, 1}

Roles ==
    /\ node \in [Node -> NodeState]
    /\ Leads(node["leader"]) /\ Hears(node["follower"]) /\ Strays(node["stray"])

\* Heartbeats of the leader, pre-votes of the stray node, and refusals.
Expected(m) ==
    \/ m \in ToPeers("AppendEntries", "leader", 1)
    \/ \E t \in {1, 2} : m \in ToPeers("PreVote", "stray", t)
    \/ \E p \in {"leader", "follower"} : m = Message("PreVoteResponse", p, "stray", 1, FALSE)

AllExpected(flights) ==
    \A f \in flights : /\ f = [wait |-> f.wait, msg |-> f.msg]
                       /\ f.wait \in Nat /\ Expected(f.msg)

\* Delivery comes before the ticks of a step.
DeliveredFirst == to_tick \subseteq Node /\ (Due # {} => to_tick = Node)

\* 1 for a node whose tick of this step is still to come.
Pending(n) == IF n \in to_tick THEN 1 ELSE 0

\* The ticks the follower has spent without a heartbeat, with that of this step.
Silence == node["follower"].election_elapsed + Pending("follower")

\* From one heartbeat that arrives to the next that does.
Longest == (LossesInARow + 1) * heartbeat_interval

\* A heartbeat is on its way and comes in time,
HelpIsComing ==
    \E f \in in_flight : Heartbeat(f.msg) /\ Silence + f.wait <= Longest + MaxWait

\* or the follower has not been silent for longer than the leader's timers show.
HeardLately ==
    Silence <= row * heartbeat_interval + node["leader"].heartbeat_elapsed + Pending("leader")

\* The inductive invariant.
LeaseInv ==
    /\ Roles /\ AllExpected(in_flight) /\ DeliveredFirst
    /\ row \in 0..LossesInARow
    /\ HelpIsComing \/ HeardLately

------------------------------------------------------------------------------
(* Numbers.                                                                 *)

\* The delays are 1 to MaxWait.
LEMMA WaitsAre ==
    /\ MaxWait \in Nat \ {0} /\ Waits = 1..MaxWait
    /\ Cardinality(Waits) = MaxWait /\ RoundTrip = 2 * MaxWait
<1>1. MaxWait \in Nat \ {0}
    BY TimerAssumption DEF MaxWait
<1>2. Waits = 1..MaxWait
    BY DEF Waits, MaxWait
<1>3. Cardinality(1..MaxWait) = MaxWait
    BY <1>1, FS_Interval
<1> QED BY <1>1, <1>2, <1>3 DEF RoundTrip

\* Rounds of heartbeats add up.
LEMMA Rounds ==
    /\ Longest \in Nat /\ heartbeat_interval \in Nat
    /\ \A r \in 0..LossesInARow :
          /\ r * heartbeat_interval \in Nat
          /\ (r + 1) * heartbeat_interval = r * heartbeat_interval + heartbeat_interval
          /\ r * heartbeat_interval + heartbeat_interval <= Longest
<1>1. ASSUME NEW r \in Nat, NEW h \in Nat
      PROVE  r * h \in Nat /\ (r + 1) * h = r * h + h
    OBVIOUS
<1>2. ASSUME NEW r \in Nat, NEW k \in Nat, r <= k, NEW h \in Nat
      PROVE  (r + 1) * h <= (k + 1) * h
  <2>1. PICK d \in Nat : k = r + d
      BY <1>2
  <2>2. (k + 1) * h = (r + 1) * h + d * h
      BY <2>1
  <2>3. d * h \in Nat /\ (r + 1) * h \in Nat
      BY <1>1
  <2> QED BY <2>2, <2>3
<1>3. LossesInARow \in Nat /\ heartbeat_interval \in Nat
    BY TimerAssumption
<1>4. Longest \in Nat
    BY <1>1, <1>3 DEF Longest
<1>5. ASSUME NEW r \in 0..LossesInARow
      PROVE  /\ r * heartbeat_interval \in Nat
             /\ (r + 1) * heartbeat_interval = r * heartbeat_interval + heartbeat_interval
             /\ r * heartbeat_interval + heartbeat_interval <= Longest
  <2>1. r \in Nat /\ r <= LossesInARow
      BY <1>3
  <2> QED BY <1>1, <1>2, <1>3, <2>1 DEF Longest
<1> QED BY <1>3, <1>4, <1>5

\* Before its tick of a step in which nothing is due, the follower is short of
\* its shortest timeout by more than one; while something is due, its lease
\* holds.
LEMMA SilenceIsBounded ==
    ASSUME Margins, LeaseInv
    PROVE  /\ node["follower"].election_elapsed < election_timeout_base
           /\ Due = {} /\ "follower" \in to_tick =>
                 node["follower"].election_elapsed + 1 < election_timeout_base
<1> DEFINE e == node["follower"].election_elapsed
           g == node["leader"].heartbeat_elapsed
<1>1. e \in Nat /\ g \in Nat /\ g < heartbeat_interval
    BY DEF LeaseInv, Roles, Leads, NodeState, Node
<1>2. /\ Longest + MaxWait <= election_timeout_base /\ MaxWait \in Nat \ {0}
      /\ Longest \in Nat /\ election_timeout_base \in Nat
    BY WaitsAre, Rounds, TimerAssumption DEF Margins, Longest
<1>3. CASE HelpIsComing
  <2>1. PICK f \in in_flight : Heartbeat(f.msg) /\ Silence + f.wait <= Longest + MaxWait
      BY <1>3 DEF HelpIsComing
  <2>2. f.wait \in Nat
      BY DEF LeaseInv, AllExpected
  <2>3. CASE f.wait = 0
    <3>1. f \in Due
        BY <2>3 DEF Due
    <3>2. Silence = e + 1 /\ Due # {}
        BY <3>1 DEF LeaseInv, DeliveredFirst, Silence, Pending, Node
    <3> HIDE DEF e
    <3> QED BY <1>1, <1>2, <2>1, <2>3, <3>2 DEF e
  <2>4. CASE f.wait # 0
    <3>1. Silence \in {e, e + 1} /\ ("follower" \in to_tick => Silence = e + 1)
        BY <1>1 DEF Silence, Pending
    <3> HIDE DEF e
    <3>2. e < election_timeout_base /\ ("follower" \in to_tick => e + 1 < election_timeout_base)
        BY <1>1, <1>2, <2>1, <2>2, <2>4, <3>1
    <3> QED BY <3>2 DEF e
  <2> QED BY <2>3, <2>4
<1>4. CASE HeardLately
  <2>1. Silence \in {e, e + 1} /\ ("follower" \in to_tick => Silence = e + 1)
      BY <1>1 DEF Silence, Pending
  <2>2. Pending("leader") \in {0, 1}
      BY DEF Pending
  <2>3. /\ row * heartbeat_interval \in Nat
        /\ row * heartbeat_interval + heartbeat_interval <= Longest
        /\ heartbeat_interval \in Nat
      BY Rounds DEF LeaseInv
  <2>4. Silence <= row * heartbeat_interval + g + Pending("leader")
      BY <1>4 DEF HeardLately
  <2> DEFINE rh == row * heartbeat_interval
  <2> HIDE DEF e, g, rh
  <2>5. Silence <= rh + g + Pending("leader") /\ rh \in Nat /\ rh + heartbeat_interval <= Longest
      BY <2>3, <2>4 DEF rh
  <2>6. Silence <= Longest
      BY <1>1, <1>2, <2>1, <2>2, <2>3, <2>5
  <2>7. e < election_timeout_base /\ ("follower" \in to_tick => e + 1 < election_timeout_base)
      BY <1>1, <1>2, <2>1, <2>6
  <2> QED BY <2>7 DEF e
<1> QED BY <1>3, <1>4 DEF LeaseInv

------------------------------------------------------------------------------
(* Sending.                                                                 *)

\* What the network makes of the messages of one step: what is sent waits for one
\* step at least, a copy for longer, and what is not sent was lost.
LEMMA SendIs ==
    ASSUME NEW rest, NEW out, Send(rest, out)
    PROVE  \E wait \in [out -> {0} \cup Waits] :
               /\ \A m \in out : wait[m] = 0 => MayLose(m)
               /\ rest \subseteq in_flight'
               /\ \A m \in out : wait[m] # 0 => [wait |-> wait[m], msg |-> m] \in in_flight'
               /\ \A f \in in_flight' :
                      f \in rest \/ \E m \in out, d \in Nat \ {0} : f = [wait |-> d, msg |-> m]
               /\ row' = IF \E m \in out : Heartbeat(m) /\ wait[m] = 0 THEN row + 1
                         ELSE IF \E m \in out : Heartbeat(m) THEN 0 ELSE row
<1> DEFINE Sent(wait, twice, behind) ==
         /\ \A m \in out : wait[m] = 0 => MayLose(m)
         /\ in_flight' = rest \cup {[wait |-> wait[m], msg |-> m] :
                                       m \in {o \in out : wait[o] # 0}}
                              \cup {[wait |-> wait[m] + behind[m], msg |-> m] : m \in twice}
         /\ row' = IF \E m \in out : Heartbeat(m) /\ wait[m] = 0 THEN row + 1
                   ELSE IF \E m \in out : Heartbeat(m) THEN 0 ELSE row
<1>1. PICK wait \in [out -> {0} \cup Waits] :
         \E twice \in SUBSET {m \in out : wait[m] # 0} :
             \E behind \in [twice -> 1..3] : Sent(wait, twice, behind)
    BY Zenon DEF Send
<1>2. PICK twice \in SUBSET {m \in out : wait[m] # 0} :
         \E behind \in [twice -> 1..3] : Sent(wait, twice, behind)
    BY <1>1
<1>3. PICK behind \in [twice -> 1..3] : Sent(wait, twice, behind)
    BY <1>2
<1>4. \A m \in out : wait[m] # 0 => wait[m] \in Nat \ {0}
    BY WaitsAre
<1>5. \A m \in twice : m \in out /\ wait[m] + behind[m] \in Nat \ {0}
    BY <1>4
<1>6. ASSUME NEW f \in in_flight', f \notin rest
      PROVE  \E m \in out, d \in Nat \ {0} : f = [wait |-> d, msg |-> m]
    BY <1>3, <1>4, <1>5, <1>6
<1> QED BY <1>3, <1>6

\* Nothing to send.
LEMMA SendNothing ==
    ASSUME NEW rest, Send(rest, {})
    PROVE  in_flight' = rest /\ row' = row
<1>1. PICK wait \in [{} -> {0} \cup Waits] :
         /\ rest \subseteq in_flight'
         /\ \A f \in in_flight' :
                f \in rest \/ \E m \in {}, d \in Nat \ {0} : f = [wait |-> d, msg |-> m]
         /\ row' = IF \E m \in {} : Heartbeat(m) /\ wait[m] = 0 THEN row + 1
                   ELSE IF \E m \in {} : Heartbeat(m) THEN 0 ELSE row
    BY SendIs
<1> QED BY <1>1

\* What is sent waits for one step at least.
LEMMA SendExpected ==
    ASSUME NEW rest, NEW out, Send(rest, out), AllExpected(rest),
           \A m \in out : Expected(m), row \in 0..LossesInARow
    PROVE  /\ AllExpected(in_flight') /\ rest \subseteq in_flight'
           /\ \A f \in in_flight' : f \in rest \/ f.wait # 0
           /\ row' \in 0..LossesInARow
           /\ (\A m \in out : ~Heartbeat(m)) => row' = row
           /\ (\E m \in out : Heartbeat(m)) =>
                 \/ row' = row + 1
                 \/ \E f \in in_flight' : Heartbeat(f.msg) /\ f.wait \in 1..MaxWait
<1>1. PICK wait \in [out -> {0} \cup Waits] :
         /\ \A m \in out : wait[m] = 0 => MayLose(m)
         /\ rest \subseteq in_flight'
         /\ \A m \in out : wait[m] # 0 => [wait |-> wait[m], msg |-> m] \in in_flight'
         /\ \A f \in in_flight' :
                f \in rest \/ \E m \in out, d \in Nat \ {0} : f = [wait |-> d, msg |-> m]
         /\ row' = IF \E m \in out : Heartbeat(m) /\ wait[m] = 0 THEN row + 1
                   ELSE IF \E m \in out : Heartbeat(m) THEN 0 ELSE row
    BY SendIs
<1>2. \A m \in out : wait[m] \in 0..MaxWait
    BY <1>1, WaitsAre
<1>3. \A f \in in_flight' :
         f \in rest \/ \E m \in out, d \in Nat \ {0} : f = [wait |-> d, msg |-> m]
    BY <1>1
<1>4. AllExpected(in_flight') /\ rest \subseteq in_flight'
  <2>1. ASSUME NEW f \in in_flight'
        PROVE  /\ f = [wait |-> f.wait, msg |-> f.msg]
               /\ f.wait \in Nat /\ Expected(f.msg)
      BY <1>2, <1>3, <2>1 DEF AllExpected
  <2>2. rest \subseteq in_flight'
      BY <1>1
  <2> QED BY <2>1, <2>2 DEF AllExpected
<1>5. \A f \in in_flight' : f \in rest \/ f.wait # 0
    BY <1>3
<1>6. ASSUME NEW m \in out, Heartbeat(m), wait[m] = 0 PROVE row < LossesInARow
    BY <1>1, <1>6 DEF MayLose, Heartbeat
<1>7. row' \in 0..LossesInARow /\ ((\A m \in out : ~Heartbeat(m)) => row' = row)
    BY <1>1, <1>6, TimerAssumption
<1>8. ASSUME NEW m \in out, Heartbeat(m), wait[m] # 0
      PROVE  \E f \in in_flight' : Heartbeat(f.msg) /\ f.wait \in 1..MaxWait
  <2> DEFINE f == [wait |-> wait[m], msg |-> m]
  <2>1. f \in in_flight'
      BY <1>1, <1>8
  <2>2. f.msg = m /\ f.wait = wait[m] /\ wait[m] \in 1..MaxWait
      BY <1>2, <1>8, WaitsAre
  <2> QED BY <1>8, <2>1, <2>2
<1>9. (\E m \in out : Heartbeat(m) /\ wait[m] = 0) => row' = row + 1
    BY <1>1
<1> QED BY <1>4, <1>5, <1>7, <1>8, <1>9

------------------------------------------------------------------------------
(* The steps.                                                               *)

\* The three kinds of message, where they go, and that no other node sends them.
LEMMA MessageKinds ==
    ASSUME NEW m, Expected(m)
    PROVE  \/ /\ m = Message("AppendEntries", "leader", m.to, 1, FALSE)
              /\ m.to \in {"follower", "stray"}
           \/ /\ m = Message("PreVote", "stray", m.to, m.term, FALSE)
              /\ m.to \in {"leader", "follower"} /\ m.term \in {1, 2}
           \/ /\ m = Message("PreVoteResponse", m.from, "stray", 1, FALSE)
              /\ m.from \in {"leader", "follower"}
BY DEF Expected, ToPeers, Message, Node

\* become_follower, field by field.
LEMMA BecomeFollowerIs ==
    ASSUME NEW s \in NodeState, NEW t \in Nat, NEW l \in Node \cup {None}
    PROVE  LET u == become_follower(s, t, l)
           IN  /\ u \in NodeState /\ u.role = "Follower" /\ u.term = t
               /\ u.leader_id = l /\ u.election_elapsed = 0
<1> DEFINE v == IF t > s.term THEN None ELSE s.voted_for
<1>1. v \in Node \cup {None}
    BY DEF NodeState
<1>2. become_follower(s, t, l) =
         [s EXCEPT !.role = "Follower", !.term = t, !.leader_id = l,
                   !.election_elapsed = 0, !.voted_for = v]
    BY DEF become_follower
<1> HIDE DEF v
<1> DEFINE a == [s EXCEPT !.role = "Follower", !.term = t]
           b == [a EXCEPT !.leader_id = l, !.election_elapsed = 0]
           u == [b EXCEPT !.voted_for = v]
<1>3. a \in NodeState /\ a.role = "Follower" /\ a.term = t
    BY DEF NodeState
<1> HIDE DEF a
<1>4. /\ b \in NodeState /\ b.role = "Follower" /\ b.term = t
      /\ b.leader_id = l /\ b.election_elapsed = 0
    BY <1>3 DEF NodeState
<1> HIDE DEF b
<1>5. /\ u \in NodeState /\ u.role = "Follower" /\ u.term = t
      /\ u.leader_id = l /\ u.election_elapsed = 0
    BY <1>1, <1>4 DEF NodeState
<1>6. become_follower(s, t, l) = u
    BY <1>2 DEF a, b
<1> HIDE DEF u
<1> QED BY <1>5, <1>6

\* Node::step on each of them: a heartbeat is heeded, a pre-vote refused, and a
\* refusal changes nothing.
LEMMA StepIs ==
    ASSUME Margins, LeaseInv, NEW m, Expected(m)
    PROVE  LET r == step(m.to, m)
               s == node[m.to]
           IN  \/ /\ m.kind = "AppendEntries" /\ m.to \in {"follower", "stray"}
                  /\ r.out = {} /\ r.state \in NodeState
                  /\ r.state.role = "Follower" /\ r.state.term = 1
                  /\ r.state.leader_id = "leader" /\ r.state.election_elapsed = 0
               \/ /\ m.kind = "PreVote" /\ m.to \in {"leader", "follower"}
                  /\ r.state = s
                  /\ r.out = {Message("PreVoteResponse", m.to, "stray", 1, FALSE)}
               \/ /\ m.kind = "PreVoteResponse" /\ m.to = "stray"
                  /\ r.state = s /\ r.out = {}
<1> DEFINE r == step(m.to, m)
           s == node[m.to]
<1>1. CASE /\ m = Message("AppendEntries", "leader", m.to, 1, FALSE)
           /\ m.to \in {"follower", "stray"}
  <2>1. s \in NodeState /\ s.term \in {0, 1}
      BY <1>1 DEF LeaseInv, Roles, Hears, Strays, Node
  <2>2. m.kind = "AppendEntries" /\ m.term = 1 /\ m.from = "leader"
      BY <1>1 DEF Message
  <2> DEFINE u == IF m.term > s.term THEN become_follower(s, m.term, None) ELSE s
  <2>3. u \in NodeState /\ u.term = 1
    <3>1. CASE s.term = 0
        BY <2>1, <2>2, <3>1, BecomeFollowerIs
    <3>2. CASE s.term = 1
        BY <2>1, <2>2, <3>2
    <3> QED BY <2>1, <3>1, <3>2
  <2>4. r = append_entries(u, m)
      BY <2>2, <2>3 DEF step
  <2> HIDE DEF u, r
  <2>5. /\ r.out = {} /\ r.state \in NodeState
        /\ r.state.role = "Follower" /\ r.state.term = 1
        /\ r.state.leader_id = "leader" /\ r.state.election_elapsed = 0
    <3>1. r.out = {} /\ r.state = become_follower(u, 1, "leader")
        BY <2>2, <2>4 DEF append_entries
    <3> QED BY <2>3, <3>1, BecomeFollowerIs DEF Node
  <2> QED BY <1>1, <2>2, <2>5 DEF r
<1>2. CASE /\ m = Message("PreVote", "stray", m.to, m.term, FALSE)
           /\ m.to \in {"leader", "follower"} /\ m.term \in {1, 2}
  <2>1. m.kind = "PreVote" /\ m.from = "stray"
      BY <1>2 DEF Message
  <2>2. r = pre_vote(m.to, s, m)
      BY <2>1 DEF step
  <2>3. s.term = 1 /\ leader_lease_active(s)
      BY <1>2, SilenceIsBounded, NoneAssumption
         DEF LeaseInv, Roles, Leads, Hears, leader_lease_active, Node
  <2>4. (m.term >= s.term /\ ~leader_lease_active(s)) = FALSE
      BY <2>3
  <2> HIDE DEF r, s
  <2>5. r.state = s /\ r.out = {Message("PreVoteResponse", m.to, "stray", 1, FALSE)}
      BY <2>1, <2>2, <2>3, <2>4 DEF pre_vote
  <2> QED BY <1>2, <2>1, <2>5 DEF r, s
<1>3. CASE /\ m = Message("PreVoteResponse", m.from, "stray", 1, FALSE)
           /\ m.from \in {"leader", "follower"}
  <2>1. m.kind = "PreVoteResponse" /\ ~m.granted /\ m.to = "stray"
      BY <1>3 DEF Message
  <2>2. r = counted(m.to, s, m)
      BY <2>1 DEF step
  <2> QED BY <2>1, <2>2 DEF counted
<1> QED BY <1>1, <1>2, <1>3, MessageKinds

\* One node changes.
LEMMA RolesKept ==
    ASSUME Roles, NEW n \in Node, NEW u \in NodeState, node' = [node EXCEPT ![n] = u],
           n = "leader" => Leads(u), n = "follower" => Hears(u), n = "stray" => Strays(u)
    PROVE  /\ Roles' /\ node'[n] = u
           /\ \A p \in Node : p # n => node'[p] = node[p]
BY DEF Roles, Node

\* A delivery.  A heartbeat ends the follower's silence; nothing else touches it.
LEMMA DeliverKeeps ==
    ASSUME Margins, LeaseInv, NEW f \in in_flight, deliver(f)
    PROVE  LeaseInv'
<1> DEFINE m == f.msg
           n == f.msg.to
           r == step(n, m)
           rest == in_flight \ {f}
<1>1. /\ f \in Due /\ node' = [node EXCEPT ![n] = r.state] /\ Send(rest, r.out)
      /\ to_tick' = to_tick /\ to_tick = Node
    BY DEF deliver, LeaseInv, DeliveredFirst
<1>2. Expected(m) /\ AllExpected(rest) /\ row \in 0..LossesInARow /\ Roles
    BY DEF LeaseInv, AllExpected
<1>3. \/ /\ m.kind = "AppendEntries" /\ n \in {"follower", "stray"}
         /\ r.out = {} /\ r.state \in NodeState
         /\ r.state.role = "Follower" /\ r.state.term = 1
         /\ r.state.leader_id = "leader" /\ r.state.election_elapsed = 0
      \/ /\ m.kind = "PreVote" /\ n \in {"leader", "follower"}
         /\ r.state = node[n]
         /\ r.out = {Message("PreVoteResponse", n, "stray", 1, FALSE)}
      \/ /\ m.kind = "PreVoteResponse" /\ n = "stray"
         /\ r.state = node[n] /\ r.out = {}
    BY <1>2, StepIs
<1> HIDE DEF r
<1>4. /\ Roles' /\ node'[n] = r.state /\ n \in Node
      /\ \A p \in Node : p # n => node'[p] = node[p]
  <2>1. n \in Node /\ r.state \in NodeState
      BY <1>2, <1>3 DEF Roles, Node
  <2>2. /\ n = "leader" => Leads(r.state)
        /\ n = "follower" => Hears(r.state)
        /\ n = "stray" => Strays(r.state)
    <3>1. CASE r.state = node[n]
        BY <1>2, <3>1 DEF Roles
    <3>2. CASE /\ n \in {"follower", "stray"} /\ r.state.role = "Follower"
               /\ r.state.term = 1 /\ r.state.leader_id = "leader"
        BY <3>2 DEF Hears, Strays
    <3> QED BY <1>3, <3>1, <3>2
  <2> QED BY <1>1, <1>2, <2>1, <2>2, RolesKept
<1>5. \A x \in r.out : Expected(x) /\ ~Heartbeat(x)
    BY <1>3 DEF Expected, Heartbeat, Message
<1>6. AllExpected(in_flight') /\ rest \subseteq in_flight' /\ row' = row
    BY <1>1, <1>2, <1>5, SendExpected
<1>7. DeliveredFirst' /\ Pending("leader")' = 1 /\ Pending("follower")' = 1
    BY <1>1 DEF DeliveredFirst, Pending, Node
<1>8. Pending("leader") = 1 /\ Pending("follower") = 1
    BY <1>1 DEF Pending, Node
<1>9. node'["leader"] = node["leader"]
    BY <1>3, <1>4 DEF Node
<1>10. CASE m.kind = "AppendEntries" /\ n = "follower"
  <2>1. Silence' = 1
      BY <1>3, <1>4, <1>7, <1>10 DEF Silence
  <2>2. node["leader"].heartbeat_elapsed \in Nat /\ row * heartbeat_interval \in Nat
      BY <1>2, Rounds DEF Roles, NodeState, Node
  <2>3. 1 <= row * heartbeat_interval + node["leader"].heartbeat_elapsed + 1
      BY <2>2
  <2>4. HeardLately'
      BY <1>6, <1>7, <1>9, <2>1, <2>3 DEF HeardLately
  <2> QED BY <1>2, <1>4, <1>6, <1>7, <2>4 DEF LeaseInv
<1>11. CASE ~(m.kind = "AppendEntries" /\ n = "follower")
  <2>1. node'["follower"] = node["follower"]
      BY <1>3, <1>4, <1>11 DEF Node
  <2>2. Silence' = Silence
      BY <1>7, <1>8, <2>1 DEF Silence
  <2>3. CASE HelpIsComing
    <3>1. PICK h \in in_flight : Heartbeat(h.msg) /\ Silence + h.wait <= Longest + MaxWait
        BY <2>3 DEF HelpIsComing
    <3>2. h # f
        BY <1>11, <3>1 DEF Heartbeat
    <3>3. h \in in_flight'
        BY <1>6, <3>2
    <3>4. HelpIsComing'
        BY <2>2, <3>1, <3>3 DEF HelpIsComing, Longest, MaxWait
    <3> QED BY <1>2, <1>4, <1>6, <1>7, <3>4 DEF LeaseInv
  <2>4. CASE HeardLately
    <3>1. HeardLately'
        BY <1>6, <1>7, <1>8, <1>9, <2>2, <2>4 DEF HeardLately
    <3> QED BY <1>2, <1>4, <1>6, <1>7, <3>1 DEF LeaseInv
  <2> QED BY <2>3, <2>4 DEF LeaseInv
<1> QED BY <1>10, <1>11

\* The leader's tick.  A heartbeat that is lost adds an interval to the silence
\* that row accounts for; one that is sent is on its way.
LEMMA TickLeaderKeeps ==
    ASSUME Margins, LeaseInv, NEW n \in Node, tick_leader(n)
    PROVE  LeaseInv'
<1>1. n = "leader" /\ n \in to_tick /\ Due = {} /\ to_tick' = to_tick \ {n}
    BY DEF tick_leader, LeaseInv, Roles, Hears, Strays, Node
<1>2. Roles /\ AllExpected(in_flight) /\ row \in 0..LossesInARow
    BY DEF LeaseInv
<1> DEFINE g == node["leader"].heartbeat_elapsed
           beat == g + 1 >= heartbeat_interval
           k == IF beat THEN 0 ELSE g + 1
           out == IF beat THEN ToPeers("AppendEntries", "leader", 1) ELSE {}
<1>3. /\ node["leader"] \in NodeState /\ Leads(node["leader"])
      /\ g \in Nat /\ g < heartbeat_interval /\ heartbeat_interval \in Nat
    BY <1>2, TimerAssumption DEF Roles, Leads, NodeState, Node
<1>4. /\ node' = [node EXCEPT !["leader"].heartbeat_elapsed = k] /\ Send(in_flight, out)
    BY <1>1, <1>3 DEF tick_leader, Leads
<1> DEFINE u == [node["leader"] EXCEPT !.heartbeat_elapsed = k]
<1>5. k \in Nat /\ k < heartbeat_interval
    BY <1>3, TimerAssumption
<1>6. u \in NodeState /\ Leads(u) /\ u.heartbeat_elapsed = k
  <2> HIDE DEF k
  <2> QED BY <1>3, <1>5 DEF NodeState, Leads
<1>7. node' = [node EXCEPT !["leader"] = u]
    BY <1>4
<1> HIDE DEF u
<1>8. Roles' /\ node'["leader"] = u /\ node'["follower"] = node["follower"]
    BY <1>2, <1>6, <1>7, RolesKept DEF Node
<1>9. \A x \in out : Expected(x)
    BY DEF Expected
<1>10. /\ AllExpected(in_flight') /\ in_flight \subseteq in_flight'
       /\ row' \in 0..LossesInARow
       /\ \A f \in in_flight' : f \in in_flight \/ f.wait # 0
    BY <1>2, <1>4, <1>9, SendExpected
<1>11. DeliveredFirst'
    BY <1>1, <1>10 DEF LeaseInv, DeliveredFirst, Due, Node
<1>12. /\ Pending("leader") = 1 /\ Pending("leader")' = 0
       /\ Pending("follower")' = Pending("follower")
    BY <1>1 DEF Pending
<1>13. Silence' = Silence
    BY <1>8, <1>12 DEF Silence
<1>14. Silence \in Nat
    BY <1>2 DEF Silence, Pending, Roles, NodeState, Node
<1>15. CASE HelpIsComing
  <2>1. HelpIsComing'
      BY <1>10, <1>13, <1>15 DEF HelpIsComing, Longest, MaxWait
  <2> QED BY <1>8, <1>10, <1>11, <2>1 DEF LeaseInv
<1>16. CASE HeardLately /\ ~beat
  <2>1. row' = row
    <3>1. Send(in_flight, {})
        BY <1>4, <1>16
    <3> QED BY <3>1, SendNothing
  <2>2. node'["leader"].heartbeat_elapsed = g + 1
      BY <1>6, <1>8, <1>16
  <2>3. row * heartbeat_interval \in Nat
      BY <1>2, Rounds
  <2> DEFINE rh == row * heartbeat_interval
  <2> HIDE DEF rh, g
  <2>4. Silence <= rh + g + 1
      BY <1>12, <1>16 DEF HeardLately, rh, g
  <2>5. Silence <= rh + (g + 1) + 0
      BY <1>3, <1>14, <2>3, <2>4 DEF rh
  <2>6. HeardLately'
      BY <1>12, <1>13, <2>1, <2>2, <2>5 DEF HeardLately, rh
  <2> QED BY <1>8, <1>10, <1>11, <2>6 DEF LeaseInv
<1>17. CASE HeardLately /\ beat
  <2>1. g + 1 = heartbeat_interval /\ k = 0
      BY <1>3, <1>17
  <2>2. /\ row * heartbeat_interval \in Nat /\ Longest \in Nat
        /\ (row + 1) * heartbeat_interval = row * heartbeat_interval + heartbeat_interval
        /\ row * heartbeat_interval + heartbeat_interval <= Longest
      BY <1>2, Rounds
  <2> DEFINE rh == row * heartbeat_interval
             next == (row + 1) * heartbeat_interval
  <2>3. rh \in Nat /\ next = rh + heartbeat_interval /\ next <= Longest
      BY <2>2
  <2>4. Silence <= rh + g + 1
      BY <1>12, <1>17 DEF HeardLately
  <2> HIDE DEF rh, next, g
  <2>5. Silence <= next
      BY <1>3, <1>14, <2>1, <2>3, <2>4
  <2>6. \E x \in out : Heartbeat(x)
    <3> DEFINE x == Message("AppendEntries", "leader", "follower", 1, FALSE)
    <3>1. x \in out /\ Heartbeat(x)
        BY <1>17 DEF ToPeers, Message, Heartbeat, Node
    <3> QED BY <3>1
  <2>7. \/ row' = row + 1
        \/ \E f \in in_flight' : Heartbeat(f.msg) /\ f.wait \in 1..MaxWait
      BY <1>2, <1>4, <1>9, <2>6, SendExpected
  <2>8. CASE row' = row + 1
    <3>1. row' * heartbeat_interval = next /\ next \in Nat
        BY <1>3, <2>3, <2>8 DEF next
    <3>2. row' * heartbeat_interval + node'["leader"].heartbeat_elapsed + Pending("leader")' = next
        BY <1>6, <1>8, <1>12, <2>1, <3>1
    <3>3. HeardLately'
        BY <1>13, <2>5, <3>2 DEF HeardLately
    <3> QED BY <1>8, <1>10, <1>11, <3>3 DEF LeaseInv
  <2>9. CASE \E f \in in_flight' : Heartbeat(f.msg) /\ f.wait \in 1..MaxWait
    <3>1. PICK f \in in_flight' : Heartbeat(f.msg) /\ f.wait \in 1..MaxWait
        BY <2>9
    <3>2. Silence + f.wait <= Longest + MaxWait
        BY <1>3, <1>14, <2>2, <2>3, <2>5, <3>1, WaitsAre
    <3>3. HelpIsComing'
        BY <1>13, <3>1, <3>2 DEF HelpIsComing, Longest, MaxWait
    <3> QED BY <1>8, <1>10, <1>11, <3>3 DEF LeaseInv
  <2> QED BY <2>7, <2>8, <2>9
<1> QED BY <1>15, <1>16, <1>17 DEF LeaseInv

\* Another node's tick, before its timeout.
LEMMA TickWaitsKeeps ==
    ASSUME Margins, LeaseInv, NEW n \in Node, tick_waits(n)
    PROVE  LeaseInv'
<1>1. /\ n \in {"follower", "stray"} /\ n \in to_tick /\ Due = {} /\ to_tick' = to_tick \ {n}
      /\ in_flight' = in_flight /\ row' = row
    BY DEF tick_waits, LeaseInv, Roles, Leads, Node
<1> DEFINE e == node[n].election_elapsed
           u == [node[n] EXCEPT !.election_elapsed = e + 1]
<1>2. Roles /\ node[n] \in NodeState /\ e \in Nat
    BY DEF LeaseInv, Roles, NodeState
<1>3. u \in NodeState /\ u.election_elapsed = e + 1
      /\ (n = "follower" => Hears(u)) /\ (n = "stray" => Strays(u))
    BY <1>2 DEF NodeState, Roles, Hears, Strays
<1>4. node' = [node EXCEPT ![n] = u]
    BY DEF tick_waits
<1> HIDE DEF u
<1>5. Roles' /\ node'[n] = u /\ \A p \in Node : p # n => node'[p] = node[p]
    BY <1>1, <1>2, <1>3, <1>4, RolesKept
<1>6. node'["leader"] = node["leader"] /\ Pending("leader")' = Pending("leader")
    BY <1>1, <1>5 DEF Node, Pending
<1>7. Silence' = Silence
  <2>1. CASE n = "follower"
    <3>1. Pending("follower") = 1 /\ Pending("follower")' = 0
        BY <1>1, <2>1 DEF Pending
    <3> QED BY <1>2, <1>3, <1>5, <2>1, <3>1 DEF Silence
  <2>2. CASE n = "stray"
    <3>1. Pending("follower")' = Pending("follower")
        BY <1>1, <2>2 DEF Pending
    <3> QED BY <1>5, <2>2, <3>1 DEF Silence, Node
  <2> QED BY <1>1, <2>1, <2>2
<1>8. DeliveredFirst'
    BY <1>1 DEF LeaseInv, DeliveredFirst, Due
<1>9. HelpIsComing => HelpIsComing'
    BY <1>1, <1>7 DEF HelpIsComing, Longest, MaxWait
<1>10. HeardLately => HeardLately'
    BY <1>1, <1>6, <1>7 DEF HeardLately
<1> QED BY <1>1, <1>5, <1>8, <1>9, <1>10 DEF LeaseInv

\* A timeout.  It is the stray node's: the follower is never silent for so long.
LEMMA TickFiresKeeps ==
    ASSUME Margins, LeaseInv, NEW n \in Node, tick_fires(n)
    PROVE  LeaseInv'
<1>1. n \in to_tick /\ Due = {} /\ to_tick' = to_tick \ {n} /\ n # "leader"
    BY DEF tick_fires, LeaseInv, Roles, Leads
<1>2. n # "follower"
  <2>1. n = "follower" => node["follower"].election_elapsed + 1 < election_timeout_base
      BY <1>1, SilenceIsBounded
  <2>2. /\ node[n].election_elapsed + 1 >= election_timeout_base
        /\ node[n].election_elapsed \in Nat /\ election_timeout_base \in Nat
      BY TimerAssumption DEF tick_fires, may_fire, LeaseInv, Roles, NodeState
  <2> QED BY <2>1, <2>2
<1>3. n = "stray"
    BY <1>1, <1>2 DEF Node
<1> DEFINE s == node["stray"]
           u == [s EXCEPT !.role = "PreCandidate", !.votes = {"stray"}, !.election_elapsed = 0]
           out == ToPeers("PreVote", "stray", s.term + 1)
<1>4. node' = [node EXCEPT !["stray"] = u] /\ Send(in_flight, out)
    BY <1>3 DEF tick_fires, start_pre_vote
<1>5. Roles /\ s \in NodeState /\ s.term \in {0, 1} /\ AllExpected(in_flight)
      /\ row \in 0..LossesInARow
    BY DEF LeaseInv, Roles, Strays, Node
<1>6. u \in NodeState /\ Strays(u)
    BY <1>5 DEF NodeState, Strays, Node
<1> HIDE DEF u
<1>7. Roles' /\ \A p \in Node : p # "stray" => node'[p] = node[p]
    BY <1>4, <1>5, <1>6, RolesKept DEF Node
<1>8. \A x \in out : Expected(x) /\ ~Heartbeat(x)
    BY <1>5 DEF Expected, Heartbeat, ToPeers, Message
<1>9. /\ AllExpected(in_flight') /\ in_flight \subseteq in_flight' /\ row' = row
      /\ \A f \in in_flight' : f \in in_flight \/ f.wait # 0
    BY <1>4, <1>5, <1>8, SendExpected
<1>10. DeliveredFirst'
    BY <1>1, <1>9 DEF LeaseInv, DeliveredFirst, Due
<1>11. /\ node'["leader"] = node["leader"] /\ node'["follower"] = node["follower"]
       /\ Pending("leader")' = Pending("leader") /\ Pending("follower")' = Pending("follower")
    BY <1>1, <1>3, <1>7 DEF Node, Pending
<1>12. Silence' = Silence
    BY <1>11 DEF Silence
<1>13. HelpIsComing => HelpIsComing'
    BY <1>9, <1>12 DEF HelpIsComing, Longest, MaxWait
<1>14. HeardLately => HeardLately'
    BY <1>9, <1>11, <1>12 DEF HeardLately
<1> QED BY <1>5, <1>7, <1>9, <1>10, <1>13, <1>14 DEF LeaseInv

\* Time passes: everything under way comes one step nearer.
LEMMA NextStepKeeps ==
    ASSUME Margins, LeaseInv, next_step
    PROVE  LeaseInv'
<1>1. /\ Due = {} /\ to_tick = {} /\ to_tick' = Node /\ node' = node /\ row' = row
      /\ in_flight' = {[f EXCEPT !.wait = @ - 1] : f \in in_flight}
    BY DEF next_step
<1>2. \A f \in in_flight : f.wait \in Nat \ {0}
    BY <1>1 DEF LeaseInv, AllExpected, Due
<1>3. \A x \in in_flight' : \E f \in in_flight : x = [wait |-> f.wait - 1, msg |-> f.msg]
    BY <1>1 DEF LeaseInv, AllExpected
<1>4. \A f \in in_flight : [wait |-> f.wait - 1, msg |-> f.msg] \in in_flight'
    BY <1>1 DEF LeaseInv, AllExpected
<1>5. AllExpected(in_flight')
  <2>1. ASSUME NEW x \in in_flight'
        PROVE  /\ x = [wait |-> x.wait, msg |-> x.msg]
               /\ x.wait \in Nat /\ Expected(x.msg)
    <3>1. PICK f \in in_flight : x = [wait |-> f.wait - 1, msg |-> f.msg]
        BY <1>3
    <3>2. f.wait \in Nat \ {0} /\ Expected(f.msg)
        BY <1>2 DEF LeaseInv, AllExpected
    <3> QED BY <3>1, <3>2, WaitsAre
  <2> QED BY <2>1 DEF AllExpected
<1>6. DeliveredFirst'
    BY <1>1 DEF DeliveredFirst
<1>7. Roles'
    BY <1>1 DEF LeaseInv, Roles
<1>8. /\ Pending("leader") = 0 /\ Pending("leader")' = 1
      /\ Pending("follower") = 0 /\ Pending("follower")' = 1
    BY <1>1 DEF Pending, Node
<1>9. /\ Silence' = Silence + 1 /\ Silence \in Nat
      /\ node["leader"].heartbeat_elapsed \in Nat
    BY <1>1, <1>8 DEF Silence, LeaseInv, Roles, NodeState, Node
<1>10. CASE HelpIsComing
  <2>1. PICK f \in in_flight : Heartbeat(f.msg) /\ Silence + f.wait <= Longest + MaxWait
      BY <1>10 DEF HelpIsComing
  <2> DEFINE x == [wait |-> f.wait - 1, msg |-> f.msg]
  <2>2. x \in in_flight' /\ Heartbeat(x.msg) /\ x.wait = f.wait - 1
      BY <1>4, <2>1
  <2>3. Silence' + x.wait <= Longest + MaxWait
      BY <1>2, <1>9, <2>1, <2>2, Rounds, WaitsAre
  <2>4. HelpIsComing'
      BY <2>2, <2>3 DEF HelpIsComing, Longest, MaxWait
  <2> QED BY <1>1, <1>5, <1>6, <1>7, <2>4 DEF LeaseInv
<1>11. CASE HeardLately
  <2>1. row * heartbeat_interval \in Nat
      BY Rounds DEF LeaseInv
  <2> DEFINE rh == row * heartbeat_interval
             g == node["leader"].heartbeat_elapsed
  <2>2. rh \in Nat /\ g \in Nat /\ Silence <= rh + g + 0
      BY <1>8, <1>9, <1>11, <2>1 DEF HeardLately
  <2>3. row' * heartbeat_interval = rh /\ node'["leader"].heartbeat_elapsed = g
      BY <1>1
  <2> HIDE DEF rh, g
  <2>4. Silence' <= rh + g + 1
      BY <1>9, <2>2
  <2>5. HeardLately'
      BY <1>8, <2>3, <2>4 DEF HeardLately
  <2> QED BY <1>1, <1>5, <1>6, <1>7, <2>5 DEF LeaseInv
<1> QED BY <1>10, <1>11 DEF LeaseInv

\* A step that changes neither the nodes nor the network.
LEMMA SameKeeps ==
    ASSUME LeaseInv, UNCHANGED <<node, in_flight, to_tick, row>>
    PROVE  LeaseInv'
BY DEF LeaseInv, Roles, AllExpected, DeliveredFirst, Due, HelpIsComing, HeardLately,
       Silence, Pending, Longest, MaxWait

\* Every step keeps the invariant.
LEMMA LeaseStep ==
    ASSUME Margins, LeaseInv, [Next]_vars
    PROVE  LeaseInv'
<1>1. CASE \E f \in in_flight : deliver(f)
    BY <1>1, DeliverKeeps
<1>2. CASE \E n \in Node : tick_leader(n) \/ tick_waits(n) \/ tick_fires(n)
    BY <1>2, TickLeaderKeeps, TickWaitsKeeps, TickFiresKeeps
<1>3. CASE next_step
    BY <1>3, NextStepKeeps
<1>4. CASE heal \/ UNCHANGED vars
    BY <1>4, SameKeeps DEF heal, vars
<1> QED BY <1>1, <1>2, <1>3, <1>4 DEF Next

\* At the start the leader's lease is as old as the election it has won.
LEMMA LeaseInit ==
    ASSUME Margins, Init
    PROVE  LeaseInv
<1>1. PICK e \in {2, RoundTrip}, stray \in {State("Follower", 1, "leader", None, 0),
                                           State("Follower", 0, None, None, 0)} :
         node = [leader   |-> State("Leader", 1, "leader", "leader", e),
                 follower |-> State("Follower", 1, "leader", "leader", 0),
                 stray    |-> stray]
    BY DEF Init
<1>2. in_flight = {} /\ to_tick = Node /\ row = 0
    BY DEF Init
<1>3. e \in Nat /\ e < election_timeout_base
    BY WaitsAre, TimerAssumption DEF Margins
<1> DEFINE l == State("Leader", 1, "leader", "leader", e)
           f == State("Follower", 1, "leader", "leader", 0)
<1>4. l \in NodeState /\ f \in NodeState /\ stray \in NodeState
    BY <1>3 DEF State, NodeState, Node
<1>5. Leads(l) /\ Hears(f) /\ Strays(stray)
    BY <1>3, TimerAssumption DEF State, Leads, Hears, Strays
<1>6. /\ f.election_elapsed = 0 /\ l.heartbeat_elapsed = 0
    BY DEF State
<1> HIDE DEF l, f
<1>7. /\ node["leader"] = l /\ node["follower"] = f /\ node["stray"] = stray
      /\ node \in [Node -> NodeState]
    BY <1>1, <1>4 DEF l, f, Node
<1>8. Roles
    BY <1>5, <1>7 DEF Roles
<1>9. Silence = 1 /\ Pending("leader") = 1
    BY <1>2, <1>6, <1>7 DEF Silence, Pending, Node
<1>10. 0 * heartbeat_interval = 0
    BY TimerAssumption
<1>11. HeardLately
    BY <1>2, <1>6, <1>7, <1>9, <1>10 DEF HeardLately
<1>12. row \in 0..LossesInARow
    BY <1>2, TimerAssumption
<1> QED BY <1>2, <1>8, <1>11, <1>12 DEF LeaseInv, AllExpected, DeliveredFirst

\* The invariant holds throughout.
LEMMA LeaseAlways == Margins => (Spec => []LeaseInv)
<1> SUFFICES ASSUME Margins PROVE Spec => []LeaseInv
    OBVIOUS
<1>1. Init => LeaseInv
    BY LeaseInit
<1>2. LeaseInv /\ [Next]_vars => LeaseInv'
    BY LeaseStep
<1> QED BY <1>1, <1>2, PTL DEF Spec

\* README.md:37, "Pre-Vote Protocol preventing disruptive partitioned servers",
\* for every election timeout, heartbeat interval, delay and run of lost
\* heartbeats within the margins: the leader is never deposed, whatever the
\* stray node does and whenever its links work.
THEOREM LeaderIsUndisturbed == Margins => (Spec => []LeaderUndisturbed)
<1>1. LeaseInv => LeaderUndisturbed
    BY DEF LeaseInv, Roles, Leads, LeaderUndisturbed
<1> QED BY <1>1, LeaseAlways, PTL

\* node.rs: within the same margins a follower that loses LossesInARow
\* heartbeats one after the other, with every delay at its worst, never starts
\* an election of its own.
THEOREM FollowerNeverFires == Margins => (Spec => []FollowerStays)
<1>1. LeaseInv => FollowerStays
    BY DEF LeaseInv, Roles, Hears, FollowerStays
<1> QED BY <1>1, LeaseAlways, PTL
==============================================================================
