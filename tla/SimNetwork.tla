----------------------------- MODULE SimNetwork ------------------------------
(***************************************************************************)
(* raft-sim/src/network.rs, driven by Simulator::step: messages scheduled  *)
(* for a tick, links that are cut one way, losses and duplicates.  The     *)
(* rates of the code are probabilities; here a loss or a duplicate simply  *)
(* may happen.  Ticks are kept, which Simulator abstracts from.            *)
(***************************************************************************)
EXTENDS Integers, Sequences, FiniteSetsExt, SequencesExt

CONSTANTS Node,
          max_delay_ticks,
          MaxMsgs, MaxTick    \* bounds

ASSUME SimNetworkAssumption ==
    max_delay_ticks \in Nat /\ MaxMsgs \in Nat /\ MaxTick \in Nat

VARIABLES in_flight,    \* the heap: ScheduledMessages [delivery_tick, copy, id]
          partitions,   \* cut links <<from, to>>
          tick_count,   \* Simulator's
          calls,        \* history: [link, at] of every call of send
          delivered,    \* history: how often each message came out of drain_due
          cut_at        \* history: the tick at which each link was last cut

vars == <<in_flight, partitions, tick_count, calls, delivered, cut_at>>

Link == {l \in Node \X Node : l[1] # l[2]}
Id   == 1..MaxMsgs

Init ==
    /\ in_flight = {} /\ partitions = {} /\ tick_count = 0 /\ calls = << >>
    /\ delivered = [i \in Id |-> 0] /\ cut_at = [l \in Link |-> 0]
------------------------------------------------------------------------------
\* Mutant: the two ends of the link are exchanged.
is_cut_backwards(l) == <<l[2], l[1]>> \in partitions

is_cut(l) == l \in partitions

Scheduled(id, delay, copy) ==
    [id |-> id, delivery_tick |-> tick_count + delay, copy |-> copy]

\* The outcomes of send: nothing, the message, or the message and a duplicate
\* one to three ticks behind it.
schedules(l, id) ==
    IF is_cut(l) THEN {{}}
    ELSE {{}} \cup {{Scheduled(id, d, 1)} : d \in 0..max_delay_ticks}
              \cup {{Scheduled(id, d, 1), Scheduled(id, d + e, 2)} :
                        d \in 0..max_delay_ticks, e \in 1..3}

\* Nodes send while they handle what the tick has delivered and in their own
\* tick, and a client between two steps: always after drain_due.
send(l) ==
    LET id == Len(calls) + 1
    IN  /\ id \in Id
        /\ \E s \in schedules(l, id) : in_flight' = in_flight \cup s
        /\ calls' = Append(calls, [link |-> l, at |-> tick_count])
        /\ UNCHANGED <<partitions, tick_count, delivered, cut_at>>

partition(l) ==
    /\ l \notin partitions
    /\ partitions' = partitions \cup {l}
    /\ cut_at' = [cut_at EXCEPT ![l] = tick_count]
    /\ UNCHANGED <<in_flight, tick_count, calls, delivered>>

heal_all ==
    /\ partitions # {} /\ partitions' = {}
    /\ UNCHANGED <<in_flight, tick_count, calls, delivered, cut_at>>

\* Mutant: a comparison that is not reversed, which puts the latest on top.
peek_latest(heap) ==
    {s \in heap : \A o \in heap : o.delivery_tick <= s.delivery_tick}

\* Ord is reversed, so the heap's top is a message that is due first; among
\* equals any.
peek(heap) == {s \in heap : \A o \in heap : s.delivery_tick <= o.delivery_tick}

is_due(s, now) == s.delivery_tick <= now

\* Mutant: what is due is returned and kept.
drain_due_copies(heap, now) ==
    {[due |-> {s \in heap : is_due(s, now)}, rest |-> heap]}

\* The loop pops while the top is due.
drain_due(heap, now) ==
    {[due |-> due, rest |-> heap \ due] :
        due \in {d \in SUBSET heap :
                    /\ \A s \in peek(heap \ d) : ~is_due(s, now)
                    /\ \A s \in d : \E k \in SUBSET (d \ {s}) :
                           s \in peek(heap \ k) /\ is_due(s, now)}}

\* Simulator::step: the clock, then the deliveries.
step ==
    /\ tick_count < MaxTick
    /\ tick_count' = tick_count + 1
    /\ \E r \in drain_due(in_flight, tick_count') :
           /\ in_flight' = r.rest
           /\ delivered' = [i \in Id |-> delivered[i]
                                + Cardinality({s \in r.due : s.id = i})]
    /\ UNCHANGED <<partitions, calls, cut_at>>

Next ==
    \/ \E l \in Link : send(l) \/ partition(l)
    \/ heal_all \/ step

Spec == Init /\ [][Next]_vars
------------------------------------------------------------------------------
\* The refinement: which messages are under way, in how many copies.
Channel == INSTANCE LossyNetwork WITH
    Message   <- Id,
    Copies    <- 2,
    sent      <- DOMAIN calls,
    flying    <- [i \in Id |-> Cardinality({s \in in_flight : s.id = i})],
    delivered <- delivered

\* SimNetwork implements LossyNetwork with at most one duplicate of a message:
\* no schedule of ticks, cuts, losses and duplicates makes drain_due return a
\* message that send was not called with, or a third copy.
ImplementsLossyNetwork == Channel!NetworkSpec

\* The bound on delay that the election timeout of 15 ticks is chosen against:
\* network.rs:72 and :82 let a message wait max_delay_ticks and its duplicate
\* three more, and no message is still under way after that.
NothingOverdue ==
    \A s \in in_flight : tick_count < calls[s.id].at + max_delay_ticks + 3

\* partition() lets pass what is in flight and stops the rest: once a link has
\* been cut for max_delay_ticks + 3 ticks nothing is in flight on it, however
\* cuts, heal_all, messages and ticks were mixed before.
CutLinkFallsSilent ==
    \A l \in partitions :
        tick_count >= cut_at[l] + max_delay_ticks + 3 =>
            \A s \in in_flight : calls[s.id].link # l
==============================================================================
