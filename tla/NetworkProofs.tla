---------------------------- MODULE NetworkProofs ----------------------------
(***************************************************************************)
(* Proofs about SimNetwork, for every set of nodes and every               *)
(* max_delay_ticks: it implements LossyNetwork with at most one duplicate  *)
(* of a message, no message outstays max_delay_ticks + 3 ticks, and a link *)
(* that stays cut that long carries nothing.                               *)
(***************************************************************************)
EXTENDS SimNetwork, FiniteSetTheorems, WellFoundedInduction, TLAPS

\* The copies of message i under way.
Flying(heap, i) == {s \in heap : s.id = i}

\* The types of the network's state.
NetTypes ==
    /\ tick_count \in Nat
    /\ calls \in Seq([link : Link, at : Nat])
    /\ partitions \subseteq Link
    /\ delivered \in [Id -> Nat]
    /\ cut_at \in [Link -> Nat]
    /\ in_flight \subseteq [id : Id, delivery_tick : Nat, copy : {1, 2}]
    /\ IsFiniteSet(in_flight)

\* Every message under way was sent, no later than now, and is scheduled within
\* the bound on delay, counted from its send.
Timely ==
    /\ \A s \in in_flight :
           /\ s.id \in DOMAIN calls
           /\ s.delivery_tick <= calls[s.id].at + max_delay_ticks + 3
           /\ tick_count < calls[s.id].at + max_delay_ticks + 3
    /\ \A i \in DOMAIN calls : calls[i].at <= tick_count

\* What is under way on a cut link was sent before the cut.
SentBeforeCut ==
    \A l \in partitions : \A s \in in_flight :
        calls[s.id].link = l => calls[s.id].at <= cut_at[l]

\* A message is under way or has come out twice at most, and not at all before
\* it was sent.
TwoCopies ==
    \A i \in Id :
        /\ delivered[i] + Cardinality(Flying(in_flight, i)) <= 2
        /\ i \notin DOMAIN calls => delivered[i] = 0

NetInv == NetTypes /\ Timely /\ SentBeforeCut /\ TwoCopies
------------------------------------------------------------------------------
Earlier == {ss \in Nat \X Nat : ss[1] < ss[2]}

\* The heap's top exists: a heap that is not empty has a message due first.
LEMMA PeekExists ==
    ASSUME NEW heap, \A s \in heap : s.delivery_tick \in Nat, heap # {}
    PROVE  peek(heap) # {}
<1> DEFINE T == {s.delivery_tick : s \in heap}
<1>1. T \subseteq Nat /\ T # {}
    OBVIOUS
<1>2. IsWellFoundedOn(Earlier, Nat)
    BY NatLessThanWellFounded DEF Earlier, OpToRel
<1>3. PICK t \in T : \A u \in T : ~(<<u, t>> \in Earlier)
    <2> HIDE DEF T
    <2> QED
        BY <1>1, <1>2, WFMin
<1>7. \A u \in T : t <= u
    <2> HIDE DEF T
    <2> SUFFICES ASSUME NEW u \in T, u < t PROVE FALSE
        BY <1>1
    <2>1. u \in Nat /\ t \in Nat
        BY <1>1
    <2>2. <<u, t>> \in Earlier
        BY <2>1 DEF Earlier
    <2> QED
        BY <1>3, <2>2
<1>4. PICK s \in heap : s.delivery_tick = t
    OBVIOUS
<1>5. s \in peek(heap)
    BY <1>4, <1>7 DEF peek
<1> QED
    BY <1>5

\* drain_due takes messages from the heap, leaves the others, and nothing that
\* is due stays behind.
LEMMA DrainTakesAllDue ==
    ASSUME NEW heap, \A s \in heap : s.delivery_tick \in Nat,
           NEW now \in Nat, NEW r \in drain_due(heap, now)
    PROVE  /\ r.due \subseteq heap /\ r.rest = heap \ r.due
           /\ \A s \in r.rest : now < s.delivery_tick
<1>1. PICK d \in SUBSET heap :
          /\ \A s \in peek(heap \ d) : ~is_due(s, now)
          /\ r = [due |-> d, rest |-> heap \ d]
    BY DEF drain_due
<1>2. \A s \in heap \ d : now < s.delivery_tick
    <2>1. CASE heap \ d = {}
        BY <2>1
    <2>2. CASE heap \ d # {}
        <3>1. PICK top \in peek(heap \ d) : TRUE
            BY <2>2, PeekExists
        <3>2. now < top.delivery_tick
            BY <1>1, <3>1 DEF is_due, peek
        <3>3. \A s \in heap \ d : top.delivery_tick <= s.delivery_tick
            BY <3>1 DEF peek
        <3> QED
            BY <3>1, <3>2, <3>3 DEF peek
    <2> QED
        BY <2>1, <2>2
<1> QED
    BY <1>1, <1>2

\* A call in the history has a tick.
LEMMA CallTyped ==
    ASSUME NetTypes, NEW i \in DOMAIN calls
    PROVE  calls[i].at \in Nat
<1> DEFINE S == [link : Link, at : Nat]
<1>1. calls \in Seq(S)
    BY DEF NetTypes
<1>2. calls[i] \in S
    <2> HIDE DEF S
    <2> QED
        BY <1>1
<1> QED
    BY <1>2

\* What is taken out of the heap and what stays are counted apart.
LEMMA FlyingSplits ==
    ASSUME NEW heap, IsFiniteSet(heap), NEW due \in SUBSET heap, NEW i
    PROVE  /\ Cardinality(Flying(heap, i)) \in Nat
           /\ Cardinality(Flying(due, i)) \in Nat
           /\ Cardinality(Flying(heap \ due, i)) \in Nat
           /\ Cardinality(Flying(heap, i))
                  = Cardinality(Flying(due, i)) + Cardinality(Flying(heap \ due, i))
<1> DEFINE A == Flying(due, i)
           B == Flying(heap \ due, i)
<1>1. Flying(heap, i) = A \cup B /\ A \cap B = {} /\ A \subseteq heap /\ B \subseteq heap
    BY DEF Flying
<1>2. IsFiniteSet(A) /\ IsFiniteSet(B)
    BY <1>1, FS_Subset
<1> HIDE DEF A, B
<1>3. Cardinality(A) \in Nat /\ Cardinality(B) \in Nat
    BY <1>2, FS_CardinalityType
<1>4. Cardinality(A \cup B) = Cardinality(A) + Cardinality(B) - Cardinality(A \cap B)
    BY <1>2, FS_Union
<1>5. Cardinality(A \cap B) = 0
    BY <1>1, FS_EmptySet
<1>6. Cardinality(A \cup B) = Cardinality(A) + Cardinality(B)
    BY <1>3, <1>4, <1>5
<1>7. Cardinality(Flying(heap, i)) = Cardinality(A) + Cardinality(B)
    BY <1>1, <1>6
<1>8. Cardinality(Flying(heap, i)) \in Nat
    BY <1>3, <1>7
<1> QED
    BY <1>3, <1>7, <1>8 DEF A, B

\* One call of send schedules at most two copies of its own message, within the
\* bound on delay, and none on a link that is cut.
LEMMA SchedulesFew ==
    ASSUME NetTypes, NEW l \in Link, NEW id \in Id, NEW s \in schedules(l, id)
    PROVE  /\ s \subseteq [id : {id}, delivery_tick : Nat, copy : {1, 2}]
           /\ \A x \in s : x.delivery_tick <= tick_count + max_delay_ticks + 3
           /\ IsFiniteSet(s) /\ Cardinality(s) \in 0..2
           /\ l \in partitions => s = {}
<1> USE SimNetworkAssumption DEF NetTypes
<1>1. CASE s = {}
    BY <1>1, FS_EmptySet
<1>2. CASE \E d \in 0..max_delay_ticks : s = {Scheduled(id, d, 1)} /\ ~is_cut(l)
    <2>1. PICK d \in 0..max_delay_ticks : s = {Scheduled(id, d, 1)} /\ ~is_cut(l)
        BY <1>2
    <2>2. IsFiniteSet(s) /\ Cardinality(s) = 1
        BY <2>1, FS_Singleton, Zenon
    <2> QED
        BY <2>1, <2>2 DEF Scheduled, is_cut
<1>3. CASE \E d \in 0..max_delay_ticks, e \in 1..3 :
               s = {Scheduled(id, d, 1), Scheduled(id, d + e, 2)} /\ ~is_cut(l)
    <2>1. PICK d \in 0..max_delay_ticks, e \in 1..3 :
              s = {Scheduled(id, d, 1), Scheduled(id, d + e, 2)} /\ ~is_cut(l)
        BY <1>3
    <2> DEFINE a == Scheduled(id, d, 1)
               b == Scheduled(id, d + e, 2)
    <2>2. s = {a} \cup {b}
        BY <2>1
    <2>3. IsFiniteSet({a}) /\ Cardinality({a}) = 1
        BY FS_Singleton, Zenon
    <2>4. IsFiniteSet({a} \cup {b}) /\ Cardinality({a} \cup {b}) \in {1, 2}
        <3> HIDE DEF a, b
        <3>1. /\ IsFiniteSet({a} \cup {b})
              /\ Cardinality({a} \cup {b}) =
                     IF b \in {a} THEN Cardinality({a}) ELSE Cardinality({a}) + 1
            BY <2>3, FS_AddElement, Zenon
        <3>2. Cardinality({a}) \in Nat /\ Cardinality({a}) + 1 = 2
            BY <2>3
        <3>3. CASE b \in {a}
            BY <2>3, <3>1, <3>3, Zenon
        <3>4. CASE b \notin {a}
            BY <3>1, <3>2, <3>4, Zenon
        <3> QED
            BY <3>3, <3>4
    <2>5. IsFiniteSet(s) /\ Cardinality(s) \in {1, 2}
        BY <2>2, <2>4, Zenon
    <2> QED
        BY <2>1, <2>5 DEF Scheduled, is_cut
<1> QED
    BY <1>1, <1>2, <1>3 DEF schedules
------------------------------------------------------------------------------
\* send adds its call to the history, and copies of its own message only.
LEMMA SendIs ==
    ASSUME NetInv, NEW l \in Link, send(l)
    PROVE  \E s : LET id == Len(calls) + 1 IN
               /\ in_flight' = in_flight \cup s
               /\ id \in Id /\ DOMAIN calls = 1..Len(calls) /\ Len(calls) \in Nat
               /\ DOMAIN calls' = DOMAIN calls \cup {id} /\ id \notin DOMAIN calls
               /\ calls' \in Seq([link : Link, at : Nat])
               /\ \A i \in DOMAIN calls : calls'[i] = calls[i]
               /\ calls'[id] = [link |-> l, at |-> tick_count]
               /\ s \subseteq [id : {id}, delivery_tick : Nat, copy : {1, 2}]
               /\ \A x \in s : x.delivery_tick <= tick_count + max_delay_ticks + 3
               /\ IsFiniteSet(s) /\ Cardinality(s) \in 0..2
               /\ l \in partitions => s = {}
<1> DEFINE id == Len(calls) + 1
<1>1. NetTypes /\ id \in Id /\ calls' = Append(calls, [link |-> l, at |-> tick_count])
    BY DEF NetInv, send
<1>2. PICK s \in schedules(l, id) : in_flight' = in_flight \cup s
    BY DEF send
<1>3. /\ s \subseteq [id : {id}, delivery_tick : Nat, copy : {1, 2}]
      /\ \A x \in s : x.delivery_tick <= tick_count + max_delay_ticks + 3
      /\ IsFiniteSet(s) /\ Cardinality(s) \in 0..2
      /\ l \in partitions => s = {}
    <2> HIDE DEF id
    <2> QED
        BY <1>1, <1>2, SchedulesFew
<1>4. calls \in Seq([link : Link, at : Nat]) /\ [link |-> l, at |-> tick_count] \in [link : Link, at : Nat]
    BY <1>1 DEF NetTypes
<1>5. /\ DOMAIN calls = 1..Len(calls) /\ Len(calls) \in Nat
      /\ DOMAIN calls' = DOMAIN calls \cup {id} /\ id \notin DOMAIN calls
      /\ calls' \in Seq([link : Link, at : Nat])
      /\ \A i \in DOMAIN calls : calls'[i] = calls[i]
      /\ calls'[id] = [link |-> l, at |-> tick_count]
    BY <1>1, <1>4
<1> WITNESS s
<1> HIDE DEF id
<1> QED
    BY <1>1, <1>2, <1>3, <1>5 DEF id

\* send keeps the invariant: the copies of the new message are the first.
LEMMA SendKeeps ==
    ASSUME NetInv, NEW l \in Link, send(l)
    PROVE  NetInv'
<1> DEFINE id == Len(calls) + 1
<1>1. PICK s :
          /\ in_flight' = in_flight \cup s
          /\ id \in Id /\ DOMAIN calls = 1..Len(calls) /\ Len(calls) \in Nat
          /\ DOMAIN calls' = DOMAIN calls \cup {id} /\ id \notin DOMAIN calls
          /\ calls' \in Seq([link : Link, at : Nat])
          /\ \A i \in DOMAIN calls : calls'[i] = calls[i]
          /\ calls'[id] = [link |-> l, at |-> tick_count]
          /\ s \subseteq [id : {id}, delivery_tick : Nat, copy : {1, 2}]
          /\ \A x \in s : x.delivery_tick <= tick_count + max_delay_ticks + 3
          /\ IsFiniteSet(s) /\ Cardinality(s) \in 0..2
          /\ l \in partitions => s = {}
    BY SendIs
<1> HIDE DEF id
<1>2. UNCHANGED <<partitions, tick_count, delivered, cut_at>>
    BY DEF send
<1>3. NetTypes /\ Timely /\ SentBeforeCut /\ TwoCopies
    BY DEF NetInv
<1>4. NetTypes'
    <2>1. IsFiniteSet(in_flight')
        BY <1>1, <1>3, FS_Union DEF NetTypes
    <2>2. in_flight' \subseteq [id : Id, delivery_tick : Nat, copy : {1, 2}]
        BY <1>1, <1>3 DEF NetTypes
    <2> QED
        BY <1>1, <1>2, <1>3, <2>1, <2>2 DEF NetTypes
<1>5. Timely'
    <2>1. ASSUME NEW x \in in_flight
          PROVE  /\ x.id \in DOMAIN calls'
                 /\ x.delivery_tick <= calls'[x.id].at + max_delay_ticks + 3
                 /\ tick_count' < calls'[x.id].at + max_delay_ticks + 3
        BY <1>1, <1>2, <1>3 DEF Timely
    <2>2. ASSUME NEW x \in s
          PROVE  /\ x.id \in DOMAIN calls'
                 /\ x.delivery_tick <= calls'[x.id].at + max_delay_ticks + 3
                 /\ tick_count' < calls'[x.id].at + max_delay_ticks + 3
        <3>1. x.id = id /\ calls'[x.id].at = tick_count
            BY <1>1
        <3> QED
            BY <1>1, <1>2, <1>3, <3>1, SimNetworkAssumption DEF NetTypes
    <2>3. ASSUME NEW i \in DOMAIN calls'
          PROVE  calls'[i].at <= tick_count'
        BY <1>1, <1>2, <1>3 DEF Timely, NetTypes
    <2> QED
        BY <1>1, <2>1, <2>2, <2>3 DEF Timely
<1>6. SentBeforeCut'
    <2> SUFFICES ASSUME NEW k \in partitions', NEW x \in in_flight', calls'[x.id].link = k
                 PROVE  calls'[x.id].at <= cut_at'[k]
        BY DEF SentBeforeCut
    <2>1. CASE x \in in_flight
        BY <1>1, <1>2, <1>3, <2>1 DEF SentBeforeCut, Timely
    <2>2. CASE x \in s
        <3>1. x.id = id /\ calls'[x.id].link = l
            BY <1>1, <2>2
        <3> QED
            BY <1>1, <1>2, <2>2, <3>1
    <2> QED
        BY <1>1, <2>1, <2>2
<1>7. TwoCopies'
    <2> SUFFICES ASSUME NEW i \in Id
                 PROVE  /\ delivered[i] + Cardinality(Flying(in_flight', i)) <= 2
                        /\ i \notin DOMAIN calls' => delivered[i] = 0
        BY <1>2, Zenon DEF TwoCopies
    <2>1. i \notin DOMAIN calls' => delivered[i] = 0
        BY <1>1, <1>3 DEF TwoCopies
    <2>2. CASE i # id
        <3>1. Flying(in_flight', i) = Flying(in_flight, i)
            BY <1>1, <2>2 DEF Flying
        <3> QED
            BY <1>3, <2>1, <3>1 DEF TwoCopies
    <2>3. CASE i = id
        <3>1. Flying(in_flight', i) = s
            BY <1>1, <1>3, <2>3 DEF Flying, Timely
        <3>2. delivered[i] = 0
            BY <1>1, <1>3, <2>3 DEF TwoCopies
        <3> QED
            BY <1>1, <2>1, <3>1, <3>2
    <2> QED
        BY <2>2, <2>3
<1> QED
    BY <1>4, <1>5, <1>6, <1>7 DEF NetInv

\* Cutting a link: everything under way on it was sent by now.
LEMMA PartitionKeeps ==
    ASSUME NetInv, NEW l \in Link, partition(l)
    PROVE  NetInv'
<1>1. NetTypes'
    BY DEF NetInv, NetTypes, partition
<1>2. Timely' /\ TwoCopies'
    BY DEF NetInv, Timely, TwoCopies, partition
<1>3. SentBeforeCut'
    <2> SUFFICES ASSUME NEW k \in partitions', NEW x \in in_flight, calls[x.id].link = k
                 PROVE  calls[x.id].at <= cut_at'[k]
        BY DEF SentBeforeCut, partition
    <2>1. CASE k = l
        BY <2>1 DEF NetInv, NetTypes, Timely, partition
    <2>2. CASE k # l
        BY <2>2 DEF NetInv, NetTypes, SentBeforeCut, partition
    <2> QED
        BY <2>1, <2>2
<1> QED
    BY <1>1, <1>2, <1>3 DEF NetInv

\* heal_all leaves no link cut.
LEMMA HealKeeps ==
    ASSUME NetInv, heal_all
    PROVE  NetInv'
BY DEF NetInv, NetTypes, Timely, SentBeforeCut, TwoCopies, heal_all

\* A step of the clock moves copies from in_flight to delivered, and what stays
\* under way is scheduled for later.
LEMMA StepIs ==
    ASSUME NetInv, step
    PROVE  \E due \in SUBSET in_flight :
               /\ in_flight' = in_flight \ due
               /\ \A s \in in_flight' : tick_count' < s.delivery_tick
               /\ \A i \in Id :
                      /\ Cardinality(Flying(in_flight, i)) \in Nat
                      /\ Cardinality(Flying(due, i)) \in Nat
                      /\ Cardinality(Flying(in_flight', i)) \in Nat
                      /\ Cardinality(Flying(in_flight, i))
                            = Cardinality(Flying(due, i)) + Cardinality(Flying(in_flight', i))
                      /\ delivered'[i] = delivered[i] + Cardinality(Flying(due, i))
               /\ delivered' \in [Id -> Nat]
<1>1. PICK r \in drain_due(in_flight, tick_count') :
          /\ in_flight' = r.rest
          /\ delivered' = [i \in Id |-> delivered[i] + Cardinality({s \in r.due : s.id = i})]
    BY DEF step
<1>2. /\ tick_count' \in Nat /\ \A s \in in_flight : s.delivery_tick \in Nat
      /\ IsFiniteSet(in_flight) /\ delivered \in [Id -> Nat]
    BY DEF NetInv, NetTypes, step
<1>3. /\ r.due \subseteq in_flight /\ r.rest = in_flight \ r.due
      /\ \A s \in r.rest : tick_count' < s.delivery_tick
    BY <1>2, DrainTakesAllDue
<1> DEFINE due == r.due
<1>4. due \in SUBSET in_flight /\ in_flight' = in_flight \ due
    BY <1>1, <1>3
<1>5. \A i \in Id : delivered'[i] = delivered[i] + Cardinality(Flying(due, i))
    BY <1>1 DEF Flying
<1>6. DOMAIN delivered' = Id /\ delivered' = [i \in Id |-> delivered'[i]]
    BY <1>1
<1> HIDE DEF due
<1>7. \A i \in Id :
          /\ Cardinality(Flying(in_flight, i)) \in Nat
          /\ Cardinality(Flying(due, i)) \in Nat
          /\ Cardinality(Flying(in_flight', i)) \in Nat
          /\ Cardinality(Flying(in_flight, i))
                = Cardinality(Flying(due, i)) + Cardinality(Flying(in_flight', i))
    BY <1>2, <1>4, FlyingSplits
<1>8. \A i \in Id : delivered'[i] \in Nat
    BY <1>2, <1>5, <1>7
<1>9. delivered' \in [Id -> Nat]
    BY <1>6, <1>8
<1>10. \A s \in in_flight' : tick_count' < s.delivery_tick
    BY <1>1, <1>3
<1>11. \A i \in Id :
          /\ Cardinality(Flying(in_flight, i)) \in Nat
          /\ Cardinality(Flying(due, i)) \in Nat
          /\ Cardinality(Flying(in_flight', i)) \in Nat
          /\ Cardinality(Flying(in_flight, i))
                = Cardinality(Flying(due, i)) + Cardinality(Flying(in_flight', i))
          /\ delivered'[i] = delivered[i] + Cardinality(Flying(due, i))
    BY <1>5, <1>7, Zenon
<1> QED
    BY <1>4, <1>9, <1>10, <1>11, Zenon

\* The step keeps the invariant: what remains is not due, hence not overdue.
LEMMA StepKeeps ==
    ASSUME NetInv, step
    PROVE  NetInv'
<1>1. PICK due \in SUBSET in_flight :
          /\ in_flight' = in_flight \ due
          /\ \A s \in in_flight' : tick_count' < s.delivery_tick
          /\ \A i \in Id :
                 /\ Cardinality(Flying(in_flight, i)) \in Nat
                 /\ Cardinality(Flying(due, i)) \in Nat
                 /\ Cardinality(Flying(in_flight', i)) \in Nat
                 /\ Cardinality(Flying(in_flight, i))
                       = Cardinality(Flying(due, i)) + Cardinality(Flying(in_flight', i))
                 /\ delivered'[i] = delivered[i] + Cardinality(Flying(due, i))
          /\ delivered' \in [Id -> Nat]
    BY StepIs
<1>2. tick_count' = tick_count + 1 /\ UNCHANGED <<partitions, calls, cut_at>>
    BY DEF step
<1>3. NetTypes /\ Timely /\ SentBeforeCut /\ TwoCopies
    BY DEF NetInv
<1>4. NetTypes'
    <2>1. IsFiniteSet(in_flight')
        BY <1>1, <1>3, FS_Difference DEF NetTypes
    <2> QED
        BY <1>1, <1>2, <1>3, <2>1 DEF NetTypes
<1>5. Timely'
    <2>1. \A i \in DOMAIN calls : calls[i].at \in Nat
        BY <1>3, CallTyped
    <2>2. ASSUME NEW x \in in_flight'
          PROVE  /\ x.id \in DOMAIN calls
                 /\ x.delivery_tick <= calls[x.id].at + max_delay_ticks + 3
                 /\ tick_count' < calls[x.id].at + max_delay_ticks + 3
        <3>1. x \in in_flight /\ tick_count' < x.delivery_tick
            BY <1>1
        <3>2. tick_count' \in Nat /\ x.delivery_tick \in Nat
            BY <1>2, <1>3, <3>1 DEF NetTypes
        <3>3. x.id \in DOMAIN calls /\ x.delivery_tick <= calls[x.id].at + max_delay_ticks + 3
            BY <1>3, <3>1 DEF Timely
        <3> QED
            BY <2>1, <3>1, <3>2, <3>3, SimNetworkAssumption
    <2>3. tick_count \in Nat /\ \A i \in DOMAIN calls : calls[i].at <= tick_count
        BY <1>3 DEF NetTypes, Timely
    <2>4. \A i \in DOMAIN calls : calls[i].at <= tick_count'
        BY <1>2, <2>1, <2>3
    <2> QED
        BY <1>2, <2>2, <2>4 DEF Timely
<1>6. SentBeforeCut'
    BY <1>1, <1>2, <1>3 DEF SentBeforeCut
<1>7. TwoCopies'
    <2> SUFFICES ASSUME NEW i \in Id
                 PROVE  /\ delivered'[i] + Cardinality(Flying(in_flight', i)) <= 2
                        /\ i \notin DOMAIN calls => delivered'[i] = 0
        BY <1>2, Zenon DEF TwoCopies
    <2>1. delivered[i] \in Nat
        BY <1>3 DEF NetTypes
    <2> DEFINE all == Cardinality(Flying(in_flight, i))
               out == Cardinality(Flying(due, i))
               left == Cardinality(Flying(in_flight', i))
    <2>4. /\ all \in Nat /\ out \in Nat /\ left \in Nat
          /\ all = out + left /\ delivered'[i] = delivered[i] + out
        BY <1>1, Zenon
    <2>2. delivered'[i] + left = delivered[i] + all
        <3> HIDE DEF all, out, left
        <3> QED
            BY <2>1, <2>4
    <2>3. ASSUME i \notin DOMAIN calls
          PROVE  delivered'[i] = 0
        <3>1. Flying(due, i) = {} /\ delivered[i] = 0
            BY <1>1, <1>3, <2>3 DEF Flying, Timely, TwoCopies
        <3>2. out = 0
            BY <3>1, FS_EmptySet, Zenon
        <3> QED
            BY <2>4, <3>1, <3>2
    <2> QED
        BY <1>3, <2>2, <2>3 DEF TwoCopies
<1> QED
    BY <1>4, <1>5, <1>6, <1>7 DEF NetInv
------------------------------------------------------------------------------
\* The network starts empty.
LEMMA NetInit == Init => NetInv
<1> SUFFICES ASSUME Init PROVE NetInv
    OBVIOUS
<1>1. NetTypes /\ Timely /\ SentBeforeCut
    BY FS_EmptySet DEF Init, NetTypes, Timely, SentBeforeCut
<1>2. \A i \in Id : Flying(in_flight, i) = {} /\ delivered[i] = 0
    BY DEF Init, Flying
<1>3. TwoCopies
    BY <1>2, FS_EmptySet DEF TwoCopies
<1> QED
    BY <1>1, <1>3 DEF NetInv

\* Every step keeps the invariant.
LEMMA NetStep == NetInv /\ [Next]_vars => NetInv'
<1> SUFFICES ASSUME NetInv, [Next]_vars PROVE NetInv'
    OBVIOUS
<1>1. ASSUME NEW l \in Link, send(l) PROVE NetInv'
    BY <1>1, SendKeeps
<1>2. ASSUME NEW l \in Link, partition(l) PROVE NetInv'
    BY <1>2, PartitionKeeps
<1>3. CASE heal_all
    BY <1>3, HealKeeps
<1>4. CASE step
    BY <1>4, StepKeeps
<1>5. CASE UNCHANGED vars
    BY <1>5 DEF vars, NetInv, NetTypes, Timely, SentBeforeCut, TwoCopies
<1> QED
    BY <1>1, <1>2, <1>3, <1>4, <1>5 DEF Next

\* The inductive invariant holds throughout.
LEMMA NetAlways == Spec => []NetInv
BY NetInit, NetStep, PTL DEF Spec

\* network.rs:72 and :82, for every max_delay_ticks: no message is under way
\* later than max_delay_ticks + 3 ticks after its send.
THEOREM NothingStaysOverdue == Spec => []NothingOverdue
<1>1. NetInv => NothingOverdue
    BY DEF NetInv, Timely, NothingOverdue
<1> QED
    BY <1>1, NetAlways, PTL

\* network.rs:93: what a link carries after it was cut was sent before, so that
\* after max_delay_ticks + 3 ticks it carries nothing.
THEOREM CutLinksFallSilent == Spec => []CutLinkFallsSilent
<1>1. NetInv => CutLinkFallsSilent
    <2> SUFFICES ASSUME NetInv, NEW l \in partitions,
                        tick_count >= cut_at[l] + max_delay_ticks + 3,
                        NEW s \in in_flight, calls[s.id].link = l
                 PROVE  FALSE
        BY DEF CutLinkFallsSilent
    <2>1. tick_count < calls[s.id].at + max_delay_ticks + 3 /\ calls[s.id].at <= cut_at[l]
        BY DEF NetInv, Timely, SentBeforeCut
    <2>2. calls[s.id].at \in Nat
        BY CallTyped DEF NetInv, Timely
    <2>4. cut_at[l] \in Nat /\ tick_count \in Nat
        BY DEF NetInv, NetTypes
    <2> QED
        BY <2>1, <2>2, <2>4, SimNetworkAssumption
<1> QED
    BY <1>1, NetAlways, PTL
------------------------------------------------------------------------------
\* The refinement mapping's count of copies under way.
Copies(heap) == [i \in Id |-> Cardinality({s \in heap : s.id = i})]

\* send is a Send of the abstract network, with as many copies as it schedules.
LEMMA SendRefines ==
    ASSUME NetInv, NEW l \in Link, send(l)
    PROVE  Channel!NetworkNext
<1> DEFINE id == Len(calls) + 1
<1>1. PICK s :
          /\ in_flight' = in_flight \cup s
          /\ id \in Id /\ DOMAIN calls = 1..Len(calls) /\ Len(calls) \in Nat
          /\ DOMAIN calls' = DOMAIN calls \cup {id} /\ id \notin DOMAIN calls
          /\ calls' \in Seq([link : Link, at : Nat])
          /\ \A i \in DOMAIN calls : calls'[i] = calls[i]
          /\ calls'[id] = [link |-> l, at |-> tick_count]
          /\ s \subseteq [id : {id}, delivery_tick : Nat, copy : {1, 2}]
          /\ \A x \in s : x.delivery_tick <= tick_count + max_delay_ticks + 3
          /\ IsFiniteSet(s) /\ Cardinality(s) \in 0..2
          /\ l \in partitions => s = {}
    BY SendIs
<1> HIDE DEF id
<1>2. \A i \in Id : i # id => {x \in in_flight' : x.id = i} = {x \in in_flight : x.id = i}
    BY <1>1
<1>3. {x \in in_flight' : x.id = id} = s
    BY <1>1 DEF NetInv, Timely
<1>4. Copies(in_flight') = [Copies(in_flight) EXCEPT ![id] = Cardinality(s)]
    BY <1>1, <1>2, <1>3 DEF Copies
<1>5. UNCHANGED delivered
    BY DEF send
<1>6. Channel!Send(id)
    BY <1>1, <1>4, <1>5 DEF Channel!Send, Copies
<1> QED
    BY <1>1, <1>6 DEF Channel!NetworkNext

\* A step of the clock is a Pass: what is drained has arrived.
LEMMA StepRefines ==
    ASSUME NetInv, NetInv', step
    PROVE  Channel!NetworkNext
<1>1. PICK due \in SUBSET in_flight :
          /\ in_flight' = in_flight \ due
          /\ \A s \in in_flight' : tick_count' < s.delivery_tick
          /\ \A i \in Id :
                 /\ Cardinality(Flying(in_flight, i)) \in Nat
                 /\ Cardinality(Flying(due, i)) \in Nat
                 /\ Cardinality(Flying(in_flight', i)) \in Nat
                 /\ Cardinality(Flying(in_flight, i))
                       = Cardinality(Flying(due, i)) + Cardinality(Flying(in_flight', i))
                 /\ delivered'[i] = delivered[i] + Cardinality(Flying(due, i))
          /\ delivered' \in [Id -> Nat]
    BY StepIs
<1>2. \A i \in Id : /\ Copies(in_flight)[i] = Cardinality(Flying(in_flight, i))
                    /\ Copies(in_flight')[i] = Cardinality(Flying(in_flight', i))
    BY DEF Copies, Flying
<1>3. ASSUME NEW i \in Id
      PROVE  /\ delivered'[i] \in 0..2 /\ Copies(in_flight')[i] \in 0..2
             /\ Copies(in_flight')[i] <= Copies(in_flight)[i]
             /\ delivered'[i] \in
                    delivered[i] .. (delivered[i] + Copies(in_flight)[i] - Copies(in_flight')[i])
    <2> DEFINE all == Cardinality(Flying(in_flight, i))
               out == Cardinality(Flying(due, i))
               left == Cardinality(Flying(in_flight', i))
    <2>1. /\ all \in Nat /\ out \in Nat /\ left \in Nat
          /\ all = out + left /\ delivered'[i] = delivered[i] + out
        BY <1>1, Zenon
    <2>2. delivered'[i] + left <= 2
        BY DEF NetInv, TwoCopies
    <2>3. delivered[i] \in Nat /\ delivered'[i] \in Nat
        BY DEF NetInv, NetTypes
    <2>4. Copies(in_flight)[i] = all /\ Copies(in_flight')[i] = left
        BY <1>2
    <2> HIDE DEF all, out, left
    <2> QED
        BY <2>1, <2>2, <2>3, <2>4
<1>4. Copies(in_flight') \in [Id -> 0..2]
    BY <1>3 DEF Copies
<1>5. delivered' \in [Id -> 0..2]
    BY <1>1, <1>3
<1>6. UNCHANGED calls
    BY DEF step
<1>7. Channel!Pass
    <2> SUFFICES /\ Copies(in_flight') \in [Id -> 0..2]
                 /\ delivered' \in [Id -> 0..2]
                 /\ \A i \in Id :
                        /\ Copies(in_flight')[i] <= Copies(in_flight)[i]
                        /\ delivered'[i] \in delivered[i] ..
                               (delivered[i] + Copies(in_flight)[i] - Copies(in_flight')[i])
                 /\ DOMAIN calls' = DOMAIN calls
        BY Zenon DEF Channel!Pass, Copies
    <2> QED
        BY <1>3, <1>4, <1>5, <1>6
<1> QED
    BY <1>7 DEF Channel!NetworkNext

\* SimNetwork implements LossyNetwork, for every set of nodes, delay and number
\* of messages: nothing comes out of drain_due that send was not called with,
\* and no message a third time, however ticks, cuts, losses and duplicates are
\* mixed.
THEOREM NetworkRefinement == Spec => ImplementsLossyNetwork
<1>1. Init => Channel!NetworkInit
    <2> SUFFICES ASSUME Init PROVE Channel!NetworkInit
        OBVIOUS
    <2>1. DOMAIN calls = {} /\ delivered = [i \in Id |-> 0]
        BY DEF Init
    <2>2. \A i \in Id : {s \in in_flight : s.id = i} = {}
        BY DEF Init
    <2>3. [i \in Id |-> Cardinality({s \in in_flight : s.id = i})] = [i \in Id |-> 0]
        BY <2>2, FS_EmptySet
    <2> QED
        BY <2>1, <2>3 DEF Channel!NetworkInit
<1>2. NetInv /\ NetInv' /\ [Next]_vars => [Channel!NetworkNext]_(Channel!networkVars)
    <2> SUFFICES ASSUME NetInv, NetInv', [Next]_vars
                 PROVE  Channel!NetworkNext \/ UNCHANGED Channel!networkVars
        OBVIOUS
    <2>1. ASSUME NEW l \in Link, send(l) PROVE Channel!NetworkNext
        BY <2>1, SendRefines
    <2>2. ASSUME NEW l \in Link, partition(l) PROVE UNCHANGED Channel!networkVars
        BY <2>2 DEF partition, Channel!networkVars
    <2>3. CASE heal_all
        BY <2>3 DEF heal_all, Channel!networkVars
    <2>4. CASE step
        BY <2>4, StepRefines
    <2>5. CASE UNCHANGED vars
        BY <2>5 DEF vars, Channel!networkVars
    <2> QED
        BY <2>1, <2>2, <2>3, <2>4, <2>5 DEF Next
<1> QED
    BY <1>1, <1>2, NetAlways, PTL DEF Spec, ImplementsLossyNetwork, Channel!NetworkSpec
==============================================================================
