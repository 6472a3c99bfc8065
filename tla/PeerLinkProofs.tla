--------------------------- MODULE PeerLinkProofs ----------------------------
(***************************************************************************)
(* Proofs about PeerLink, for every number of messages and kills, with     *)
(* frames cut anywhere and buffers of any size: it implements LossyNetwork *)
(* for the messages of the nodes, and those of one stream are handed over  *)
(* in the order in which they were sent.                                   *)
(***************************************************************************)
EXTENDS PeerLink, FiniteSetTheorems, SequenceTheorems, TLAPS

Cell == Id \X (1..4)

\* The types of the link's state.
LinkTypes ==
    /\ peer \in Conn \cup {0} /\ writing \in Conn \cup {0}
    /\ cells \in [Conn -> Seq(Cell)]
    /\ arrived \in [Conn -> Nat]
    /\ \A c \in Conn : arrived[c] <= Len(cells[c])
    /\ calls \in Seq(Conn \cup {0}) /\ Len(calls) <= MaxMsgs
    /\ received \in Seq(Conn \X (Id \cup {Bogus}))

\* What is in a stream was sent on it, and frames end in the order of their
\* messages.
StreamsInOrder ==
    \A c \in Conn :
        /\ \A k \in DOMAIN cells[c] :
               cells[c][k][1] \in DOMAIN calls /\ calls[cells[c][k][1]] = c
        /\ \A j, k \in DOMAIN cells[c] :
               j < k /\ cells[c][j][2] = 4 /\ cells[c][k][2] = 4
               => cells[c][j][1] < cells[c][k][1]

\* A message that was handed over was sent on the stream it came from, and the
\* frames whose end is still in that stream are later ones.
TakenInOrder ==
    \A i \in DOMAIN received :
        received[i][2] # Bogus =>
            /\ received[i][2] \in DOMAIN calls
            /\ calls[received[i][2]] = received[i][1]
            /\ \A k \in DOMAIN cells[received[i][1]] :
                   cells[received[i][1]][k][2] = 4
                   => received[i][2] < cells[received[i][1]][k][1]

\* The end of message m is in stream c.
Ended(c, m) == \E k \in DOMAIN cells[c] : cells[c][k] = <<m, 4>>

\* A payload not yet written is that of the last message, whose end is nowhere.
RestIsLast ==
    writing # 0 =>
        /\ Len(calls) \in DOMAIN calls /\ calls[Len(calls)] = writing
        /\ \A c \in Conn : ~Ended(c, Len(calls))
        /\ \A i \in DOMAIN received : received[i][2] # Len(calls)

LinkInv == LinkTypes /\ StreamsInOrder /\ TakenInOrder /\ OnceAndInOrder /\ RestIsLast
------------------------------------------------------------------------------
(* The codec                                                                *)

\* A write appends a prefix of the data, all of it exactly when it succeeds.
LEMMA WriteAllIs ==
    ASSUME NEW cs \in Seq(Cell), NEW data \in Seq(Cell), Len(data) = 2
    PROVE  \E n \in 0..2 :
               /\ write_all(cs, data).ok <=> n = 2
               /\ write_all(cs, data).cells \in Seq(Cell)
               /\ Len(write_all(cs, data).cells) = Len(cs) + n
               /\ \A k \in 1..Len(cs) : write_all(cs, data).cells[k] = cs[k]
               /\ \A k \in 1..n : write_all(cs, data).cells[Len(cs) + k] = data[k]
<1> DEFINE room == Window - Len(cs)
           want == IF Len(data) < room THEN Len(data) ELSE room
           n == IF want < 0 THEN 0 ELSE want
           part == SubSeq(data, 1, want)
<1>1. /\ Len(cs) \in Nat /\ Len(data) \in Nat /\ Window \in Nat
      /\ n \in 0..Len(data) /\ want \in Int /\ want <= Len(data)
    BY PeerLinkAssumption
<1>2. part \in Seq(Cell) /\ Len(part) = n /\ \A k \in 1..n : part[k] = data[k]
    <2>1. (n = IF want < 0 THEN 0 ELSE want)
        OBVIOUS
    <2> HIDE DEF want, n
    <2>2. \A i \in 1..want : i \in 1..Len(data)
        BY <1>1
    <2>3. \A i \in 1..Len(data) : data[i] \in Cell
        BY ElementOfSeq
    <2>4. \A i \in 1..want : data[i] \in Cell
        BY <2>2, <2>3
    <2> QED
        BY <1>1, <2>1, <2>4, SubSeqProperties
<1>3. write_all(cs, data) = [ok |-> want = Len(data), cells |-> cs \o part]
    BY DEF write_all
<1>4. (want = Len(data)) <=> (n = 2)
    BY <1>1
<1>5. /\ write_all(cs, data).ok <=> want = Len(data)
      /\ write_all(cs, data).cells = cs \o part
    <2> HIDE DEF want, part
    <2>1. ASSUME NEW x \in BOOLEAN, NEW y
          PROVE  [ok |-> x, cells |-> y].ok = x /\ [ok |-> x, cells |-> y].cells = y
        OBVIOUS
    <2>2. (want = Len(data)) \in BOOLEAN
        OBVIOUS
    <2> QED
        BY <1>3, <2>1, <2>2, Zenon
<1> HIDE DEF part, n, want
<1>6. /\ cs \o part \in Seq(Cell) /\ Len(cs \o part) = Len(cs) + n
      /\ \A i \in 1..(Len(cs) + n) :
             (cs \o part)[i] = IF i <= Len(cs) THEN cs[i] ELSE part[i - Len(cs)]
    BY <1>2, ConcatProperties
<1>7. /\ \A k \in 1..Len(cs) : (cs \o part)[k] = cs[k]
      /\ \A k \in 1..n : (cs \o part)[Len(cs) + k] = data[k]
    BY <1>1, <1>2, <1>6
<1>8. n \in 0..2
    BY <1>1
<1> QED
    BY <1>4, <1>5, <1>6, <1>7, <1>8

\* Half a frame written to stream c leaves what was in the streams and adds cells
\* of its message to c, of which only the last of the payload ends the frame.
LEMMA WritesIs ==
    ASSUME cells \in [Conn -> Seq(Cell)], NEW c \in Conn, NEW m \in Id, NEW p \in {0, 2},
           NEW data \in Seq(Cell), Len(data) = 2, \A k \in 1..2 : data[k] = <<m, p + k>>,
           Writes(c, write_all(cells[c], data))
    PROVE  /\ cells' \in [Conn -> Seq(Cell)]
           /\ \A e \in Conn :
                  /\ Len(cells[e]) <= Len(cells'[e])
                  /\ \A k \in DOMAIN cells[e] : /\ k \in DOMAIN cells'[e]
                                                /\ cells'[e][k] = cells[e][k]
                  /\ \A k \in DOMAIN cells'[e] \ DOMAIN cells[e] :
                         /\ e = c /\ cells'[e][k][1] = m
                         /\ cells'[e][k][2] = 4 => p = 2 /\ k = Len(cells'[e])
                         /\ \A j \in DOMAIN cells[e] : j < k
<1> DEFINE s == cells[c]
           w == write_all(s, data).cells
<1>1. s \in Seq(Cell) /\ Len(s) \in Nat /\ DOMAIN s = 1..Len(s)
    OBVIOUS
<1>2. PICK n \in 0..2 :
          /\ w \in Seq(Cell) /\ Len(w) = Len(s) + n
          /\ \A k \in 1..Len(s) : w[k] = s[k]
          /\ \A k \in 1..n : w[Len(s) + k] = data[k]
    <2> HIDE DEF s
    <2> QED
        BY <1>1, WriteAllIs, Zenon
<1>3. \/ cells' = cells
      \/ cells' = [cells EXCEPT ![c] = w]
    BY DEF Writes
<1> HIDE DEF s, w
<1>4. DOMAIN w = 1..Len(w)
    BY <1>2
<1>5. ASSUME NEW k \in DOMAIN w \ DOMAIN s
      PROVE  /\ w[k][1] = m
             /\ w[k][2] = 4 => p = 2 /\ k = Len(w)
             /\ \A j \in DOMAIN s : j < k
    <2>1. k - Len(s) \in 1..n /\ Len(s) + (k - Len(s)) = k /\ \A j \in DOMAIN s : j < k
        BY <1>1, <1>2, <1>4
    <2>2. k - Len(s) \in 1..2
        BY <2>1
    <2>3. w[k] = <<m, p + (k - Len(s))>>
        BY <1>2, <2>1, <2>2
    <2>4. p + (k - Len(s)) = 4 => p = 2 /\ k = Len(w)
        <3> DEFINE l == Len(s)
        <3>1. l \in Nat /\ k - l \in 1..2 /\ k - l \in 1..n /\ l + (k - l) = k
            BY <1>1, <2>1, <2>2
        <3>2. Len(w) = l + n /\ k \in Nat
            BY <1>2, <1>4
        <3> HIDE DEF l
        <3>3. p + (k - l) = 4 => p = 2 /\ k - l = 2
            BY <3>1, <3>2
        <3>4. k - l = 2 => k = l + n
            BY <3>1, <3>2
        <3> QED
            BY <3>2, <3>3, <3>4 DEF l
    <2> QED
        BY <2>1, <2>3, <2>4
<1>6. Len(s) <= Len(w) /\ \A k \in DOMAIN s : k \in DOMAIN w /\ w[k] = s[k]
    BY <1>1, <1>2, <1>4
<1>7. CASE cells' = cells
    BY <1>7
<1>8. CASE cells' = [cells EXCEPT ![c] = w]
    <2>1. cells' \in [Conn -> Seq(Cell)]
        BY <1>2, <1>8
    <2>2. cells'[c] = w /\ cells[c] = s
        BY <1>8 DEF s
    <2>3. ASSUME NEW e \in Conn, e # c PROVE cells'[e] = cells[e]
        BY <1>8, <2>3
    <2> QED
        BY <1>5, <1>6, <2>1, <2>2, <2>3
<1> QED
    BY <1>3, <1>7, <1>8

\* read_exact takes the first n cells, or all there are.
LEMMA ReadExactIs ==
    ASSUME NEW cs \in Seq(Cell), NEW n \in Nat, NEW eof
    PROVE  LET r == read_exact(cs, n, eof)
           IN  /\ r.result = "Ok" => /\ n <= Len(cs)
                                     /\ r.got = SubSeq(cs, 1, n)
                                     /\ r.rest = SubSeq(cs, n + 1, Len(cs))
               /\ r.result # "Ok" => r.rest = << >>
<1>1. CASE Len(cs) < n
    BY <1>1 DEF read_exact
<1>2. CASE ~(Len(cs) < n)
    BY <1>2 DEF read_exact
<1> QED
    BY <1>1, <1>2

\* Cutting a front off a sequence shifts it.
LEMMA DropFront ==
    ASSUME NEW S, NEW s \in Seq(S), NEW d \in 0..Len(s)
    PROVE  /\ SubSeq(s, d + 1, Len(s)) \in Seq(S)
           /\ Len(SubSeq(s, d + 1, Len(s))) = Len(s) - d
           /\ \A k \in 1..(Len(s) - d) : SubSeq(s, d + 1, Len(s))[k] = s[d + k]
<1>1. \A i \in (d + 1)..Len(s) : s[i] \in S
    BY ElementOfSeq
<1>2. Len(s) \in Nat
    OBVIOUS
<1>3. /\ SubSeq(s, d + 1, Len(s)) \in Seq(S)
      /\ Len(SubSeq(s, d + 1, Len(s)))
             = IF d + 1 <= Len(s) THEN Len(s) - (d + 1) + 1 ELSE 0
      /\ \A i \in 1..(Len(s) - (d + 1) + 1) :
             SubSeq(s, d + 1, Len(s))[i] = s[(d + 1) + i - 1]
    BY <1>1, <1>2, SubSeqProperties
<1> QED
    BY <1>2, <1>3

\* A payload at the front of some cells puts the end of its frame second.
LEMMA PayloadPrefix ==
    ASSUME NEW p \in Seq(Cell), NEW m, IsPrefix(payload(m), p)
    PROVE  2 <= Len(p) /\ p[2] = <<m, 4>>
<1>1. payload(m)[2] = <<m, 4>> /\ Len(payload(m)) = 2
    BY DEF payload
<1>2. 2 <= Len(p) /\ SubSeq(payload(m), 1, 2) = SubSeq(p, 1, 2)
    BY <1>1 DEF IsPrefix
<1>3. SubSeq(payload(m), 1, 2)[2] = payload(m)[2]
    BY DEF payload
<1>4. SubSeq(p, 1, 2)[2] = p[2]
    BY <1>2
<1> QED
    BY <1>1, <1>2, <1>3, <1>4

\* recv_framed_msg leaves a suffix of what has arrived, and a message somebody
\* sent comes out only along with the end of its frame.
LEMMA RecvFramedIs ==
    ASSUME NEW cs \in Seq(Cell), NEW eof, NEW r \in recv_framed_msg(cs, eof)
    PROVE  \E d \in 0..Len(cs) :
               /\ r.rest = SubSeq(cs, d + 1, Len(cs))
               /\ r.result = "Ok" =>
                      \/ r.msg = Bogus
                      \/ r.msg \in Id /\ 4 <= d /\ cs[4] = <<r.msg, 4>>
<1> DEFINE h == read_exact(cs, 2, eof)
           after(len) == read_exact(h.rest, len, eof)
<1>1. /\ Len(cs) \in Nat /\ Len(cs) \in 0..Len(cs)
      /\ SubSeq(cs, Len(cs) + 1, Len(cs)) = << >>
    BY SubSeqEmpty
<1>2. CASE h.result # "Ok"
    <2>1. r = h
        BY <1>2 DEF recv_framed_msg
    <2>2. r.rest = << >>
        BY <2>1, <1>2, ReadExactIs
    <2> QED
        BY <1>1, <1>2, <2>1, <2>2, Zenon
<1>3. CASE h.result = "Ok"
    <2>1. /\ 2 <= Len(cs)
          /\ h.rest = SubSeq(cs, 3, Len(cs)) /\ h.got = SubSeq(cs, 1, 2)
        <3>1. /\ 2 <= Len(cs) /\ h.rest = SubSeq(cs, 2 + 1, Len(cs))
              /\ h.got = SubSeq(cs, 1, 2)
            BY <1>3, ReadExactIs
        <3> QED
            BY <3>1
    <2> DEFINE t == SubSeq(cs, 3, Len(cs))
    <2>2. /\ t \in Seq(Cell) /\ Len(t) = Len(cs) - 2
          /\ \A k \in 1..(Len(cs) - 2) : t[k] = cs[2 + k]
        <3>1. 2 \in 0..Len(cs) /\ 2 + 1 = 3
            BY <1>1, <2>1
        <3> QED
            BY <3>1, DropFront
    <2>3. \A len \in lengths(h.got) : len \in Nat
        BY PeerLinkAssumption DEF lengths
    <2>4. \/ \E len \in lengths(h.got) : r = after(len) /\ after(len).result # "Ok"
          \/ \E len \in lengths(h.got) : /\ after(len).result = "Ok"
                 /\ \E m \in decodings(after(len).got) :
                        r = [result |-> IF m = Invalid THEN "InvalidData" ELSE "Ok",
                             msg |-> m, rest |-> after(len).rest]
        <3> HIDE DEF h
        <3> QED
            BY <1>3, Zenon DEF recv_framed_msg, h
    <2>5. CASE \E len \in lengths(h.got) : r = after(len) /\ after(len).result # "Ok"
        <3>1. PICK len \in Nat : r = read_exact(t, len, eof) /\ r.result # "Ok"
            BY <2>1, <2>3, <2>5
        <3>2. r.rest = << >>
            BY <2>2, <3>1, ReadExactIs
        <3> QED
            BY <1>1, <3>1, <3>2, Zenon
    <2>6. ASSUME NEW len \in lengths(h.got), after(len).result = "Ok",
                 NEW m \in decodings(after(len).got),
                 r = [result |-> IF m = Invalid THEN "InvalidData" ELSE "Ok",
                      msg |-> m, rest |-> after(len).rest]
          PROVE  \E d \in 0..Len(cs) :
                     /\ r.rest = SubSeq(cs, d + 1, Len(cs))
                     /\ r.result = "Ok" =>
                            \/ r.msg = Bogus
                            \/ r.msg \in Id /\ 4 <= d /\ cs[4] = <<r.msg, 4>>
        <3> DEFINE p == after(len).got
        <3>1. /\ len \in Nat /\ len <= Len(t)
              /\ p = SubSeq(t, 1, len)
              /\ after(len).rest = SubSeq(t, len + 1, Len(t))
            <4>1. len \in Nat /\ after(len) = read_exact(t, len, eof)
                BY <2>1, <2>3
            <4>2. read_exact(t, len, eof).result = "Ok"
                BY <2>6, <4>1
            <4>3. /\ len <= Len(t)
                  /\ read_exact(t, len, eof).got = SubSeq(t, 1, len)
                  /\ read_exact(t, len, eof).rest = SubSeq(t, len + 1, Len(t))
                <5> HIDE DEF t
                <5> QED
                    BY <2>2, <4>1, <4>2, ReadExactIs
            <4> QED
                BY <4>1, <4>3, Zenon
        <3>2. /\ p \in Seq(Cell) /\ Len(p) = len
              /\ \A k \in 1..len : p[k] = t[k]
            <4>1. \A k \in 1..len : t[k] \in Cell
                BY <2>2, <3>1, ElementOfSeq
            <4>2. /\ SubSeq(t, 1, len) \in Seq(Cell)
                  /\ Len(SubSeq(t, 1, len)) = IF 1 <= len THEN len - 1 + 1 ELSE 0
                  /\ \A i \in 1..(len - 1 + 1) : SubSeq(t, 1, len)[i] = t[1 + i - 1]
                BY <3>1, <4>1, SubSeqProperties
            <4> HIDE DEF p, t
            <4> QED
                BY <3>1, <4>2
        <3>3. SubSeq(t, len + 1, Len(t)) = SubSeq(cs, (2 + len) + 1, Len(cs))
            <4>1. /\ len \in 0..Len(t) /\ 2 + len \in 0..Len(cs) /\ Len(cs) - (2 + len) = Len(t) - len
                BY <1>1, <2>1, <2>2, <3>1
            <4> DEFINE u == SubSeq(t, len + 1, Len(t))
                       v == SubSeq(cs, (2 + len) + 1, Len(cs))
            <4>2. /\ u \in Seq(Cell) /\ Len(u) = Len(t) - len
                  /\ \A k \in 1..(Len(t) - len) : u[k] = t[len + k]
                BY <2>2, <4>1, DropFront
            <4>3. /\ v \in Seq(Cell) /\ Len(v) = Len(cs) - (2 + len)
                  /\ \A k \in 1..(Len(cs) - (2 + len)) : v[k] = cs[(2 + len) + k]
                BY <4>1, DropFront
            <4> HIDE DEF u, v, t
            <4>4. \A k \in 1..Len(u) : u[k] = v[k]
                <5> SUFFICES ASSUME NEW k \in 1..Len(u) PROVE u[k] = v[k]
                    OBVIOUS
                <5>1. u[k] = t[len + k] /\ v[k] = cs[(2 + len) + k]
                    BY <4>1, <4>2, <4>3
                <5>2. len + k \in 1..(Len(cs) - 2) /\ 2 + (len + k) = (2 + len) + k
                    <6> HIDE DEF p, h
                    <6>1. k \in Nat /\ 1 <= k /\ k <= Len(t) - len
                        BY <4>1, <4>2
                    <6>2. len \in Nat /\ Len(t) = Len(cs) - 2
                        BY <2>2, <3>1
                    <6> QED
                        BY <1>1, <6>1, <6>2
                <5> QED
                    BY <2>2, <5>1, <5>2
            <4>5. Len(u) = Len(v)
                BY <4>1, <4>2, <4>3
            <4>6. u = v
                BY <4>2, <4>3, <4>4, <4>5, SeqEqual
            <4> QED
                BY <4>6 DEF u, v
        <3>4. r.msg = m /\ r.rest = after(len).rest
            BY <2>6
        <3>5. CASE m \in {Invalid, Bogus}
            <4>1. r.result = "Ok" => r.msg = Bogus
                BY <2>6, <3>5
            <4>2. 2 + len \in 0..Len(cs)
                BY <1>1, <2>1, <2>2, <3>1
            <4> QED
                BY <3>1, <3>3, <3>4, <4>1, <4>2
        <3>6. CASE m \notin {Invalid, Bogus}
            <4>1. IsPrefix(payload(m), p)
                BY <2>6, <3>6 DEF decodings
            <4>2. 2 <= len /\ p[2] = <<m, 4>>
                BY <3>2, <4>1, PayloadPrefix
            <4>3. p[2] = cs[4]
                <5>1. 2 \in 1..len /\ 2 \in 1..(Len(cs) - 2)
                    BY <1>1, <2>2, <3>1, <4>2
                <5>2. p[2] = t[2] /\ t[2] = cs[2 + 2]
                    BY <2>2, <3>2, <5>1
                <5>3. 2 + 2 = 4
                    OBVIOUS
                <5> QED
                    BY <5>2, <5>3, Zenon
            <4>4. m \in Id
                <5>1. p[2] \in Cell
                    BY <3>2, <4>2, ElementOfSeq
                <5> QED
                    BY <4>2, <5>1 DEF Cell
            <4>5. 2 + len \in 0..Len(cs) /\ 4 <= 2 + len
                BY <1>1, <2>1, <2>2, <3>1, <4>2
            <4> QED
                BY <3>1, <3>3, <3>4, <4>2, <4>3, <4>4, <4>5
        <3> QED
            BY <3>5, <3>6
    <2> QED
        BY <2>4, <2>5, <2>6
<1> QED
    BY <1>2, <1>3
------------------------------------------------------------------------------
(* The steps                                                                *)

\* What is left of a stream after cells were taken off its front.
LeftOf(old, new) ==
    \E d \in 0..Len(old) : /\ Len(new) = Len(old) - d
                           /\ \A k \in 1..Len(new) : new[k] = old[d + k]

\* One poll takes cells off the front of one stream, and hands over at most one
\* message, the end of whose frame it has taken.
LEMMA PollIs ==
    ASSUME LinkInv, NEW c \in Conn, poll_client(c)
    PROVE  \E d \in 0..Len(cells[c]), left \in Seq(Cell), a \in Nat :
               /\ cells' = [cells EXCEPT ![c] = left]
               /\ arrived' = [arrived EXCEPT ![c] = a] /\ a <= Len(left)
               /\ Len(left) = Len(cells[c]) - d
               /\ \A k \in 1..Len(left) : left[k] = cells[c][d + k]
               /\ \/ received' = received
                  \/ \E x \in Id \cup {Bogus} :
                         /\ received' = Append(received, <<c, x>>)
                         /\ x # Bogus => 4 <= d /\ cells[c][4] = <<x, 4>>
<1> DEFINE s  == cells[c]
           n  == arrived[c]
           cs == SubSeq(s, 1, n)
           t  == SubSeq(s, n + 1, Len(s))
<1>1. s \in Seq(Cell) /\ Len(s) \in Nat /\ n \in Nat /\ n <= Len(s)
    BY DEF LinkInv, LinkTypes
<1>2. /\ cs \in Seq(Cell) /\ Len(cs) = n
      /\ \A k \in 1..n : cs[k] = s[k]
    <2> HIDE DEF s, n
    <2>1. \A k \in 1..Len(s) : s[k] \in Cell
        BY <1>1, ElementOfSeq
    <2>2. \A k \in 1..n : s[k] \in Cell
        BY <1>1, <2>1
    <2>3. /\ SubSeq(s, 1, n) \in Seq(Cell)
          /\ Len(SubSeq(s, 1, n)) = IF 1 <= n THEN n - 1 + 1 ELSE 0
          /\ \A i \in 1..(n - 1 + 1) : SubSeq(s, 1, n)[i] = s[1 + i - 1]
        BY <1>1, <2>2, SubSeqProperties
    <2> QED
        BY <1>1, <2>3
<1>3. /\ t \in Seq(Cell) /\ Len(t) = Len(s) - n
      /\ \A k \in 1..(Len(s) - n) : t[k] = s[n + k]
    <2> HIDE DEF s, n
    <2>1. n \in 0..Len(s)
        BY <1>1
    <2> QED
        BY <1>1, <2>1, DropFront
<1>4. PICK r \in recv_framed_msg(cs, AtEnd(c)) :
          LET keep == r.result \in {"Ok", "WouldBlock"}
          IN  /\ cells' = [cells EXCEPT ![c] = IF keep THEN r.rest \o t ELSE << >>]
              /\ arrived' = [arrived EXCEPT ![c] = IF keep THEN Len(r.rest) ELSE 0]
              /\ received' = IF r.result = "Ok"
                             THEN Append(received, <<c, r.msg>>) ELSE received
    BY Zenon DEF poll_client
<1>5. PICK d \in 0..Len(cs) :
          /\ r.rest = SubSeq(cs, d + 1, Len(cs))
          /\ r.result = "Ok" =>
                 \/ r.msg = Bogus
                 \/ r.msg \in Id /\ 4 <= d /\ cs[4] = <<r.msg, 4>>
    BY <1>2, RecvFramedIs
<1>6. /\ r.rest \in Seq(Cell) /\ Len(r.rest) = n - d
      /\ \A k \in 1..(n - d) : r.rest[k] = cs[d + k]
    <2> HIDE DEF cs, n
    <2> QED
        BY <1>2, <1>5, DropFront
<1>7. d \in Nat /\ d <= n /\ d \in 0..Len(s)
    BY <1>1, <1>2, <1>5
<1> DEFINE left == r.rest \o t
<1>8. /\ left \in Seq(Cell) /\ Len(left) = Len(s) - d
      /\ \A k \in 1..Len(left) : left[k] = s[d + k]
    <2> HIDE DEF s, n, cs, t
    <2> DEFINE f == r.rest
    <2>1. /\ f \in Seq(Cell) /\ Len(f) = n - d /\ \A k \in 1..(n - d) : f[k] = cs[d + k]
        BY <1>6
    <2> HIDE DEF f
    <2>2. /\ f \o t \in Seq(Cell) /\ Len(f \o t) = Len(f) + Len(t)
          /\ \A i \in 1..(Len(f) + Len(t)) :
                 (f \o t)[i] = IF i <= Len(f) THEN f[i] ELSE t[i - Len(f)]
        BY <1>3, <2>1, ConcatProperties
    <2>3. Len(f) + Len(t) = Len(s) - d
        BY <1>1, <1>3, <1>7, <2>1
    <2>4. ASSUME NEW k \in 1..(Len(s) - d) PROVE (f \o t)[k] = s[d + k]
        <3>1. (f \o t)[k] = IF k <= Len(f) THEN f[k] ELSE t[k - Len(f)]
            BY <2>2, <2>3
        <3>2. CASE k <= Len(f)
            <4>1. k \in 1..(n - d) /\ d + k \in 1..n
                BY <1>1, <1>7, <2>1, <3>2
            <4> QED
                BY <1>2, <2>1, <3>1, <3>2, <4>1
        <3>3. CASE ~(k <= Len(f))
            <4>1. k - Len(f) \in 1..(Len(s) - n) /\ n + (k - Len(f)) = d + k
                BY <1>1, <1>7, <2>1, <3>3
            <4> QED
                BY <1>3, <3>1, <3>3, <4>1
        <3> QED
            BY <3>2, <3>3
    <2> QED
        BY <2>2, <2>3, <2>4 DEF f
<1>9. n - d \in Nat /\ n - d <= Len(s) - d
    BY <1>1, <1>7
<1> HIDE DEF left
<1>10. CASE r.result = "Ok"
    <2>1. /\ cells' = [cells EXCEPT ![c] = left]
          /\ arrived' = [arrived EXCEPT ![c] = n - d]
          /\ received' = Append(received, <<c, r.msg>>)
        BY <1>4, <1>6, <1>10 DEF left
    <2>2. r.msg \in Id \cup {Bogus} /\ (r.msg # Bogus => 4 <= d /\ cs[4] = <<r.msg, 4>>)
        BY <1>5, <1>10
    <2>3. 4 <= d => cs[4] = s[4]
        BY <1>1, <1>2, <1>7
    <2> QED
        BY <1>7, <1>8, <1>9, <2>1, <2>2, <2>3
<1>11. CASE r.result = "WouldBlock"
    <2>1. /\ cells' = [cells EXCEPT ![c] = left]
          /\ arrived' = [arrived EXCEPT ![c] = n - d]
          /\ received' = received
        BY <1>4, <1>6, <1>11 DEF left
    <2> QED
        BY <1>7, <1>8, <1>9, <2>1
<1>12. CASE r.result \notin {"Ok", "WouldBlock"}
    <2>1. /\ cells' = [cells EXCEPT ![c] = << >>]
          /\ arrived' = [arrived EXCEPT ![c] = 0]
          /\ received' = received
        BY <1>4, <1>12
    <2>2. /\ << >> \in Seq(Cell) /\ Len(<< >>) = Len(s) - Len(s) /\ 0 <= Len(<< >>)
          /\ Len(s) \in 0..Len(s)
          /\ \A k \in 1..Len(<< >>) : << >>[k] = s[Len(s) + k]
        BY <1>1
    <2> QED
        BY <2>1, <2>2
<1> QED
    BY <1>10, <1>11, <1>12

\* Taking cells off streams disturbs no order.
LEMMA FewerCells ==
    ASSUME LinkInv, UNCHANGED calls,
           cells' \in [Conn -> Seq(Cell)],
           \A c \in Conn : LeftOf(cells[c], cells'[c])
    PROVE  /\ StreamsInOrder'
           /\ \A i \in DOMAIN received :
                  received[i][2] # Bogus =>
                      /\ received[i][2] \in DOMAIN calls'
                      /\ calls'[received[i][2]] = received[i][1]
                      /\ \A k \in DOMAIN cells'[received[i][1]] :
                             cells'[received[i][1]][k][2] = 4
                             => received[i][2] < cells'[received[i][1]][k][1]
<1>1. ASSUME NEW c \in Conn
      PROVE  \E d \in Nat : \A k \in DOMAIN cells'[c] :
                 /\ k \in Nat
                 /\ d + k \in DOMAIN cells[c] /\ cells'[c][k] = cells[c][d + k]
    <2> DEFINE s == cells[c]
               u == cells'[c]
    <2>1. /\ s \in Seq(Cell) /\ Len(s) \in Nat /\ DOMAIN s = 1..Len(s)
          /\ u \in Seq(Cell) /\ Len(u) \in Nat /\ DOMAIN u = 1..Len(u)
        BY DEF LinkInv, LinkTypes
    <2>2. PICK d \in 0..Len(s) : /\ Len(u) = Len(s) - d
                                 /\ \A k \in 1..Len(u) : u[k] = s[d + k]
        BY DEF LeftOf
    <2> HIDE DEF s, u
    <2>3. d \in Nat /\ \A k \in 1..Len(u) : k \in Nat /\ d + k \in 1..Len(s)
        BY <2>1, <2>2
    <2> QED
        BY <2>1, <2>2, <2>3 DEF s, u
<1>2. ASSUME NEW c \in Conn
      PROVE  /\ \A k \in DOMAIN cells'[c] :
                    /\ cells'[c][k][1] \in DOMAIN calls
                    /\ calls[cells'[c][k][1]] = c
             /\ \A j, k \in DOMAIN cells'[c] :
                    j < k /\ cells'[c][j][2] = 4 /\ cells'[c][k][2] = 4
                    => cells'[c][j][1] < cells'[c][k][1]
    <2>1. PICK d \in Nat : \A k \in DOMAIN cells'[c] :
              /\ k \in Nat
              /\ d + k \in DOMAIN cells[c] /\ cells'[c][k] = cells[c][d + k]
        BY <1>1
    <2>2. /\ \A k \in DOMAIN cells[c] :
                 cells[c][k][1] \in DOMAIN calls /\ calls[cells[c][k][1]] = c
          /\ \A j, k \in DOMAIN cells[c] :
                 j < k /\ cells[c][j][2] = 4 /\ cells[c][k][2] = 4
                 => cells[c][j][1] < cells[c][k][1]
        BY DEF LinkInv, StreamsInOrder
    <2>3. \A j, k \in DOMAIN cells'[c] : j < k => d + j < d + k
        BY <2>1
    <2>4. \A k \in DOMAIN cells'[c] :
              cells'[c][k][1] \in DOMAIN calls /\ calls[cells'[c][k][1]] = c
        BY <2>1, <2>2, Zenon
    <2>5. ASSUME NEW j \in DOMAIN cells'[c], NEW k \in DOMAIN cells'[c],
                 j < k, cells'[c][j][2] = 4, cells'[c][k][2] = 4
          PROVE  cells'[c][j][1] < cells'[c][k][1]
        <3>1. d + j < d + k
            BY <2>3, <2>5
        <3>2. /\ d + j \in DOMAIN cells[c] /\ cells'[c][j] = cells[c][d + j]
              /\ d + k \in DOMAIN cells[c] /\ cells'[c][k] = cells[c][d + k]
            BY <2>1
        <3> QED
            BY <2>2, <2>5, <3>1, <3>2, Zenon
    <2> QED
        BY <2>4, <2>5
<1>3. ASSUME NEW i \in DOMAIN received, received[i][2] # Bogus
      PROVE  /\ received[i][2] \in DOMAIN calls
             /\ calls[received[i][2]] = received[i][1]
             /\ \A k \in DOMAIN cells'[received[i][1]] :
                    cells'[received[i][1]][k][2] = 4
                    => received[i][2] < cells'[received[i][1]][k][1]
    <2> DEFINE c == received[i][1]
    <2>1. c \in Conn
        BY DEF LinkInv, LinkTypes
    <2>2. /\ received[i][2] \in DOMAIN calls
          /\ calls[received[i][2]] = c
          /\ \A k \in DOMAIN cells[c] :
                 cells[c][k][2] = 4 => received[i][2] < cells[c][k][1]
        BY <1>3 DEF LinkInv, TakenInOrder
    <2> HIDE DEF c
    <2>3. PICK d \in Nat : \A k \in DOMAIN cells'[c] :
              /\ k \in Nat
              /\ d + k \in DOMAIN cells[c] /\ cells'[c][k] = cells[c][d + k]
        BY <1>1, <2>1
    <2>4. \A k \in DOMAIN cells'[c] :
              cells'[c][k][2] = 4 => received[i][2] < cells'[c][k][1]
        BY <2>2, <2>3
    <2> QED
        BY <2>2, <2>4 DEF c
<1> QED
    BY <1>2, <1>3, Zenon DEF StreamsInOrder

\* A step that leaves the streams, the calls and what was received alone.
LEMMA StillStep ==
    ASSUME LinkInv, UNCHANGED <<cells, calls, received>>,
           peer' \in Conn \cup {0}, writing' \in {0, writing},
           arrived' \in [Conn -> Nat], \A c \in Conn : arrived'[c] <= Len(cells[c])
    PROVE  LinkInv'
<1>1. LinkTypes'
    BY DEF LinkInv, LinkTypes
<1>2. StreamsInOrder' /\ TakenInOrder' /\ OnceAndInOrder'
    BY Zenon DEF LinkInv, StreamsInOrder, TakenInOrder, OnceAndInOrder
<1>3. RestIsLast'
    BY DEF LinkInv, RestIsLast, Ended
<1> QED
    BY <1>1, <1>2, <1>3 DEF LinkInv

\* A poll keeps the order: what it hands over came before what it leaves.
LEMMA PollStep ==
    ASSUME LinkInv, NEW c \in Conn, poll_client(c)
    PROVE  LinkInv'
<1>1. PICK d \in 0..Len(cells[c]), left \in Seq(Cell), a \in Nat :
          /\ cells' = [cells EXCEPT ![c] = left]
          /\ arrived' = [arrived EXCEPT ![c] = a] /\ a <= Len(left)
          /\ Len(left) = Len(cells[c]) - d
          /\ \A k \in 1..Len(left) : left[k] = cells[c][d + k]
          /\ \/ received' = received
             \/ \E x \in Id \cup {Bogus} :
                    /\ received' = Append(received, <<c, x>>)
                    /\ x # Bogus => 4 <= d /\ cells[c][4] = <<x, 4>>
    BY PollIs
<1>2. UNCHANGED <<peer, writing, calls>>
    BY DEF poll_client
<1>3. /\ cells \in [Conn -> Seq(Cell)] /\ arrived \in [Conn -> Nat]
      /\ \A e \in Conn : arrived[e] <= Len(cells[e])
      /\ peer \in Conn \cup {0} /\ writing \in Conn \cup {0} /\ calls \in Seq(Conn \cup {0}) /\ Len(calls) <= MaxMsgs
      /\ received \in Seq(Conn \X (Id \cup {Bogus}))
    BY DEF LinkInv, LinkTypes
<1>4. /\ cells' \in [Conn -> Seq(Cell)]
      /\ cells'[c] = left /\ \A e \in Conn \ {c} : cells'[e] = cells[e]
    BY <1>1, <1>3
<1>5. /\ arrived' \in [Conn -> Nat]
      /\ arrived'[c] = a /\ \A e \in Conn \ {c} : arrived'[e] = arrived[e]
    BY <1>1, <1>3
<1>6. received' \in Seq(Conn \X (Id \cup {Bogus}))
    <2>1. \A x \in Id \cup {Bogus} : <<c, x>> \in Conn \X (Id \cup {Bogus})
        OBVIOUS
    <2>2. \A x \in Id \cup {Bogus} :
              Append(received, <<c, x>>) \in Seq(Conn \X (Id \cup {Bogus}))
        BY <1>3, <2>1, AppendProperties
    <2> QED
        BY <1>1, <1>3, <2>2, Zenon
<1>7. LinkTypes'
    <2>1. \A e \in Conn : arrived'[e] <= Len(cells'[e])
        BY <1>1, <1>3, <1>4, <1>5
    <2> QED
        BY <1>2, <1>3, <1>4, <1>5, <1>6, <2>1 DEF LinkTypes
<1>8. \A e \in Conn : LeftOf(cells[e], cells'[e])
    <2>1. LeftOf(cells[c], cells'[c])
        BY <1>1, <1>4 DEF LeftOf
    <2>2. ASSUME NEW s \in Seq(Cell) PROVE LeftOf(s, s)
        <3>1. /\ 0 \in 0..Len(s) /\ Len(s) = Len(s) - 0
              /\ \A k \in 1..Len(s) : s[k] = s[0 + k]
            OBVIOUS
        <3> QED
            BY <3>1 DEF LeftOf
    <2>3. \A e \in Conn \ {c} : LeftOf(cells[e], cells'[e])
        BY <1>3, <1>4, <2>2
    <2> QED
        BY <2>1, <2>3
<1>9. /\ StreamsInOrder'
      /\ \A i \in DOMAIN received :
             received[i][2] # Bogus =>
                 /\ received[i][2] \in DOMAIN calls'
                 /\ calls'[received[i][2]] = received[i][1]
                 /\ \A k \in DOMAIN cells'[received[i][1]] :
                        cells'[received[i][1]][k][2] = 4
                        => received[i][2] < cells'[received[i][1]][k][1]
    BY <1>2, <1>4, <1>8, FewerCells
<1>10. ASSUME NEW e \in Conn, NEW m, Ended(e, m)' PROVE Ended(e, m)
    <2>1. CASE e # c
        BY <1>4, <1>10, <2>1 DEF Ended
    <2>2. CASE e = c
        <3>1. PICK k \in DOMAIN left : left[k] = <<m, 4>>
            BY <1>4, <1>10, <2>2 DEF Ended
        <3>2. d + k \in DOMAIN cells[c] /\ left[k] = cells[c][d + k]
            BY <1>1, <1>3
        <3> QED
            BY <2>2, <3>1, <3>2 DEF Ended
    <2> QED
        BY <2>1, <2>2
<1>11. CASE received' = received
    <2>1. TakenInOrder' /\ OnceAndInOrder'
        BY <1>9, <1>11, Zenon DEF TakenInOrder, OnceAndInOrder, LinkInv
    <2>2. RestIsLast'
        BY <1>2, <1>11, <1>10, Zenon DEF RestIsLast, LinkInv
    <2> QED
        BY <1>7, <1>9, <2>1, <2>2 DEF LinkInv
<1>12. ASSUME NEW x \in Id \cup {Bogus},
              received' = Append(received, <<c, x>>),
              x # Bogus => 4 <= d /\ cells[c][4] = <<x, 4>>
       PROVE  LinkInv'
    <2> DEFINE n == Len(received) + 1
    <2>1. /\ DOMAIN received' = DOMAIN received \cup {n}
          /\ DOMAIN received = 1..Len(received) /\ Len(received) \in Nat
          /\ \A i \in DOMAIN received : received'[i] = received[i]
          /\ received'[n][1] = c /\ received'[n][2] = x
        <3>1. <<c, x>> \in Conn \X (Id \cup {Bogus})
            OBVIOUS
        <3>2. /\ received' \in Seq(Conn \X (Id \cup {Bogus}))
              /\ Len(received') = Len(received) + 1
              /\ \A i \in 1..Len(received) : received'[i] = received[i]
              /\ received'[Len(received) + 1] = <<c, x>>
            BY <1>3, <1>12, <3>1, AppendProperties
        <3>3. /\ DOMAIN received = 1..Len(received) /\ Len(received) \in Nat
              /\ DOMAIN received' = 1..Len(received')
            BY <1>3, <3>2, LenProperties
        <3>4. DOMAIN received' = DOMAIN received \cup {n}
            BY <3>2, <3>3
        <3> QED
            BY <3>2, <3>3, <3>4
    <2>2. ASSUME x # Bogus
          PROVE  /\ x \in DOMAIN calls /\ calls[x] = c
                 /\ \A k \in DOMAIN left : left[k][2] = 4 => x < left[k][1]
                 /\ \A i \in DOMAIN received :
                        received[i][1] = c /\ received[i][2] # Bogus => received[i][2] < x
        <3>1. /\ 4 <= d /\ cells[c][4][1] = x /\ cells[c][4][2] = 4
              /\ DOMAIN cells[c] = 1..Len(cells[c]) /\ Len(cells[c]) \in Nat
              /\ DOMAIN left = 1..Len(left)
            BY <1>3, <1>12, <2>2
        <3>2. 4 \in DOMAIN cells[c]
            BY <3>1
        <3>3. x \in DOMAIN calls /\ calls[x] = c
            BY <3>1, <3>2 DEF LinkInv, StreamsInOrder
        <3>4. ASSUME NEW k \in DOMAIN left, left[k][2] = 4 PROVE x < left[k][1]
            <4>1. d + k \in DOMAIN cells[c] /\ 4 < d + k
                BY <1>1, <3>1
            <4>2. left[k] = cells[c][d + k]
                BY <1>1, <3>1
            <4>3. cells[c][4][1] < cells[c][d + k][1]
                BY <3>1, <3>2, <3>4, <4>1, <4>2, Zenon DEF LinkInv, StreamsInOrder
            <4> QED
                BY <3>1, <4>2, <4>3
        <3>5. ASSUME NEW i \in DOMAIN received, received[i][1] = c, received[i][2] # Bogus
              PROVE  received[i][2] < x
            <4>1. received[i][2] < cells[c][4][1]
                BY <3>1, <3>2, <3>5, Zenon DEF LinkInv, TakenInOrder
            <4> QED
                BY <3>1, <4>1
        <3> QED
            BY <3>3, <3>4, <3>5
    <2> HIDE DEF n
    <2>3. TakenInOrder'
        <3> SUFFICES ASSUME NEW i \in DOMAIN received', received'[i][2] # Bogus
                     PROVE  /\ received'[i][2] \in DOMAIN calls'
                            /\ calls'[received'[i][2]] = received'[i][1]
                            /\ \A k \in DOMAIN cells'[received'[i][1]] :
                                   cells'[received'[i][1]][k][2] = 4
                                   => received'[i][2] < cells'[received'[i][1]][k][1]
            BY Zenon DEF TakenInOrder
        <3>1. CASE i = n
            <4>1. x # Bogus
                BY <2>1, <3>1
            <4> QED
                BY <1>2, <1>4, <2>1, <2>2, <3>1, <4>1
        <3>2. CASE i \in DOMAIN received
            <4>1. received'[i] = received[i]
                BY <2>1, <3>2
            <4> QED
                BY <1>9, <3>2, <4>1, Zenon
        <3> QED
            BY <2>1, <3>1, <3>2
    <2>4. OnceAndInOrder'
        <3> SUFFICES ASSUME NEW j \in DOMAIN received', NEW k \in DOMAIN received', j < k,
                            Bogus \notin {received'[j][2], received'[k][2]},
                            received'[j][1] = received'[k][1]
                     PROVE  received'[j][2] < received'[k][2]
            BY Zenon DEF OnceAndInOrder
        <3>1. j \in DOMAIN received
            BY <2>1 DEF n
        <3>2. CASE k = n
            BY <2>1, <2>2, <3>1, <3>2
        <3>3. CASE k \in DOMAIN received
            BY <2>1, <3>1, <3>3 DEF LinkInv, OnceAndInOrder
        <3> QED
            BY <2>1, <3>2, <3>3
    <2>5. RestIsLast'
        <3> SUFFICES ASSUME writing # 0 PROVE RestIsLast'
            BY <1>2 DEF RestIsLast
        <3>1. /\ Len(calls) \in DOMAIN calls /\ calls[Len(calls)] = writing
              /\ \A e \in Conn : ~Ended(e, Len(calls))
              /\ \A i \in DOMAIN received : received[i][2] # Len(calls)
            BY DEF LinkInv, RestIsLast
        <3>2. x # Len(calls)
            <4>1. Len(calls) # Bogus
                BY <1>3, <3>1, PeerLinkAssumption
            <4>2. x # Bogus => Ended(c, x)
                <5>1. x # Bogus => 4 \in DOMAIN cells[c]
                    BY <1>3, <1>12
                <5> QED
                    BY <1>12, <5>1 DEF Ended
            <4> QED
                BY <3>1, <4>1, <4>2
        <3>3. \A i \in DOMAIN received' : received'[i][2] # Len(calls)
            BY <2>1, <3>1, <3>2
        <3> QED
            BY <1>2, <1>10, <3>1, <3>3, Zenon DEF RestIsLast
    <2> QED
        BY <1>7, <1>9, <2>3, <2>4, <2>5 DEF LinkInv
<1> QED
    BY <1>1, <1>11, <1>12

\* Cells of the last message, written behind everything else, disturb no order.
LEMMA MoreCells ==
    ASSUME LinkInv, UNCHANGED received, cells' \in [Conn -> Seq(Cell)], NEW m \in Id,
           DOMAIN calls' = DOMAIN calls \cup {m},
           \A i \in DOMAIN calls : calls'[i] = calls[i] /\ (i # m => i < m),
           \A e \in Conn : ~Ended(e, m),
           \A i \in DOMAIN received : received[i][2] # m,
           \A e \in Conn :
               /\ Len(cells[e]) <= Len(cells'[e])
               /\ \A k \in DOMAIN cells[e] : /\ k \in DOMAIN cells'[e]
                                             /\ cells'[e][k] = cells[e][k]
               /\ \A k \in DOMAIN cells'[e] \ DOMAIN cells[e] :
                      /\ e = calls'[m] /\ cells'[e][k][1] = m
                      /\ cells'[e][k][2] = 4 => k = Len(cells'[e])
                      /\ \A j \in DOMAIN cells[e] : j < k
    PROVE  /\ StreamsInOrder' /\ TakenInOrder' /\ OnceAndInOrder'
           /\ \A e \in Conn : \A i \in Id \ {m} : Ended(e, i)' <=> Ended(e, i)
<1>1. /\ cells \in [Conn -> Seq(Cell)]
      /\ received \in Seq(Conn \X (Id \cup {Bogus}))
    BY DEF LinkInv, LinkTypes
<1>2. StreamsInOrder'
    <2> SUFFICES ASSUME NEW e \in Conn
                 PROVE  /\ \A k \in DOMAIN cells'[e] :
                               /\ cells'[e][k][1] \in DOMAIN calls'
                               /\ calls'[cells'[e][k][1]] = e
                        /\ \A j, k \in DOMAIN cells'[e] :
                               j < k /\ cells'[e][j][2] = 4 /\ cells'[e][k][2] = 4
                               => cells'[e][j][1] < cells'[e][k][1]
        BY Zenon DEF StreamsInOrder
    <2> DEFINE s == cells[e]
               u == cells'[e]
    <2>1. /\ \A k \in DOMAIN s : k \in DOMAIN u /\ u[k] = s[k]
          /\ \A k \in DOMAIN u \ DOMAIN s :
                 /\ e = calls'[m] /\ u[k][1] = m
                 /\ u[k][2] = 4 => k = Len(u)
                 /\ \A j \in DOMAIN s : j < k
          /\ u \in Seq(Cell)
        OBVIOUS
    <2>2. /\ \A k \in DOMAIN s : s[k][1] \in DOMAIN calls /\ calls[s[k][1]] = e
          /\ \A j, k \in DOMAIN s :
                 j < k /\ s[j][2] = 4 /\ s[k][2] = 4 => s[j][1] < s[k][1]
        BY DEF LinkInv, StreamsInOrder
    <2>3. DOMAIN s = 1..Len(s) /\ Len(s) \in Nat /\ DOMAIN u = 1..Len(u) /\ Len(u) \in Nat
        BY <1>1, <2>1
    <2>4. \A k \in DOMAIN s : s[k][2] = 4 => s[k][1] # m
        <3> SUFFICES ASSUME NEW k \in DOMAIN s, s[k][2] = 4, s[k][1] = m PROVE FALSE
            OBVIOUS
        <3>1. s[k] \in Cell
            BY <1>1, <2>3, ElementOfSeq
        <3>2. s[k] = <<m, 4>>
            BY <3>1 DEF Cell
        <3> QED
            BY <3>2 DEF Ended
    <2> HIDE DEF s, u
    <2>5. ASSUME NEW k \in DOMAIN u PROVE u[k][1] \in DOMAIN calls' /\ calls'[u[k][1]] = e
        <3>1. CASE k \in DOMAIN s
            BY <2>1, <2>2, <3>1
        <3>2. CASE k \notin DOMAIN s
            BY <2>1, <3>2
        <3> QED
            BY <3>1, <3>2
    <2>6. ASSUME NEW j \in DOMAIN u, NEW k \in DOMAIN u, j < k, u[j][2] = 4, u[k][2] = 4
          PROVE  u[j][1] < u[k][1]
        <3>1. j # Len(u)
            BY <2>3, <2>6
        <3>2. j \in DOMAIN s
            BY <2>1, <2>6, <3>1
        <3>3. CASE k \in DOMAIN s
            BY <2>1, <2>2, <2>6, <3>2, <3>3
        <3>4. CASE k \notin DOMAIN s
            <4>1. u[j] = s[j] /\ s[j][1] \in DOMAIN calls /\ s[j][1] # m
                BY <2>1, <2>2, <2>4, <2>6, <3>2
            <4> QED
                BY <2>1, <3>4, <4>1
        <3> QED
            BY <3>3, <3>4
    <2> QED
        BY <2>5, <2>6 DEF u
<1>3. TakenInOrder'
    <2> SUFFICES ASSUME NEW i \in DOMAIN received, received[i][2] # Bogus
                 PROVE  /\ received[i][2] \in DOMAIN calls'
                        /\ calls'[received[i][2]] = received[i][1]
                        /\ \A k \in DOMAIN cells'[received[i][1]] :
                               cells'[received[i][1]][k][2] = 4
                               => received[i][2] < cells'[received[i][1]][k][1]
        BY Zenon DEF TakenInOrder
    <2> DEFINE e == received[i][1]
               x == received[i][2]
    <2>1. e \in Conn /\ x # m
        BY <1>1
    <2>2. /\ x \in DOMAIN calls /\ calls[x] = e
          /\ \A k \in DOMAIN cells[e] : cells[e][k][2] = 4 => x < cells[e][k][1]
        BY DEF LinkInv, TakenInOrder
    <2> HIDE DEF e, x
    <2>3. \A k \in DOMAIN cells'[e] : cells'[e][k][2] = 4 => x < cells'[e][k][1]
        <3> SUFFICES ASSUME NEW k \in DOMAIN cells'[e], cells'[e][k][2] = 4
                     PROVE  x < cells'[e][k][1]
            OBVIOUS
        <3>1. CASE k \in DOMAIN cells[e]
            BY <2>1, <2>2, <3>1, Zenon
        <3>2. CASE k \notin DOMAIN cells[e]
            <4>1. cells'[e][k][1] = m
                BY <2>1, <3>2, Zenon
            <4> QED
                BY <2>1, <2>2, <4>1
        <3> QED
            BY <3>1, <3>2
    <2>4. x \in DOMAIN calls' /\ calls'[x] = e
        BY <2>2
    <2> QED
        BY <2>3, <2>4 DEF e, x
<1>4. OnceAndInOrder'
    BY Zenon DEF LinkInv, OnceAndInOrder
<1>5. ASSUME NEW e \in Conn, NEW i \in Id \ {m} PROVE Ended(e, i)' <=> Ended(e, i)
    <2>1. ASSUME NEW k \in DOMAIN cells'[e], cells'[e][k] = <<i, 4>>
          PROVE  k \in DOMAIN cells[e]
        <3>1. cells'[e][k][1] = i
            BY <2>1
        <3> QED
            BY <3>1
    <2> QED
        BY <2>1, Zenon DEF Ended
<1> QED
    BY <1>2, <1>3, <1>4, <1>5

\* More cells on the streams do not move what has arrived.
LEMMA StillArrived ==
    ASSUME LinkInv, UNCHANGED arrived, cells' \in [Conn -> Seq(Cell)],
           \A e \in Conn : Len(cells[e]) <= Len(cells'[e])
    PROVE  arrived' \in [Conn -> Nat] /\ \A e \in Conn : arrived'[e] <= Len(cells'[e])
<1> SUFFICES ASSUME NEW e \in Conn
             PROVE  arrived' \in [Conn -> Nat] /\ arrived'[e] <= Len(cells'[e])
    BY DEF LinkInv, LinkTypes
<1>1. /\ arrived' = arrived /\ arrived \in [Conn -> Nat] /\ arrived[e] <= Len(cells[e])
      /\ Len(cells[e]) \in Nat /\ Len(cells'[e]) \in Nat
    BY DEF LinkInv, LinkTypes
<1> QED
    BY <1>1

\* A header is written behind everything else on the stream, and is of a new
\* message.
LEMMA SendStep ==
    ASSUME LinkInv, send
    PROVE  /\ LinkInv' /\ UNCHANGED received
           /\ \E m \in Id :
                  /\ m \notin DOMAIN calls /\ DOMAIN calls' = DOMAIN calls \cup {m}
                  /\ \A i \in Id \ {m} : OnItsWay(i)' = OnItsWay(i)
<1>1. PICK m \in Id : /\ m = Len(calls) + 1
                     /\ calls' = Append(calls, peer') /\ writing = 0
                     /\ UNCHANGED <<arrived, received>>
    BY DEF send, AtLeisure
<1>2. /\ cells \in [Conn -> Seq(Cell)]
      /\ peer \in Conn \cup {0} /\ calls \in Seq(Conn \cup {0}) /\ Len(calls) <= MaxMsgs
      /\ received \in Seq(Conn \X (Id \cup {Bogus}))
    BY DEF LinkInv, LinkTypes
<1>3. PICK q \in Conn \cup {0} :
          /\ peer' = q /\ writing' \in {0, q}
          /\ \/ q \in Conn /\ Writes(q, send_header(cells[q], m))
             \/ cells' = cells
    <2>1. CASE \E c \in Conn :
                  /\ \/ c = peer /\ UNCHANGED <<peer, opened, backlog>>
                     \/ peer = 0 /\ Connects(c)
                  /\ Writes(c, send_header(cells[c], m))
                  /\ writing' = IF Open(c)' /\ send_header(cells[c], m).ok THEN c ELSE 0
        <3>1. PICK c \in Conn : /\ peer' = c
                                /\ Writes(c, send_header(cells[c], m))
                                /\ writing' \in {0, c}
            BY <2>1 DEF Connects
        <3> QED
            BY <3>1
    <2>2. CASE /\ peer = 0 /\ "receiver" \notin up
               /\ UNCHANGED <<cells, peer, writing, opened, backlog, cut>>
        BY <1>1, <2>2
    <2> QED
        BY <1>1, <2>1, <2>2 DEF send
<1>4. /\ DOMAIN calls = 1..Len(calls) /\ Len(calls) \in Nat
      /\ calls' \in Seq(Conn \cup {0}) /\ Len(calls') = m
      /\ DOMAIN calls' = 1..m
      /\ \A i \in DOMAIN calls : calls'[i] = calls[i]
      /\ calls'[m] = q
    <2>1. DOMAIN calls = 1..Len(calls) /\ Len(calls) \in Nat /\ calls' = Append(calls, q)
        BY <1>1, <1>2, <1>3
    <2>2. /\ calls' \in Seq(Conn \cup {0}) /\ Len(calls') = Len(calls) + 1
          /\ \A i \in 1..Len(calls) : calls'[i] = calls[i]
          /\ calls'[Len(calls) + 1] = q
        BY <1>2, <2>1, AppendProperties
    <2>3. DOMAIN calls' = 1..Len(calls')
        BY <2>2, LenProperties
    <2> QED
        BY <1>1, <2>1, <2>2, <2>3
<1>5. /\ m \in Nat /\ m <= MaxMsgs /\ \A i \in DOMAIN calls : i < m
      /\ DOMAIN calls' = DOMAIN calls \cup {m} /\ m \notin DOMAIN calls
    BY <1>1, <1>4, PeerLinkAssumption DEF Id
<1>6. /\ cells' \in [Conn -> Seq(Cell)]
      /\ \A e \in Conn :
             /\ Len(cells[e]) <= Len(cells'[e])
             /\ \A k \in DOMAIN cells[e] : /\ k \in DOMAIN cells'[e]
                                           /\ cells'[e][k] = cells[e][k]
             /\ \A k \in DOMAIN cells'[e] \ DOMAIN cells[e] :
                    /\ e = calls'[m] /\ cells'[e][k][1] = m
                    /\ cells'[e][k][2] # 4
                    /\ \A j \in DOMAIN cells[e] : j < k
    <2>1. CASE cells' = cells
        <3>1. \A e \in Conn : Len(cells[e]) <= Len(cells[e])
            BY <1>2
        <3> QED
            BY <1>2, <2>1, <3>1
    <2>2. CASE q \in Conn /\ Writes(q, send_header(cells[q], m))
        <3> DEFINE data == header(m)
        <3>1. /\ data \in Seq(Cell) /\ Len(data) = 2
              /\ \A k \in 1..2 : data[k] = <<m, 0 + k>>
            BY <1>1 DEF header, Cell
        <3>2. Writes(q, write_all(cells[q], data))
            BY <2>2 DEF send_header
        <3> HIDE DEF data
        <3>3. /\ cells' \in [Conn -> Seq(Cell)]
              /\ \A e \in Conn :
                     /\ Len(cells[e]) <= Len(cells'[e])
                     /\ \A k \in DOMAIN cells[e] : /\ k \in DOMAIN cells'[e]
                                                   /\ cells'[e][k] = cells[e][k]
                     /\ \A k \in DOMAIN cells'[e] \ DOMAIN cells[e] :
                            /\ e = q /\ cells'[e][k][1] = m
                            /\ cells'[e][k][2] = 4 => 0 = 2 /\ k = Len(cells'[e])
                            /\ \A j \in DOMAIN cells[e] : j < k
            BY <1>1, <1>2, <2>2, <3>1, <3>2, WritesIs
        <3> QED
            BY <1>4, <3>3
    <2> QED
        BY <1>3, <2>1, <2>2
<1>7. /\ \A e \in Conn : ~Ended(e, m)
      /\ \A i \in DOMAIN received : received[i][2] # m
    <2>1. ASSUME NEW e \in Conn, NEW k \in DOMAIN cells[e] PROVE cells[e][k] # <<m, 4>>
        <3>1. cells[e][k][1] # m
            BY <1>5 DEF LinkInv, StreamsInOrder
        <3> QED
            BY <3>1
    <2>2. \A i \in DOMAIN received : received[i][2] # m
        BY <1>1, <1>5, PeerLinkAssumption DEF LinkInv, TakenInOrder, Id
    <2> QED
        BY <2>1, <2>2 DEF Ended
<1>8. /\ StreamsInOrder' /\ TakenInOrder' /\ OnceAndInOrder'
      /\ \A e \in Conn : \A i \in Id \ {m} : Ended(e, i)' <=> Ended(e, i)
    <2>1. /\ UNCHANGED received /\ cells' \in [Conn -> Seq(Cell)]
          /\ DOMAIN calls' = DOMAIN calls \cup {m}
          /\ \A i \in DOMAIN calls : calls'[i] = calls[i] /\ (i # m => i < m)
        BY <1>1, <1>4, <1>5, <1>6
    <2>2. \A e \in Conn :
              /\ Len(cells[e]) <= Len(cells'[e])
              /\ \A k \in DOMAIN cells[e] : /\ k \in DOMAIN cells'[e]
                                            /\ cells'[e][k] = cells[e][k]
              /\ \A k \in DOMAIN cells'[e] \ DOMAIN cells[e] :
                     /\ e = calls'[m] /\ cells'[e][k][1] = m
                     /\ cells'[e][k][2] = 4 => k = Len(cells'[e])
                     /\ \A j \in DOMAIN cells[e] : j < k
        BY <1>6, Zenon
    <2> QED
        BY <1>7, <2>1, <2>2, MoreCells, Zenon
<1>9. LinkTypes'
    <2>1. arrived' \in [Conn -> Nat] /\ \A e \in Conn : arrived'[e] <= Len(cells'[e])
        BY <1>1, <1>6, StillArrived
    <2>2. writing' \in Conn \cup {0}
        BY <1>3
    <2> QED
        BY <1>1, <1>2, <1>3, <1>4, <1>5, <1>6, <2>1, <2>2 DEF LinkTypes
<1>10. ASSUME NEW e \in Conn PROVE ~Ended(e, m)'
    <2>1. ASSUME NEW k \in DOMAIN cells'[e] PROVE cells'[e][k] # <<m, 4>>
        <3>1. CASE k \in DOMAIN cells[e]
            <4>1. cells'[e][k] = cells[e][k]
                BY <1>6, <3>1
            <4> QED
                BY <1>7, <3>1, <4>1 DEF Ended
        <3>2. CASE k \notin DOMAIN cells[e]
            <4>1. cells'[e][k][2] # 4
                BY <1>6, <3>2
            <4> QED
                BY <4>1
        <3> QED
            BY <3>1, <3>2
    <2> QED
        BY <2>1 DEF Ended
<1>11. RestIsLast'
    <2>1. writing' # 0 => Len(calls)' = m /\ m \in DOMAIN calls' /\ calls'[m] = writing'
        BY <1>3, <1>4, <1>5
    <2>2. \A i \in DOMAIN received' : received'[i][2] # m
        BY <1>1, <1>7
    <2> QED
        BY <1>10, <2>1, <2>2 DEF RestIsLast, Ended
<1>12. LinkInv'
    BY <1>8, <1>9, <1>11 DEF LinkInv
<1>13. ASSUME NEW i \in Id \ {m} PROVE OnItsWay(i)' = OnItsWay(i)
    <2>1. \A e \in Conn : e # writing
        BY <1>1, <1>4 DEF Conn
    <2>2. \A e \in Conn : (\E k \in DOMAIN cells'[e] : cells'[e][k] = <<i, 4>>)
                          <=> (\E k \in DOMAIN cells[e] : cells[e][k] = <<i, 4>>)
        BY <1>8, Zenon DEF Ended
    <2>3. i # Len(calls')
        BY <1>4
    <2> QED
        BY <2>1, <2>2, <2>3, Zenon DEF OnItsWay
<1> QED
    BY <1>1, <1>5, <1>12, <1>13

\* The payload follows, and its end goes where the message was on its way to.
LEMMA SendRestStep ==
    ASSUME LinkInv, send_rest
    PROVE  /\ LinkInv' /\ UNCHANGED <<calls, received>>
           /\ \A i \in Id : OnItsWay(i)' \subseteq OnItsWay(i)
<1>1. PICK c \in Conn :
          /\ c = writing /\ writing' = 0
          /\ Writes(c, write_all(cells[c], payload(Len(calls))))
          /\ UNCHANGED <<peer, arrived, calls, received>>
    BY DEF send_rest, send_payload
<1>2. /\ cells \in [Conn -> Seq(Cell)]
      /\ peer \in Conn \cup {0} /\ calls \in Seq(Conn \cup {0}) /\ Len(calls) <= MaxMsgs
      /\ received \in Seq(Conn \X (Id \cup {Bogus}))
    BY DEF LinkInv, LinkTypes
<1>3. PICK m \in Id : /\ m = Len(calls) /\ m \in DOMAIN calls /\ calls[m] = c
                     /\ \A e \in Conn : ~Ended(e, m)
                     /\ \A i \in DOMAIN received : received[i][2] # m
    <2>1. writing # 0
        BY <1>1 DEF Conn
    <2>2. Len(calls) \in Id
        BY <1>2, <2>1, PeerLinkAssumption DEF LinkInv, RestIsLast, Id
    <2> QED
        BY <1>1, <2>1, <2>2 DEF LinkInv, RestIsLast
<1>4. /\ DOMAIN calls = DOMAIN calls \cup {m}
      /\ \A i \in DOMAIN calls : i # m => i < m
    BY <1>2, <1>3
<1> DEFINE data == payload(m)
<1>5. /\ data \in Seq(Cell) /\ Len(data) = 2
      /\ \A k \in 1..2 : data[k] = <<m, 2 + k>>
    BY DEF payload, Cell
<1> HIDE DEF data
<1>6. /\ cells' \in [Conn -> Seq(Cell)]
      /\ \A e \in Conn :
             /\ Len(cells[e]) <= Len(cells'[e])
             /\ \A k \in DOMAIN cells[e] : /\ k \in DOMAIN cells'[e]
                                           /\ cells'[e][k] = cells[e][k]
             /\ \A k \in DOMAIN cells'[e] \ DOMAIN cells[e] :
                    /\ e = c /\ cells'[e][k][1] = m
                    /\ cells'[e][k][2] = 4 => 2 = 2 /\ k = Len(cells'[e])
                    /\ \A j \in DOMAIN cells[e] : j < k
    <2>1. Writes(c, write_all(cells[c], data))
        BY <1>1, <1>3 DEF data
    <2> QED
        BY <1>2, <1>5, <2>1, WritesIs
<1>7. /\ StreamsInOrder' /\ TakenInOrder' /\ OnceAndInOrder'
      /\ \A e \in Conn : \A i \in Id \ {m} : Ended(e, i)' <=> Ended(e, i)
    <2>1. /\ UNCHANGED received /\ DOMAIN calls' = DOMAIN calls \cup {m}
          /\ \A i \in DOMAIN calls : calls'[i] = calls[i] /\ (i # m => i < m)
        BY <1>1, <1>4
    <2>2. \A e \in Conn :
              /\ Len(cells[e]) <= Len(cells'[e])
              /\ \A k \in DOMAIN cells[e] : /\ k \in DOMAIN cells'[e]
                                            /\ cells'[e][k] = cells[e][k]
              /\ \A k \in DOMAIN cells'[e] \ DOMAIN cells[e] :
                     /\ e = calls'[m] /\ cells'[e][k][1] = m
                     /\ cells'[e][k][2] = 4 => k = Len(cells'[e])
                     /\ \A j \in DOMAIN cells[e] : j < k
        <3>1. calls'[m] = c
            BY <1>1, <1>3
        <3> QED
            BY <1>6, <3>1, Zenon
    <2> QED
        BY <1>3, <1>6, <2>1, <2>2, MoreCells, Zenon
<1>8. LinkTypes'
    <2>1. arrived' \in [Conn -> Nat] /\ \A e \in Conn : arrived'[e] <= Len(cells'[e])
        BY <1>1, <1>6, StillArrived
    <2> QED
        BY <1>1, <1>2, <1>6, <2>1 DEF LinkTypes
<1>9. RestIsLast'
    BY <1>1 DEF RestIsLast
<1>10. LinkInv'
    BY <1>7, <1>8, <1>9 DEF LinkInv
<1>11. ASSUME NEW i \in Id PROVE OnItsWay(i)' \subseteq OnItsWay(i)
    <2> SUFFICES ASSUME NEW e \in OnItsWay(i)' PROVE e \in OnItsWay(i)
        OBVIOUS
    <2>1. e \in Conn /\ \E k \in DOMAIN cells'[e] : cells'[e][k] = <<i, 4>>
        <3>1. e \in Conn /\ e # writing'
            BY <1>1 DEF OnItsWay, Conn
        <3> QED
            BY <3>1 DEF OnItsWay
    <2>2. PICK k \in DOMAIN cells'[e] : cells'[e][k] = <<i, 4>>
        BY <2>1
    <2>3. CASE i # m
        BY <1>7, <2>1, <2>3, Zenon DEF Ended, OnItsWay
    <2>4. CASE i = m
        <3>1. k \notin DOMAIN cells[e]
            <4> SUFFICES ASSUME k \in DOMAIN cells[e] PROVE FALSE
                OBVIOUS
            <4>1. cells'[e][k] = cells[e][k]
                BY <1>6, <2>1
            <4>2. Ended(e, m)
                BY <2>2, <2>4, <4>1, Zenon DEF Ended
            <4> QED
                BY <1>3, <2>1, <4>2
        <3>2. e = c
            BY <1>6, <2>1, <2>2, <3>1
        <3> QED
            BY <1>1, <1>3, <2>4, <3>2 DEF OnItsWay
    <2> QED
        BY <2>3, <2>4
<1> QED
    BY <1>1, <1>10, <1>11

\* A kill of the receiver empties every stream.
LEMMA KillReceiverStep ==
    ASSUME LinkInv, kill_receiver
    PROVE  LinkInv'
<1>1. /\ UNCHANGED <<peer, writing, calls, received>>
      /\ cells' = [c \in Conn |-> << >>] /\ arrived' = [c \in Conn |-> 0]
    BY DEF kill_receiver
<1>2. /\ cells' \in [Conn -> Seq(Cell)]
      /\ \A c \in Conn : cells'[c] = << >> /\ DOMAIN cells'[c] = {}
    BY <1>1
<1>3. LinkTypes'
    <2>1. arrived' \in [Conn -> Nat] /\ \A c \in Conn : arrived'[c] <= Len(cells'[c])
        BY <1>1, <1>2
    <2> QED
        BY <1>1, <1>2, <2>1 DEF LinkInv, LinkTypes
<1>4. StreamsInOrder'
    BY <1>2 DEF StreamsInOrder
<1>5. \A i \in DOMAIN received : received[i][1] \in Conn
    BY DEF LinkInv, LinkTypes
<1>6. TakenInOrder'
    BY <1>1, <1>2, <1>5 DEF LinkInv, TakenInOrder
<1>7. OnceAndInOrder'
    BY <1>1, Zenon DEF LinkInv, OnceAndInOrder
<1>8. RestIsLast'
    BY <1>1, <1>2 DEF LinkInv, RestIsLast, Ended
<1> QED
    BY <1>3, <1>4, <1>6, <1>7, <1>8 DEF LinkInv

\* The invariant holds at the start.
LEMMA LinkInit == Init => LinkInv
<1> SUFFICES ASSUME Init PROVE LinkInv
    OBVIOUS
<1>1. /\ peer = 0 /\ writing = 0 /\ calls = << >> /\ received = << >>
      /\ cells = [c \in Conn |-> << >>] /\ arrived = [c \in Conn |-> 0]
    BY DEF Init
<1>2. /\ cells \in [Conn -> Seq(Cell)] /\ DOMAIN received = {}
      /\ \A c \in Conn : cells[c] = << >> /\ DOMAIN cells[c] = {}
    BY <1>1
<1>3. LinkTypes
    BY <1>1, <1>2, PeerLinkAssumption DEF LinkTypes
<1>4. StreamsInOrder /\ TakenInOrder /\ OnceAndInOrder /\ RestIsLast
    BY <1>1, <1>2 DEF StreamsInOrder, TakenInOrder, OnceAndInOrder, RestIsLast
<1> QED
    BY <1>3, <1>4 DEF LinkInv

\* What the steps of the link are to its messages: besides the writes, a poll and
\* a kill of the receiver, none touches a stream's contents.
LEMMA OtherSteps ==
    ASSUME LinkInv, [Next]_vars
    PROVE  \/ send \/ send_rest \/ kill_receiver \/ \E c \in Conn : poll_client(c)
           \/ /\ UNCHANGED <<cells, calls, received>>
              /\ peer' \in Conn \cup {0} /\ writing' \in {0, writing}
              /\ arrived' \in [Conn -> Nat]
              /\ \A c \in Conn : arrived'[c] <= Len(cells[c])
<1>1. /\ peer \in Conn \cup {0} /\ arrived \in [Conn -> Nat]
      /\ \A c \in Conn : arrived[c] <= Len(cells[c]) /\ Len(cells[c]) \in Nat
    BY DEF LinkInv, LinkTypes
<1> DEFINE Quiet == /\ UNCHANGED <<cells, calls, received>>
                    /\ peer' \in Conn \cup {0} /\ writing' \in {0, writing}
                    /\ arrived' \in [Conn -> Nat]
                    /\ \A c \in Conn : arrived'[c] <= Len(cells[c])
<1>2. CASE connect_peer
    BY <1>1, <1>2 DEF connect_peer, Connects
<1>3. CASE poll_peer
    BY <1>1, <1>3 DEF poll_peer, streams
<1>4. ASSUME NEW c \in Conn, Arrive(c) PROVE Quiet
    <2>1. UNCHANGED <<peer, writing, cells, calls, received>>
        BY <1>4 DEF Arrive
    <2>2. PICK n \in (arrived[c] + 1)..Len(cells[c]) : arrived' = [arrived EXCEPT ![c] = n]
        BY <1>4 DEF Arrive
    <2>3. n \in Nat /\ n <= Len(cells[c])
        BY <1>1, <2>2
    <2> QED
        BY <1>1, <2>1, <2>2, <2>3
<1>5. ASSUME NEW c \in Conn, accept(c) PROVE Quiet
    BY <1>1, <1>5 DEF accept
<1>6. CASE kill_sender
    BY <1>1, <1>6 DEF kill_sender, streams
<1>7. ASSUME NEW p, start(p) PROVE Quiet
    BY <1>1, <1>7 DEF start, streams
<1>8. CASE UNCHANGED vars
    BY <1>1, <1>8 DEF vars, streams
<1> HIDE DEF Quiet
<1>9. \/ send \/ send_rest \/ kill_receiver \/ (\E c \in Conn : poll_client(c)) \/ Quiet
    BY <1>2, <1>3, <1>4, <1>5, <1>6, <1>7, <1>8, Zenon DEF Next, Quiet
<1> QED
    BY <1>9 DEF Quiet

\* Every step keeps the invariant.
LEMMA LinkNext == LinkInv /\ [Next]_vars => LinkInv'
<1> SUFFICES ASSUME LinkInv, [Next]_vars PROVE LinkInv'
    OBVIOUS
<1>1. CASE send
    BY <1>1, SendStep
<1>2. CASE send_rest
    BY <1>2, SendRestStep
<1>3. CASE kill_receiver
    BY <1>3, KillReceiverStep
<1>4. ASSUME NEW c \in Conn, poll_client(c) PROVE LinkInv'
    BY <1>4, PollStep
<1> QED
    BY <1>1, <1>2, <1>3, <1>4, OtherSteps, StillStep, Zenon

\* The invariant holds throughout.
LEMMA LinkAlways == Spec => []LinkInv
    BY LinkInit, LinkNext, PTL DEF Spec
------------------------------------------------------------------------------
(* The refinement                                                           *)

\* Message m has been handed over.
Handed(m) == \E k \in DOMAIN received : received[k][2] = m

\* A message is handed over once, or on its way once, or neither any more.
Counted ==
    \A m \in Id :
        /\ Occurrences(m) = IF Handed(m) THEN 1 ELSE 0
        /\ Cardinality(OnItsWay(m)) = IF OnItsWay(m) = {} THEN 0 ELSE 1
        /\ ~(Handed(m) /\ OnItsWay(m) # {})

\* The invariant gives the counts of the refinement.
LEMMA InvCounts == LinkInv => Counted
<1> SUFFICES ASSUME LinkInv, NEW m \in Id
             PROVE  /\ Occurrences(m) = IF Handed(m) THEN 1 ELSE 0
                    /\ Cardinality(OnItsWay(m)) = IF OnItsWay(m) = {} THEN 0 ELSE 1
                    /\ ~(Handed(m) /\ OnItsWay(m) # {})
    BY DEF Counted
<1>1. m # Bogus /\ ~(m < m) /\ 0 \notin Conn
    BY PeerLinkAssumption DEF Id, Conn
<1>2. ASSUME NEW c \in OnItsWay(m)
      PROVE  /\ calls[m] = c
             /\ \A i \in DOMAIN received : received[i][2] = m => received[i][1] # c
    <2>1. CASE \E k \in DOMAIN cells[c] : cells[c][k] = <<m, 4>>
        <3>1. PICK k \in DOMAIN cells[c] : cells[c][k] = <<m, 4>>
            BY <2>1
        <3>2. c \in Conn /\ cells[c][k][1] = m /\ cells[c][k][2] = 4
            BY <1>2, <3>1 DEF OnItsWay
        <3>3. calls[m] = c
            BY <3>2 DEF LinkInv, StreamsInOrder
        <3>4. \A i \in DOMAIN received :
                  received[i][2] = m /\ received[i][1] = c => received[i][2] < m
            BY <1>1, <3>2, Zenon DEF LinkInv, TakenInOrder
        <3> QED
            BY <1>1, <3>3, <3>4
    <2>2. CASE c = writing /\ m = Len(calls)
        <3>1. writing # 0
            BY <1>1, <1>2, <2>2 DEF OnItsWay
        <3> QED
            BY <2>2, <3>1 DEF LinkInv, RestIsLast
    <2> QED
        BY <1>2, <2>1, <2>2 DEF OnItsWay
<1>3. ASSUME NEW i \in DOMAIN received, received[i][2] = m
      PROVE  calls[m] = received[i][1] /\ received[i][1] \in Conn
    <2>1. received[i][1] \in Conn
        BY DEF LinkInv, LinkTypes
    <2> QED
        BY <1>1, <1>3, <2>1 DEF LinkInv, TakenInOrder
<1>4. ~(Handed(m) /\ OnItsWay(m) # {})
    BY <1>2, <1>3 DEF Handed
<1>5. Occurrences(m) = IF Handed(m) THEN 1 ELSE 0
    <2> DEFINE K == {k \in DOMAIN received : received[k][2] = m}
    <2>1. CASE ~Handed(m)
        <3>1. K = {}
            BY <2>1 DEF Handed
        <3> QED
            BY <2>1, <3>1, FS_EmptySet DEF Occurrences
    <2>2. CASE Handed(m)
        <3>1. PICK i \in DOMAIN received : received[i][2] = m
            BY <2>2 DEF Handed
        <3>2. ASSUME NEW j \in K PROVE j = i
            <4>1. received[i][1] = received[j][1]
                BY <1>3, <3>1
            <4>2. DOMAIN received = 1..Len(received) /\ Len(received) \in Nat
                BY DEF LinkInv, LinkTypes
            <4>3. i \in Int /\ j \in Int
                BY <4>2
            <4>4. ~(i < j)
                BY <1>1, <3>1, <4>1, Zenon DEF LinkInv, OnceAndInOrder
            <4>5. ~(j < i)
                BY <1>1, <3>1, <4>1, Zenon DEF LinkInv, OnceAndInOrder
            <4> QED
                BY <4>3, <4>4, <4>5
        <3>3. K = {i}
            BY <3>1, <3>2
        <3> QED
            BY <2>2, <3>3, FS_Singleton DEF Occurrences
    <2> QED
        BY <2>1, <2>2
<1>6. Cardinality(OnItsWay(m)) = IF OnItsWay(m) = {} THEN 0 ELSE 1
    <2>1. CASE OnItsWay(m) = {}
        BY <2>1, FS_EmptySet
    <2>2. CASE OnItsWay(m) # {}
        <3>1. OnItsWay(m) = {calls[m]}
            BY <1>2, <2>2
        <3> QED
            BY <2>2, <3>1, FS_Singleton
    <2> QED
        BY <2>1, <2>2
<1> QED
    BY <1>4, <1>5, <1>6

\* A send of the link is a Send of the network, of a message that is on its way
\* once or not at all.
LEMMA SendRefines ==
    ASSUME LinkInv, send
    PROVE  Channel!NetworkNext
<1> DEFINE F == [i \in Id |-> Cardinality(OnItsWay(i))]
<1>1. LinkInv' /\ UNCHANGED received
    BY SendStep, Zenon
<1>2. PICK m \in Id :
          /\ m \notin DOMAIN calls /\ DOMAIN calls' = DOMAIN calls \cup {m}
          /\ \A i \in Id \ {m} : OnItsWay(i)' = OnItsWay(i)
    BY SendStep, Zenon
<1>3. Counted'
    BY <1>1, InvCounts, PTL
<1>4. Cardinality(OnItsWay(m)') \in 0..1
    <2>1. \A i \in Id : Cardinality(OnItsWay(i)') \in {0, 1}
        BY <1>3, Zenon DEF Counted
    <2> QED
        BY <2>1
<1>5. \A i \in Id \ {m} : Cardinality(OnItsWay(i)') = Cardinality(OnItsWay(i))
    BY <1>2, Zenon
<1>6. [i \in Id |-> Cardinality(OnItsWay(i)')] = [F EXCEPT ![m] = Cardinality(OnItsWay(m)')]
    BY <1>2, <1>5
<1>7. [i \in Id |-> Occurrences(i)]' = [i \in Id |-> Occurrences(i)]
    BY <1>1 DEF Occurrences
<1>8. Channel!Send(m)
    BY <1>2, <1>4, <1>6, <1>7 DEF Channel!Send
<1> QED
    BY <1>2, <1>8 DEF Channel!NetworkNext

\* A step that takes messages off their way, and hands over only such, is a Pass.
LEMMA TakeRefines ==
    ASSUME LinkInv, LinkInv', UNCHANGED calls,
           \A m \in Id : OnItsWay(m)' \subseteq OnItsWay(m),
           \A m \in Id : Handed(m) => Handed(m)',
           \A m \in Id : Handed(m)' => Handed(m) \/ OnItsWay(m) # {}
    PROVE  Channel!NetworkNext
<1>1. Counted /\ Counted'
    BY InvCounts, PTL
<1> DEFINE f(m) == Cardinality(OnItsWay(m))
           g(m) == Cardinality(OnItsWay(m)')
           o(m) == Occurrences(m)
           q(m) == Occurrences(m)'
<1>2. ASSUME NEW m \in Id
      PROVE  /\ g(m) \in 0..1 /\ q(m) \in 0..1
             /\ g(m) <= f(m) /\ q(m) \in o(m)..(o(m) + f(m) - g(m))
    <2>1. /\ o(m) = IF Handed(m) THEN 1 ELSE 0
          /\ f(m) = IF OnItsWay(m) = {} THEN 0 ELSE 1
        BY <1>1, Zenon DEF Counted
    <2>2. /\ q(m) = IF Handed(m)' THEN 1 ELSE 0
          /\ g(m) = IF OnItsWay(m)' = {} THEN 0 ELSE 1
          /\ ~(Handed(m)' /\ OnItsWay(m)' # {})
        BY <1>1, Zenon DEF Counted
    <2>3. OnItsWay(m)' # {} => OnItsWay(m) # {}
        OBVIOUS
    <2> HIDE DEF f, g, o, q
    <2>4. CASE OnItsWay(m)' # {}
        BY <2>1, <2>2, <2>3, <2>4
    <2>5. CASE OnItsWay(m)' = {} /\ Handed(m)'
        BY <2>1, <2>2, <2>5
    <2>6. CASE OnItsWay(m)' = {} /\ ~Handed(m)'
        BY <2>1, <2>2, <2>6
    <2> QED
        BY <2>4, <2>5, <2>6
<1>3. /\ [m \in Id |-> g(m)] \in [Id -> 0..1]
      /\ [m \in Id |-> q(m)] \in [Id -> 0..1]
    BY <1>2
<1>4. Channel!Pass
    BY <1>3, <1>2 DEF Channel!Pass
<1> QED
    BY <1>4 DEF Channel!NetworkNext

\* Polls are such steps.
LEMMA PollRefines ==
    ASSUME LinkInv, LinkInv', NEW c \in Conn, poll_client(c)
    PROVE  Channel!NetworkNext
<1>1. PICK d \in 0..Len(cells[c]), left \in Seq(Cell), a \in Nat :
          /\ cells' = [cells EXCEPT ![c] = left]
          /\ arrived' = [arrived EXCEPT ![c] = a] /\ a <= Len(left)
          /\ Len(left) = Len(cells[c]) - d
          /\ \A k \in 1..Len(left) : left[k] = cells[c][d + k]
          /\ \/ received' = received
             \/ \E x \in Id \cup {Bogus} :
                    /\ received' = Append(received, <<c, x>>)
                    /\ x # Bogus => 4 <= d /\ cells[c][4] = <<x, 4>>
    BY PollIs
<1>2. UNCHANGED <<writing, calls>>
    BY DEF poll_client
<1>3. /\ cells \in [Conn -> Seq(Cell)]
      /\ received \in Seq(Conn \X (Id \cup {Bogus}))
      /\ Len(cells[c]) \in Nat /\ DOMAIN cells[c] = 1..Len(cells[c])
      /\ DOMAIN left = 1..Len(left)
    <2>1. cells \in [Conn -> Seq(Cell)] /\ received \in Seq(Conn \X (Id \cup {Bogus}))
        BY DEF LinkInv, LinkTypes
    <2>2. cells[c] \in Seq(Cell)
        BY <2>1
    <2> QED
        BY <2>1, <2>2, LenProperties
<1>4. cells'[c] = left /\ \A e \in Conn \ {c} : cells'[e] = cells[e]
    BY <1>1, <1>3
<1>5. ASSUME NEW m \in Id PROVE OnItsWay(m)' \subseteq OnItsWay(m)
    <2> SUFFICES ASSUME NEW e \in OnItsWay(m)' PROVE e \in OnItsWay(m)
        OBVIOUS
    <2>1. /\ e \in Conn
          /\ \/ \E k \in DOMAIN cells'[e] : cells'[e][k] = <<m, 4>>
             \/ e = writing /\ m = Len(calls)
        BY <1>2, Zenon DEF OnItsWay
    <2>2. CASE e # c
        BY <1>4, <2>1, <2>2 DEF OnItsWay
    <2>3. CASE e = writing /\ m = Len(calls)
        BY <2>1, <2>3 DEF OnItsWay
    <2>4. CASE e = c /\ \E k \in DOMAIN cells'[e] : cells'[e][k] = <<m, 4>>
        <3>1. PICK k \in DOMAIN left : left[k] = <<m, 4>>
            BY <1>4, <2>4
        <3>2. d + k \in DOMAIN cells[c] /\ left[k] = cells[c][d + k]
            <4>1. k \in 1..Len(left) /\ d \in Nat /\ Len(left) = Len(cells[c]) - d
                BY <1>1, <1>3
            <4>2. d + k \in 1..Len(cells[c])
                BY <1>3, <4>1
            <4> QED
                BY <1>1, <1>3, <4>1, <4>2
        <3> QED
            BY <2>4, <3>1, <3>2 DEF OnItsWay
    <2> QED
        BY <2>1, <2>2, <2>3, <2>4
<1>6. CASE received' = received
    <2>1. \A m \in Id : Handed(m)' <=> Handed(m)
        BY <1>6, Zenon DEF Handed
    <2> QED
        BY <1>2, <1>5, <2>1, TakeRefines
<1>7. ASSUME NEW x \in Id \cup {Bogus},
             received' = Append(received, <<c, x>>),
             x # Bogus => 4 <= d /\ cells[c][4] = <<x, 4>>
      PROVE  Channel!NetworkNext
    <2> DEFINE n == Len(received) + 1
    <2>1. /\ DOMAIN received' = DOMAIN received \cup {n}
          /\ \A i \in DOMAIN received : received'[i] = received[i]
          /\ received'[n][2] = x
        <3>1. <<c, x>> \in Conn \X (Id \cup {Bogus})
            OBVIOUS
        <3>2. /\ received' \in Seq(Conn \X (Id \cup {Bogus}))
              /\ Len(received') = Len(received) + 1
              /\ \A i \in 1..Len(received) : received'[i] = received[i]
              /\ received'[Len(received) + 1] = <<c, x>>
            BY <1>3, <1>7, <3>1, AppendProperties
        <3>3. /\ DOMAIN received = 1..Len(received) /\ Len(received) \in Nat
              /\ DOMAIN received' = 1..Len(received')
            BY <1>3, <3>2, LenProperties
        <3>4. DOMAIN received' = DOMAIN received \cup {n}
            BY <3>2, <3>3
        <3> QED
            BY <3>2, <3>3, <3>4
    <2> HIDE DEF n
    <2>2. \A m \in Id : Handed(m) => Handed(m)'
        BY <2>1, Zenon DEF Handed
    <2>3. x # Bogus => c \in OnItsWay(x)
        <3>1. x # Bogus => 4 \in DOMAIN cells[c]
            BY <1>3, <1>7
        <3> QED
            BY <1>7, <3>1 DEF OnItsWay
    <2>4. ASSUME NEW m \in Id, Handed(m)' PROVE Handed(m) \/ OnItsWay(m) # {}
        <3>1. m # Bogus
            BY PeerLinkAssumption DEF Id
        <3>2. PICK k \in DOMAIN received' : received'[k][2] = m
            BY <2>4, Zenon DEF Handed
        <3>3. CASE k = n
            BY <2>1, <2>3, <3>1, <3>2, <3>3
        <3>4. CASE k \in DOMAIN received
            BY <2>1, <3>2, <3>4 DEF Handed
        <3> QED
            BY <2>1, <3>3, <3>4
    <2> QED
        BY <1>2, <1>5, <2>2, <2>4, TakeRefines
<1> QED
    BY <1>1, <1>6, <1>7

\* So are a kill of the receiver, the second write, and the steps that leave the
\* streams alone.
LEMMA LossRefines ==
    ASSUME LinkInv, LinkInv', UNCHANGED <<calls, received>>,
           \A m \in Id : OnItsWay(m)' \subseteq OnItsWay(m)
    PROVE  Channel!NetworkNext
<1>1. \A m \in Id : Handed(m)' <=> Handed(m)
    BY Zenon DEF Handed
<1> QED
    BY <1>1, TakeRefines

\* The connections of main.rs:76-176, with the codec of codec.rs:5-29, implement
\* LossyNetwork with a single copy, whatever the segments of TCP cut in two, however
\* small the socket buffers are, however often either process is killed and whenever
\* streams are closed and opened again: a message of Id that is handed to a node was
\* sent to it, and none comes twice.  Of what a reader out of step takes for a
\* message and nobody sent, it says nothing.
THEOREM LinkRefinement == Spec => ImplementsLossyNetwork
<1>1. Init => Channel!NetworkInit
    <2> SUFFICES ASSUME Init PROVE Channel!NetworkInit
        OBVIOUS
    <2>1. /\ DOMAIN calls = {} /\ DOMAIN received = {} /\ writing = 0
          /\ \A c \in Conn : DOMAIN cells[c] = {} /\ c # 0
        BY DEF Init, Conn
    <2>2. \A m \in Id : OnItsWay(m) = {} /\ Occurrences(m) = Cardinality({})
        BY <2>1 DEF OnItsWay, Occurrences
    <2>3. /\ [m \in Id |-> Cardinality(OnItsWay(m))] = [m \in Id |-> 0]
          /\ [m \in Id |-> Occurrences(m)] = [m \in Id |-> 0]
        BY <2>2, FS_EmptySet
    <2> QED
        BY <2>1, <2>3 DEF Channel!NetworkInit
<1>2. LinkInv /\ LinkInv' /\ [Next]_vars => [Channel!NetworkNext]_(Channel!networkVars)
    <2> SUFFICES ASSUME LinkInv, LinkInv', [Next]_vars PROVE Channel!NetworkNext
        OBVIOUS
    <2>1. CASE send
        BY <2>1, SendRefines
    <2>2. CASE send_rest
        <3>1. UNCHANGED <<calls, received>> /\ \A m \in Id : OnItsWay(m)' \subseteq OnItsWay(m)
            BY <2>2, SendRestStep
        <3> QED
            BY <3>1, LossRefines
    <2>3. CASE kill_receiver
        <3>1. /\ UNCHANGED <<writing, calls, received>>
              /\ \A c \in Conn : DOMAIN cells'[c] = {}
            BY <2>3 DEF kill_receiver
        <3>2. \A m \in Id : OnItsWay(m)' \subseteq OnItsWay(m)
            BY <3>1 DEF OnItsWay
        <3> QED
            BY <3>1, <3>2, LossRefines
    <2>4. ASSUME NEW c \in Conn, poll_client(c) PROVE Channel!NetworkNext
        BY <2>4, PollRefines
    <2>5. CASE UNCHANGED <<cells, calls, received>> /\ writing' \in {0, writing}
        <3>1. \A m \in Id : OnItsWay(m)' \subseteq OnItsWay(m)
            BY <2>5 DEF OnItsWay, Conn
        <3> QED
            BY <2>5, <3>1, LossRefines
    <2> QED
        BY <2>1, <2>2, <2>3, <2>4, <2>5, OtherSteps, Zenon
<1> QED
    BY <1>1, <1>2, LinkAlways, PTL
       DEF Spec, ImplementsLossyNetwork, Channel!NetworkSpec

\* Wherever frames are cut and however small the buffers are, so that codec.rs:20
\* and codec.rs:24 lose their place in a stream: of what one stream carried the node
\* is handed messages in the order in which they were sent, and no message twice
\* over all streams.  What is skipped is lost, never reordered or repeated.
THEOREM OrderIsKept ==
    Spec => [](OnceAndInOrder /\ \A m \in Id : Occurrences(m) <= 1)
<1>1. LinkInv => OnceAndInOrder /\ \A m \in Id : Occurrences(m) <= 1
    <2> SUFFICES ASSUME LinkInv, NEW m \in Id PROVE Occurrences(m) <= 1
        BY DEF LinkInv
    <2>1. Occurrences(m) = IF Handed(m) THEN 1 ELSE 0
        BY InvCounts DEF Counted
    <2> QED
        BY <2>1
<1> QED
    BY <1>1, LinkAlways, PTL
==============================================================================
