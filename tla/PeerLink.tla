------------------------------ MODULE PeerLink -------------------------------
(***************************************************************************)
(* raft-server/src/main.rs: how the messages of one server reach another.  *)
(* The sender keeps at most one stream to the receiver, in                 *)
(* peer_connections, and only writes to it; what the receiver answers goes *)
(* over its own stream the other way.  The receiver accepts streams into   *)
(* client_connections and polls every one of them.  Both processes may be  *)
(* killed and started again.                                               *)
(***************************************************************************)
EXTENDS FramedStream, FiniteSets

CONSTANTS MaxMsgs, MaxKills   \* bounds

ASSUME PeerLinkAssumption ==
    /\ MaxMsgs \in Nat /\ MaxKills \in Nat
    /\ Window \in Nat /\ Bogus \notin 1..MaxMsgs

Id   == 1..MaxMsgs
\* A stream is opened for the first time, after a kill, and after a frame that
\* does not decode.
Conn == 1..(1 + MaxKills + MaxMsgs)

VARIABLES up,        \* which of "sender" and "receiver" run
          peer,      \* peer_connections[receiver]: a stream, or 0
          writing,   \* the stream whose next message lacks its payload, or 0
          opened,    \* how many streams have been opened
          cells,     \* written to each stream and not read
          arrived,   \* how many of them the receiver can read
          backlog,   \* streams the listener has not accepted yet
          clients,   \* client_connections
          calls,     \* history: the stream each message was sent on, or 0
          received,  \* history: <<stream, message>> in the order of arrival
          cut,       \* history: streams on which a write fell short, or a poll
                     \* found part of a frame
          kills

streams == <<opened, cells, arrived, backlog, clients>>
vars == <<up, peer, writing, streams, calls, received, cut, kills>>

Init ==
    /\ up = {"sender", "receiver"} /\ peer = 0 /\ writing = 0 /\ opened = 0
    /\ cells = [c \in Conn |-> << >>] /\ arrived = [c \in Conn |-> 0]
    /\ backlog = {} /\ clients = {} /\ calls = << >> /\ received = << >>
    /\ cut = {} /\ kills = 0

\* The receiver's end exists: accepted, or waiting to be.
Open(c) == c \in backlog \cup clients
------------------------------------------------------------------------------
(* The sender's loop, one thread: nothing else happens between the writes.    *)

AtLeisure == "sender" \in up /\ writing = 0

\* TcpStream::connect succeeds while someone listens.
Connects(c) ==
    /\ "receiver" \in up /\ c = opened + 1
    /\ opened' = c /\ backlog' = backlog \cup {c} /\ peer' = c

connect_peer ==
    /\ AtLeisure /\ peer = 0
    /\ \E c \in Conn : Connects(c)
    /\ UNCHANGED <<up, writing, cells, arrived, clients, calls, received, cut, kills>>

\* Mutant: a stream that failed is kept.
poll_peer_keeps ==
    /\ AtLeisure /\ peer # 0 /\ ~Open(peer)
    /\ UNCHANGED vars

\* The stream is read as well, and ends when the receiver has closed it.
poll_peer ==
    /\ AtLeisure /\ peer # 0 /\ ~Open(peer)
    /\ peer' = 0
    /\ UNCHANGED <<up, writing, streams, calls, received, cut, kills>>

\* One write to stream c: it goes nowhere if the receiver has closed c, and
\* nobody looks at the result.
Writes(c, w) ==
    /\ cells' = IF Open(c)' THEN [cells EXCEPT ![c] = w.cells] ELSE cells
    /\ cut' = IF Open(c)' /\ ~w.ok THEN cut \cup {c} ELSE cut

\* Action::Send on the stream there is, on a new one, or not at all: the header.
send ==
    LET m == Len(calls) + 1
    IN  /\ AtLeisure /\ m \in Id
        /\ UNCHANGED <<up, arrived, clients, received, kills>>
        /\ \/ \E c \in Conn :
                  LET w == send_header(cells[c], m)
                  IN  /\ \/ c = peer /\ UNCHANGED <<peer, opened, backlog>>
                         \/ peer = 0 /\ Connects(c)
                      /\ Writes(c, w)
                      /\ writing' = IF Open(c)' /\ w.ok THEN c ELSE 0
           \/ /\ peer = 0 /\ "receiver" \notin up
              /\ UNCHANGED <<cells, peer, writing, opened, backlog, cut>>
        /\ calls' = Append(calls, peer')

\* And the payload, after whatever the receiver has done in between.
send_rest ==
    /\ UNCHANGED <<up, peer, opened, arrived, backlog, clients, calls, received, kills>>
    /\ \E c \in Conn : /\ c = writing /\ writing' = 0
                       /\ Writes(c, send_payload(cells[c], Len(calls)))
------------------------------------------------------------------------------
(* TCP: the next segment, which may end anywhere.                           *)

Arrive(c) ==
    /\ Open(c) /\ arrived[c] < Len(cells[c])
    /\ \E n \in (arrived[c] + 1)..Len(cells[c]) : arrived' = [arrived EXCEPT ![c] = n]
    /\ UNCHANGED <<up, peer, writing, opened, cells, backlog, clients, calls,
                   received, cut, kills>>
------------------------------------------------------------------------------
(* The receiver's loop                                                      *)

accept(c) ==
    /\ "receiver" \in up /\ c \in backlog
    /\ backlog' = backlog \ {c} /\ clients' = clients \cup {c}
    /\ UNCHANGED <<up, peer, writing, opened, cells, arrived, calls, received, cut, kills>>

\* The sender's end of the stream is closed and everything written has come.
AtEnd(c) == peer # c /\ arrived[c] = Len(cells[c])

\* One poll of one stream: a message for the node, nothing, or an error that
\* closes the stream.
poll_client(c) ==
    /\ "receiver" \in up /\ c \in clients
    /\ \E r \in recv_framed_msg(SubSeq(cells[c], 1, arrived[c]), AtEnd(c)) :
           LET keep == r.result \in {"Ok", "WouldBlock"}
               left == r.rest \o SubSeq(cells[c], arrived[c] + 1, Len(cells[c]))
           IN  /\ cells' = [cells EXCEPT ![c] = IF keep THEN left ELSE << >>]
               /\ arrived' = [arrived EXCEPT ![c] = IF keep THEN Len(r.rest) ELSE 0]
               /\ clients' = IF keep THEN clients ELSE clients \ {c}
               /\ received' = IF r.result = "Ok"
                              THEN Append(received, <<c, r.msg>>) ELSE received
               /\ cut' = IF r.result = "WouldBlock" /\ arrived[c] > 0
                         THEN cut \cup {c} ELSE cut
    /\ UNCHANGED <<up, peer, writing, opened, backlog, calls, kills>>
------------------------------------------------------------------------------
kill_sender ==
    /\ "sender" \in up /\ kills < MaxKills
    /\ up' = up \ {"sender"} /\ kills' = kills + 1
    /\ peer' = 0 /\ writing' = 0
    /\ UNCHANGED <<streams, calls, received, cut>>

\* Everything not read is gone, and the sender's stream has ended.
kill_receiver ==
    /\ "receiver" \in up /\ kills < MaxKills
    /\ up' = up \ {"receiver"} /\ kills' = kills + 1
    /\ backlog' = {} /\ clients' = {}
    /\ cells' = [c \in Conn |-> << >>] /\ arrived' = [c \in Conn |-> 0]
    /\ UNCHANGED <<peer, writing, opened, calls, received, cut>>

start(p) ==
    /\ p \notin up /\ up' = up \cup {p}
    /\ UNCHANGED <<peer, writing, streams, calls, received, cut, kills>>

Next ==
    \/ connect_peer \/ poll_peer \/ send \/ send_rest
    \/ \E c \in Conn : Arrive(c) \/ accept(c) \/ poll_client(c)
    \/ kill_sender \/ kill_receiver \/ \E p \in {"sender", "receiver"} : start(p)

Spec == Init /\ [][Next]_vars

\* main loops for ever while the process runs and TCP delivers what was written;
\* an operator starts a process that has been killed.
Fairness ==
    /\ WF_vars(connect_peer) /\ WF_vars(poll_peer) /\ WF_vars(send_rest)
    /\ \A c \in Conn : /\ WF_vars(Arrive(c)) /\ WF_vars(accept(c))
                       /\ WF_vars(poll_client(c))
    /\ \A p \in {"sender", "receiver"} : WF_vars(start(p))

FairSpec == Spec /\ Fairness
------------------------------------------------------------------------------
\* What a write that falls short, or a poll in the middle of a frame, spoils is
\* confined to its stream.  On any other everything sent is received or still
\* in it whole and in order, save a payload that is not written yet or never
\* was; and no message is made up.
DamageIsConfined ==
    \A c \in Conn \ cut :
        LET taken    == {x[2] : x \in {y \in Range(received) : y[1] = c}}
            frame(m) == header(m) \o payload(m)
            left     == SelectSeq([m \in DOMAIN calls |-> m],
                                  LAMBDA m : calls[m] = c /\ m \notin taken)
            whole    == FlattenSeq([k \in DOMAIN left |-> frame(left[k])])
        IN  /\ Bogus \notin taken
            /\ Open(c) => \/ cells[c] = whole
                          \/ /\ c = writing \/ c # peer
                             /\ cells[c] = SubSeq(whole, 1, Len(whole) - 2)

\* Whatever is lost, cut or garbled, no message is handed to the node twice, and
\* those of one stream come in the order in which they were sent.
OnceAndInOrder ==
    \A j, k \in DOMAIN received :
        /\ j < k /\ Bogus \notin {received[j][2], received[k][2]}
        /\ received[j][1] = received[k][1]
        => received[j][2] < received[k][2]

\* A restart of either process, or a frame that does not decode, cuts the link
\* only for a while: it keeps coming back.
LinkRecovers == []<>(peer # 0 /\ peer \in clients)

Occurrences(m) == Cardinality({k \in DOMAIN received : received[k][2] = m})

\* Where the end of message m is: in a stream, or about to be written to one.
OnItsWay(m) ==
    {c \in Conn : \/ \E k \in DOMAIN cells[c] : cells[c][k] = <<m, 4>>
                  \/ c = writing /\ m = Len(calls)}

Channel == INSTANCE LossyNetwork WITH
    Message   <- Id,
    Copies    <- 1,
    sent      <- DOMAIN calls,
    flying    <- [m \in Id |-> Cardinality(OnItsWay(m))],
    delivered <- [m \in Id |-> Occurrences(m)]

\* For the messages of the nodes the link is a LossyNetwork, wherever frames are
\* cut and whatever that makes the reader take for a message: over any number
\* of restarts and reconnections none arrives before it is sent, or twice.
ImplementsLossyNetwork == Channel!NetworkSpec
==============================================================================
