---------------------------- MODULE FramedStream -----------------------------
(***************************************************************************)
(* raft-server/src/codec.rs: messages framed with their length on a TCP    *)
(* stream, as operators on the cells of the stream.                        *)
(*                                                                         *)
(* A frame is a header of two cells (the length prefix) and a payload of   *)
(* two: as many as it takes to cut either in two.  A cell is a frame and a *)
(* position in it.                                                         *)
(***************************************************************************)
EXTENDS Integers, Sequences, SequencesExt

CONSTANTS Bogus,    \* some message nobody sent
          Invalid,  \* bincode::deserialize fails
          Window    \* cells a stream holds before a write would block

header(m)  == <<<<m, 1>>, <<m, 2>>>>
payload(m) == <<<<m, 3>>, <<m, 4>>>>

\* write_all on a stream with the given cells in it: what fits is written.
write_all(cells, data) ==
    LET room == Window - Len(cells)
        n    == IF Len(data) < room THEN Len(data) ELSE room
    IN  [ok |-> n = Len(data), cells |-> cells \o SubSeq(data, 1, n)]

\* send_framed_msg writes twice; the ? after a header that did not fit leaves
\* out the payload.
send_header(cells, m)  == write_all(cells, header(m))
send_payload(cells, m) == write_all(cells, payload(m))

\* read_exact takes what there is, also when it is not enough.
read_exact(cells, n, eof) ==
    IF Len(cells) < n
    THEN [result |-> IF eof THEN "UnexpectedEof" ELSE "WouldBlock", rest |-> << >>]
    ELSE [result |-> "Ok", got |-> SubSeq(cells, 1, n),
          rest |-> SubSeq(cells, n + 1, Len(cells))]

\* Mutant: the length is taken to count the header as well.
lengths_of_frame(h) ==
    IF \E m \in {c[1] : c \in Range(h)} : h = header(m) THEN {4} ELSE 0..Window

\* Four bytes that are no header are some length, up to one never reached.
lengths(h) ==
    IF \E m \in {c[1] : c \in Range(h)} : h = header(m) THEN {2} ELSE 0..Window

\* Bytes that do not start with a payload fail to decode or happen to decode.
decodings(p) ==
    LET whole == {m \in {c[1] : c \in Range(p)} : IsPrefix(payload(m), p)}
    IN  IF whole # {} THEN whole ELSE {Invalid, Bogus}

\* Mutant: a message is looked at and left in the stream.
recv_framed_msg_peeking(cells, eof) ==
    LET p == read_exact(cells, 4, eof)
    IN  IF p.result # "Ok" THEN {[result |-> p.result, rest |-> cells]}
        ELSE {[result |-> "Ok", msg |-> p.got[1][1], rest |-> cells]}

\* What recv_framed_msg may return, given the cells that have arrived.
recv_framed_msg(cells, eof) ==
    LET h == read_exact(cells, 2, eof)
        after(len) == read_exact(h.rest, len, eof)
    IN  IF h.result # "Ok" THEN {h}
        ELSE {after(len) : len \in {k \in lengths(h.got) : after(k).result # "Ok"}}
             \cup UNION {{[result |-> IF m = Invalid THEN "InvalidData" ELSE "Ok",
                           msg |-> m, rest |-> after(len).rest] :
                              m \in decodings(after(len).got)} :
                         len \in {k \in lengths(h.got) : after(k).result = "Ok"}}
==============================================================================
