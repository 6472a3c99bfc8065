--------------------------- MODULE MCServerCluster ---------------------------
(***************************************************************************)
(* ServerCluster for TLC, started with one leader of term 1, elected by    *)
(* everybody: its no-op is on the way (LedClusterSpec), or everybody has   *)
(* acknowledged that (ServedClusterSpec).                                  *)
(***************************************************************************)
EXTENDS ServerCluster, MCSimulator

\* Padding of zeros: an entry of index 0 and term 0 with a valid checksum.
ZeroPadding == {<<sentinel(0, 0)>>}

LedClusterSpec == LedInit /\ answers = {} /\ misread = FALSE
                      /\ [][ClusterNext]_clusterVars

first == CHOOSE n \in Server : TRUE

\* The first server leads term 1 and everybody has acknowledged its no-op.
ServedInit ==
    /\ Acknowledged(first, Peers(first), << >>) /\ in_flight = {}
    /\ answers = {} /\ misread = FALSE

ServedClusterSpec == ServedInit /\ [][ClusterNext]_clusterVars

OthersSymmetry == Permutations(Server \ {first})

\* What is checked of logs ends with the first misread file.
UntilMisread == ~misread
=============================================================================
