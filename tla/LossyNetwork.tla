---------------------------- MODULE LossyNetwork -----------------------------
(***************************************************************************)
(* What the Raft nodes may rely on from whatever carries their messages:   *)
(* nothing arrives that was not sent, and no message more than Copies      *)
(* times.  It may be lost, delayed for ever or overtaken.  SimNetwork and  *)
(* PeerLink are shown to implement this.                                   *)
(***************************************************************************)
EXTENDS Integers

CONSTANTS Message,   \* one element for each call of send
          Copies     \* arrivals a single send can lead to

VARIABLES sent, flying, delivered

networkVars == <<sent, flying, delivered>>

NetworkInit ==
    /\ sent = {}
    /\ flying = [m \in Message |-> 0]
    /\ delivered = [m \in Message |-> 0]

Send(m) ==
    /\ m \in Message \ sent
    /\ sent' = sent \cup {m}
    /\ \E c \in 0..Copies : flying' = [flying EXCEPT ![m] = c]
    /\ UNCHANGED delivered

\* Copies arrive or get lost, several in one step if need be.
Pass ==
    /\ flying' \in [Message -> 0..Copies]
    /\ delivered' \in [Message -> 0..Copies]
    /\ \A m \in Message :
           /\ flying'[m] <= flying[m]
           /\ delivered'[m] \in delivered[m] .. (delivered[m] + flying[m] - flying'[m])
    /\ UNCHANGED sent

NetworkNext == Pass \/ \E m \in Message : Send(m)

NetworkSpec == NetworkInit /\ [][NetworkNext]_networkVars
==============================================================================
