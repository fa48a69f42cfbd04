-------------------------- MODULE MessageChannels --------------------------
(***************************************************************************)
(* What the peer server and the client take the two directions of their    *)
(* signaling connections for.  The messages of a channel are numbered in   *)
(* the order in which they were offered; those whose sender was told that  *)
(* they are sent are handed over whole, in order and at most once, several *)
(* at a time if they come together, until at some point no more of them    *)
(* are.  PeerServer and Client are written over queues that behave like    *)
(* this; SignalWire is the code that makes such queues out of bytes.       *)
(***************************************************************************)
EXTENDS Naturals

CONSTANTS
    Channels,
    Messages   \* the numbers messages may get: a set of naturals

VARIABLES
    accepted,  \* of each channel, the messages whose sender was told that they are sent
    handed     \* those the receiving side has called its handler with

vars == <<accepted, handed>>

Init ==
    /\ accepted = [c \in Channels |-> {}]
    /\ handed   = [c \in Channels |-> {}]

Accept(c) ==
    /\ \E m \in Messages :
          /\ \A a \in accepted[c] : a < m
          /\ accepted' = [accepted EXCEPT ![c] = @ \cup {m}]
    /\ UNCHANGED handed

HandOver(c) ==
    /\ \E n \in accepted[c] \ handed[c] :
          handed' = [handed EXCEPT ![c] = {m \in accepted[c] : m <= n}]
    /\ UNCHANGED accepted

Next == \E c \in Channels : Accept(c) \/ HandOver(c)

Spec == Init /\ [][Next]_vars
=============================================================================
