---- MODULE MCDatagrams ----
EXTENDS Datagrams, TLC

\* Peers and channels are told apart only by equality.
PeersAndChannels == Permutations(Peers) \cup Permutations(Channels)
====
