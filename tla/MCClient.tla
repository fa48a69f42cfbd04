---- MODULE MCClient ----
EXTENDS Client, TLC

\* Nothing tells two addresses, two peers or two names apart.
Renamings == Permutations(Addrs) \cup Permutations(Peers) \cup Permutations(Names)
====
