---------------------------- MODULE MCPeerServer ----------------------------
(* Values for model checking PeerServer. *)
EXTENDS PeerServer, TLC

CONSTANTS g1, g2

\* One game that does not verify, as the Anonymous DB creates them.
OpenDB == "t1" :> [game_id |-> g1, secret |-> "s1", verify |-> FALSE]

\* A flat file with an open game and one that verifies signatures.
VerifyDB == OpenDB @@ ("t2" :> [game_id |-> g2, secret |-> "s2", verify |-> TRUE])

\* The HelloServer of a client that knows the secret of t and has no
\* authToken, of one without WebRTC, and of one that does not know the secret.
Good(t, s) == SignedHello(TRUE, t, s, << >>, << >>, <<"timestamp">>)
OpenHellos == {Good("t1", "s1")}
MixedHellos ==
    {Good("t1", "s1"), Good("t2", "s2"),
     SignedHello(FALSE, "t1", "s1", << >>, << >>, <<"timestamp">>),
     Good("t2", "guess"), Good("t3", "s1")}

\* A client that passes an auth_token to humblenet_p2p_init.
AuthTokenHellos ==
    MixedHellos \cup {SignedHello(TRUE, "t2", "s2", <<"auth">>, << >>, <<"timestamp">>)}

ConnSymmetry == Permutations(Conns)
=============================================================================
