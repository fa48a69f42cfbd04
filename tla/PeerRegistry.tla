---------------------------- MODULE PeerRegistry ----------------------------
(***************************************************************************)
(* What the signaling server promises about the peers and the aliases of   *)
(* its games: an id is given to one peer only, ever; an alias belongs to   *)
(* at most one peer, which is registered, and changes hands only through   *)
(* nobody's; a peer that leaves takes its aliases with it in the same      *)
(* step.                                                                   *)
(***************************************************************************)
EXTENDS Naturals

CONSTANTS Games, Ids, Names

VARIABLES
    used,       \* the <<game, id>> pairs ever given out
    members,    \* those of peers that are registered now
    owner       \* the owner of each alias of each game, 0 for nobody

vars == <<used, members, owner>>

TypeOK ==
    /\ used \subseteq Games \X Ids
    /\ members \subseteq used
    /\ owner \in [Games -> [Names -> Ids \cup {0}]]

Init ==
    /\ used = {}
    /\ members = {}
    /\ owner = [g \in Games |-> [n \in Names |-> 0]]

Join(g, id) ==
    /\ <<g, id>> \notin used
    /\ used' = used \cup {<<g, id>>}
    /\ members' = members \cup {<<g, id>>}
    /\ UNCHANGED owner

Leave(g, id) ==
    /\ <<g, id>> \in members
    /\ members' = members \ {<<g, id>>}
    /\ owner' = [owner EXCEPT ![g] = [n \in Names |-> IF @[n] = id THEN 0 ELSE @[n]]]
    /\ UNCHANGED used

Claim(g, id, n) ==
    /\ <<g, id>> \in members
    /\ owner[g][n] = 0
    /\ owner' = [owner EXCEPT ![g][n] = id]
    /\ UNCHANGED <<used, members>>

\* A peer gives up one of its aliases, or all of them.
Release(g, id, ns) ==
    /\ <<g, id>> \in members
    /\ \A n \in ns : owner[g][n] = id
    /\ owner' = [owner EXCEPT ![g] = [n \in Names |-> IF n \in ns THEN 0 ELSE @[n]]]
    /\ UNCHANGED <<used, members>>

Next ==
    \E g \in Games, id \in Ids :
        \/ Join(g, id)
        \/ Leave(g, id)
        \/ \E n \in Names : Claim(g, id, n)
        \/ \E ns \in SUBSET Names : Release(g, id, ns)

Spec == Init /\ [][Next]_vars

\* An alias resolves to a registered peer of its game.
OwnersAreMembers ==
    \A g \in Games, n \in Names : owner[g][n] # 0 => <<g, owner[g][n]>> \in members
=============================================================================
