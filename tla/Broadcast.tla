------------------------------- MODULE Broadcast -------------------------------
(***************************************************************************)
(* What the swarm promises a peer: the server makes the chunks in order, a *)
(* peer never has a chunk that was not made, its buffer keeps the newest   *)
(* of what it gets and drops nothing while there is room, and it chooses   *)
(* once where its stream starts.  The messages that bring this about are   *)
(* not seen.                                                               *)
(***************************************************************************)
EXTENDS Integers, FiniteSets

CONSTANTS Peer, Chunks,
          Limit,    \* chunks a peer keeps
          None      \* the start of a peer that has not chosen one

VARIABLES made,     \* the chunks made so far
          kept,     \* the chunks each peer has in its buffer
          start     \* the chunk each peer's stream starts with

vars == <<made, kept, start>>

Init ==
    /\ made = {}
    /\ kept = [p \in Peer |-> {}]
    /\ start = [p \in Peer |-> None]

Make(c) ==
    /\ \A d \in made : d < c
    /\ made' = made \cup {c}
    /\ UNCHANGED <<kept, start>>

(* Of what a buffer had and one more chunk, new is kept: all of it, or as  *)
(* many of the newest as there is room for.                                *)
KeepsNewest(old, new) ==
    /\ new \subseteq old
    /\ Cardinality(new) <= Limit
    /\ old # new => Cardinality(new) = Limit
    /\ \A d \in old \ new, k \in new : d < k

Get(p, c) ==
    /\ c \in made
    /\ \E new \in SUBSET made :
          /\ kept' = [kept EXCEPT ![p] = new]
          /\ KeepsNewest(kept[p] \cup {c}, new)
    /\ UNCHANGED <<made, start>>

Choose(p, c) ==
    /\ start[p] = None
    /\ c \in made \ kept[p]
    /\ start' = [start EXCEPT ![p] = c]
    /\ UNCHANGED <<made, kept>>

Next ==
    \/ \E c \in Chunks : Make(c)
    \/ \E p \in Peer, c \in Chunks : Get(p, c) \/ Choose(p, c)

Spec == Init /\ [][Next]_vars
===============================================================================
