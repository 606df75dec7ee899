------------------------------- MODULE Playout --------------------------------
(***************************************************************************)
(* What the output promises the player: chunks arrive in any order, each   *)
(* at most once, and are written in increasing order, never before they    *)
(* arrived.  One arrival may write several chunks or none; a chunk may     *)
(* never be written, if it is older than one that was.                     *)
(***************************************************************************)
EXTENDS Integers, Sequences

CONSTANT Ids        \* the chunk ids of the stream

VARIABLES arrived,  \* the chunks that arrived so far
          out       \* the chunks written so far, in order

Init == arrived = {} /\ out = <<>>

Increasing(s) == \A j, k \in 1 .. Len(s) : j < k => s[j] < s[k]

Extends(s, t) == Len(s) <= Len(t) /\ \A k \in 1 .. Len(s) : t[k] = s[k]

Arrive(id) ==
    /\ id \notin arrived
    /\ arrived' = arrived \cup {id}
    /\ Extends(out, out')
    /\ Increasing(out')
    /\ \A k \in 1 .. Len(out') : out'[k] \in arrived'

Next == \E id \in Ids : Arrive(id)

Spec == Init /\ [][Next]_<<arrived, out>>
===============================================================================
