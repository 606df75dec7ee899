------------------------------ MODULE ByteChannel ------------------------------
(***************************************************************************)
(* What the plugin's buffer promises the player about amounts of bytes (it *)
(* says nothing of which bytes they are).  A call gets as many as it asked *)
(* for, or it gives up and has as many as it fetched until then; a call    *)
(* for a whole block that gives up loses these.  No more are fetched than  *)
(* are queued, and what is queued has its limit.                           *)
(***************************************************************************)
EXTENDS Integers

CONSTANT Capacity   \* most bytes queued

VARIABLES queued,   \* bytes put and not fetched
          call,     \* the call under way: "none", "any" or "all"
          need,     \* bytes it still has to fetch
          fetched,  \* bytes it has fetched
          given,    \* bytes returned by calls
          lost      \* bytes fetched by calls for a block that gave up

vars == <<queued, call, need, fetched, given, lost>>

Init ==
    /\ queued = 0 /\ call = "none" /\ need = 0 /\ fetched = 0
    /\ given = 0 /\ lost = 0

Put ==
    /\ queued' > queued /\ queued' <= Capacity
    /\ UNCHANGED <<call, need, fetched, given, lost>>

Open ==
    /\ call = "none"
    /\ call' \in {"any", "all"}
    /\ need' > 0
    /\ UNCHANGED <<queued, fetched, given, lost>>

(* Some of the bytes, but not the last one. *)
Fetch ==
    \E n \in 1 .. queued :
        /\ n < need
        /\ queued' = queued - n /\ need' = need - n /\ fetched' = fetched + n
        /\ UNCHANGED <<call, given, lost>>

Close == call' = "none" /\ need' = 0 /\ fetched' = 0

(* The rest of the bytes: the call returns all it fetched. *)
Complete ==
    /\ call # "none" /\ need <= queued
    /\ queued' = queued - need
    /\ given' = given + fetched + need
    /\ Close /\ UNCHANGED lost

GiveUp ==
    /\ call # "none"
    /\ IF call = "all" THEN lost' = lost + fetched /\ UNCHANGED given
                       ELSE given' = given + fetched /\ UNCHANGED lost
    /\ Close /\ UNCHANGED queued

Next == Put \/ Open \/ Fetch \/ Complete \/ GiveUp

Spec == Init /\ [][Next]_vars
===============================================================================
