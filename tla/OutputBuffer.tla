----------------------------- MODULE OutputBuffer -----------------------------
(***************************************************************************)
(* The reordering buffer of the ffmpeg output, src/output_ffmpeg.c.        *)
(*                                                                         *)
(* output_ffmpeg_deliver is called by the receive thread for every chunk   *)
(* message, with chunkBufferMutex held: the calls are sequential, so one   *)
(* call is one action.  A chunk is its id.  "Written" means handed to      *)
(* output_ffmpeg_write_chunk, whose ring is module PluginRing.             *)
(*                                                                         *)
(* Two pieces of undefined behaviour are choices of the actions:           *)
(* output_ffmpeg_buffer_free returns no value on the path that writes      *)
(* (lines 261-270), so its caller may stop after any write, and            *)
(* output_ffmpeg_buffer_cleanup passes a chunk by value to a function that *)
(* is not declared yet and takes a pointer (lines 317, 331).               *)
(***************************************************************************)
EXTENDS Integers, Sequences, FiniteSetsExt, SequencesExt

CONSTANTS
    Size,       \* outputBufferSize, the slots of the buffer
    Ids,        \* the chunk ids the network delivers
    MaxCopies   \* bound: how often one chunk is delivered

ASSUME SizeAssumption == Size \in Nat \ {0}
ASSUME IdsAssumption == Ids \subseteq Nat
ASSUME CopiesAssumption == MaxCopies \in Nat \ {0}

Slots == 0 .. Size - 1
None == -1                    \* the code's -1 for "no chunk yet"
Empty == -1                   \* a slot whose data pointer is NULL

VARIABLES
    slot,          \* outputBuffer: the chunk id held in each slot
    playedChunk,   \* "last played chunk"
    maximumChunk,  \* "maximum chunk received"
    firstChunk,    \* the global of threads.c, set by the first offer
    delivered,     \* history: how many copies of a chunk were delivered
    played,        \* history: the chunks written to the plugin, in order
    crashed        \* the process died of undefined behaviour

vars == <<slot, playedChunk, maximumChunk, firstChunk, delivered, played, crashed>>

Init ==
    /\ slot = [i \in Slots |-> Empty]
    /\ playedChunk = None
    /\ maximumChunk = None
    /\ firstChunk = None
    /\ delivered = [id \in Ids |-> 0]
    /\ played = <<>>
    /\ crashed = FALSE

-----------------------------------------------------------------------------
(* C's remainder, which truncates: -1 % Size is -1. *)
Rem(x) == IF x >= 0 THEN x % Size ELSE -((-x) % Size)

(* Where deliver stores a chunk. *)
SlotFromFirst(id) == Rem(id - firstChunk)
SlotOf(id) == Rem(id)

Occupied(s) == {i \in Slots : s[i] # Empty}

Freed(s, P) == [i \in Slots |-> IF i \in P THEN Empty ELSE s[i]]

(* The chunks of n slots from slot a on, in the order a loop visits them. *)
Block(s, a, n) == [k \in 1 .. n |-> s[a + k - 1]]

(* The loop "for (i = a; i < b && data != NULL; ++i)" may have passed n     *)
(* slots, and it ends there.                                               *)
Passes(s, a, b, n) == \A i \in a .. a + n - 1 : i < b /\ s[i] # Empty
Ends(s, a, b, n) == a + n < b => s[a + n] = Empty

(* output_ffmpeg_buffer_flush: from behind the slot of the last played     *)
(* chunk to the end of the buffer, then from slot 0 up to that slot.  The  *)
(* second loop runs even if the first one stopped at a gap.  n and m are   *)
(* the slots each loop writes: the missing return value may cut the flush  *)
(* off after any write.  playedChunk is not assigned.                      *)
FlushFromSecond == Rem(playedChunk) + 2
FlushStart == Rem(playedChunk) + 1
FlushWrites(s, n, m) ==
    /\ Passes(s, FlushStart, Size, n)
    /\ Passes(s, 0, Rem(playedChunk), m)
    /\ m > 0 \/ n = 0 => Ends(s, FlushStart, Size, n)
    /\ n + m = 0 => Ends(s, 0, Rem(playedChunk), 0)

Flush(s) ==
    \E n \in 0 .. Size, m \in 0 .. Size :
        /\ FlushWrites(s, n, m)
        /\ slot' = Freed(s, FlushStart .. FlushStart + n - 1 \cup 0 .. m - 1)
        /\ played' = played \o Block(s, FlushStart, n) \o Block(s, 0, m)

(* output_ffmpeg_buffer_cleanup: the slots from the last played chunk's up *)
(* to the position wanted, or from 0 if that lies before it.  Slot -1 is   *)
(* read when nothing was played yet.                                       *)
CleanupRange(pos) ==
    IF pos < Rem(playedChunk) THEN 0 .. pos - 1 ELSE Rem(playedChunk) .. pos - 1

(* What the misdeclared call may write for a chunk: nothing, the incoming  *)
(* chunk or any chunk of the buffer.                                       *)
Garbage(id, n) == SeqOf({id} \cup {slot[i] : i \in Occupied(slot)}, n)

SlotLastFreed(P) == {i \in P : \A j \in P : j <= i}
LastFreed(P) == {slot[i] : i \in {i \in P : \A j \in P : j <= i}}

Cleanup(id) ==
    LET range == CleanupRange(SlotOf(id))
        freed == range \cap Occupied(slot)
    IN  \/ /\ slot' = Freed(slot, freed)
           /\ playedChunk' \in IF freed = {} THEN {playedChunk} ELSE LastFreed(freed)
           /\ \E w \in Garbage(id, Cardinality(freed)) : played' = played \o w
           /\ UNCHANGED crashed
        \/ /\ freed # {} \/ -1 \in range
           /\ crashed' = TRUE
           /\ UNCHANGED <<slot, playedChunk, played>>

-----------------------------------------------------------------------------
(* output_ffmpeg_deliver, one action per return path. *)

Arrives(id) ==
    /\ ~crashed
    /\ delivered[id] < MaxCopies
    /\ delivered' = [delivered EXCEPT ![id] = @ + 1]
    /\ UNCHANGED firstChunk

(* if (c->id <= context->playedChunk) return 0; *)
IsPlayedChunk(id) == id = playedChunk
IsBehindMaximum(id) == id <= maximumChunk
IsTooOld(id) == id <= playedChunk

TooOld(id) ==
    /\ Arrives(id)
    /\ IsTooOld(id)
    /\ UNCHANGED <<slot, playedChunk, maximumChunk, played, crashed>>

MaximumOfPlayed(id) == IF playedChunk < id THEN id ELSE maximumChunk
NewMaximum(id) == IF maximumChunk < id THEN id ELSE maximumChunk

(* The first chunk, or the one behind the last played, is written at once. *)
IsNext(id) == id = firstChunk \/ id = playedChunk + 1

PlayNow(id) ==
    /\ Arrives(id)
    /\ ~IsTooOld(id) /\ IsNext(id)
    /\ maximumChunk' = NewMaximum(id)
    /\ played' = Append(played, id)
    /\ playedChunk' = id
    /\ UNCHANGED <<slot, crashed>>

(* Any other chunk goes into its slot if that is free, then a flush. *)
Store(id) ==
    /\ Arrives(id)
    /\ ~IsTooOld(id) /\ ~IsNext(id)
    /\ slot[SlotOf(id)] = Empty
    /\ maximumChunk' = NewMaximum(id)
    /\ Flush([slot EXCEPT ![SlotOf(id)] = id])
    /\ UNCHANGED <<playedChunk, crashed>>

(* If its slot is taken the buffer is cleaned up to that slot: the chunk   *)
(* that arrived is not stored, and the call still returns 0.               *)
Collide(id) ==
    /\ Arrives(id)
    /\ ~IsTooOld(id) /\ ~IsNext(id)
    /\ slot[SlotOf(id)] # Empty
    /\ maximumChunk' = NewMaximum(id)
    /\ Cleanup(id)

(* The receive thread's offer handler sets the global firstChunk once, to  *)
(* an offered chunk that is not in the chunk buffer; that buffer forgets   *)
(* old chunks, so any id may be the one.                                   *)
SetFirstChunk(id) ==
    /\ ~crashed
    /\ firstChunk = None
    /\ firstChunk' = id
    /\ UNCHANGED <<slot, playedChunk, maximumChunk, delivered, played, crashed>>

Deliver(id) == TooOld(id) \/ PlayNow(id) \/ Store(id) \/ Collide(id)

Next == \E id \in Ids : Deliver(id) \/ SetFirstChunk(id)

Spec == Init /\ [][Next]_vars

(* Every chunk arrives at some time, and the receive thread runs. *)
FairSpec == Spec /\ \A id \in Ids : WF_vars(Deliver(id))

-----------------------------------------------------------------------------
(* All state has its type: slots and counters hold chunk ids or -1. *)
TypeOK ==
    /\ slot \in [Slots -> Ids \cup {Empty}]
    /\ playedChunk \in Ids \cup {None}
    /\ maximumChunk \in Ids \cup {None}
    /\ firstChunk \in Ids \cup {None}
    /\ delivered \in [Ids -> 0 .. MaxCopies]
    /\ played \in Seq(Ids)
    /\ crashed \in BOOLEAN

(* A slot only ever holds a chunk that was delivered and whose number maps *)
(* to it, whatever flushes and cleanups (output_ffmpeg_buffer_cleanup) did *)
(* to it before; and the played chunk was delivered.                       *)
SlotsConsistent ==
    /\ \A i \in Occupied(slot) : Rem(slot[i]) = i /\ delivered[slot[i]] > 0
    /\ playedChunk # None => delivered[playedChunk] > 0

(* "maximum chunk received" (output_ffmpeg.c:40): no delivered chunk is    *)
(* newer, although the early return for old chunks skips the update.       *)
MaximumIsNewest ==
    /\ \A id \in Ids : delivered[id] > 0 => id <= maximumChunk
    /\ maximumChunk # None => delivered[maximumChunk] > 0

(* The chunks are Size consecutive ones at most, wherever the stream was   *)
(* joined: no two share a slot.                                            *)
OneWindow == \A i, j \in Ids : i - j < Size

(* The chunk that slot 0 holds in the lap of a chunk; all the chunks of a  *)
(* stream may belong to one lap of the buffer.                             *)
LapStart(id) == id - Rem(id)
OneLap == \A i, j \in Ids : LapStart(i) = LapStart(j)

(* playedChunk never goes back, so the early return of                     *)
(* output_ffmpeg_deliver never lets a chunk in that it turned away before. *)
(* Within one window this survives duplicates, late first chunks and       *)
(* cleanups, also where the window goes around the end of the buffer.      *)
NeverRewinds == [][playedChunk' >= playedChunk]_vars

(* The plugin gets the chunks in strictly increasing order: none twice,    *)
(* none behind a newer one.  Holds within one lap and without duplicates;  *)
(* where a window goes around the end of the buffer the second loop of a   *)
(* flush passes over the gap that ended the first one.                     *)
InOrder ==
    \A j, k \in 1 .. Len(played) : j < k => played[j] < played[k]

(* No chunk gets lost between network and plugin: one that was delivered   *)
(* was written or is still buffered, unless it is older than the first     *)
(* chunk the offer handler chose.                                          *)
Accounted ==
    \A id \in Ids : delivered[id] > 0 =>
        \/ \E k \in 1 .. Len(played) : played[k] = id
        \/ slot[Rem(id)] = id
        \/ id < firstChunk

(* "chunk not needed anymore: newer chunks already written" (line 357):    *)
(* no chunk is written twice.                                              *)
WrittenOnce ==
    \A j, k \in 1 .. Len(played) : j # k => played[j] # played[k]

(* Why Accounted and WrittenOnce hold within one window and without        *)
(* duplicates: a slot holds a chunk that is not written yet, so a flush    *)
(* writes nothing twice and no chunk finds its slot taken; and playedChunk *)
(* only passes over a chunk that is missing when the first chunk moves it. *)
WindowSlots ==
    \A i \in Slots : slot[i] # Empty =>
        /\ Rem(slot[i]) = i /\ delivered[slot[i]] = 1
        /\ \A k \in 1 .. Len(played) : played[k] # slot[i]
Skipped ==
    \A id \in Ids : id <= playedChunk /\ delivered[id] = 0 => id < firstChunk
Written ==
    \A k \in 1 .. Len(played) : delivered[played[k]] = 1
WindowInv ==
    /\ TypeOK /\ WindowSlots /\ Skipped /\ Written
    /\ WrittenOnce /\ Accounted

(* The last chunk written and the chunk a flush starts behind, by which    *)
(* they can differ: the flush writes and leaves playedChunk alone.  With   *)
(* no chunk written or played it is the one before the lap.                *)
Lap == LapStart(CHOOSE id \in Ids : TRUE)
Tip == IF played = <<>> THEN Lap - 1 ELSE played[Len(played)]
Behind == IF playedChunk = None THEN Lap - 1 ELSE playedChunk

(* Why InOrder holds within one lap (and the invariant that proves it):    *)
(* once a flush has written behind playedChunk's back, the slot it started *)
(* from is empty for good, so neither a later flush nor the test for the   *)
(* next chunk can write anything until the first chunk moves playedChunk   *)
(* past everything written.  Slot 0 is never left to a second loop.        *)
LapTip == Behind # Tip =>
    /\ Behind < Tip
    /\ \A j \in Behind + 1 .. Tip : j \in Ids /\ delivered[j] = 1
    /\ slot[Behind + 1 - Lap] = Empty
LapInv ==
    /\ WindowInv /\ LapTip /\ InOrder
    /\ Size > 1 => slot[0] = Empty

(* Within one lap and without duplicates the buffer implements Playout:    *)
(* every call of output_ffmpeg_deliver is one arrival.                     *)
Abstract == INSTANCE Playout WITH
    arrived <- {id \in Ids : delivered[id] > 0},
    out <- played
ImplementsPlayout == Abstract!Spec

-----------------------------------------------------------------------------
(* What comments of output_ffmpeg.c say and the code does not do. *)

(* "start at context->playedChunk + 1 and run till maximum chunk" (line    *)
(* 290): once every chunk has arrived nothing from the first chunk to the  *)
(* maximum is left in the buffer.  But a flush does not move playedChunk,  *)
(* and a chunk written at once does not flush those behind it.             *)
StreamGoesOn ==
    (firstChunk # None /\ \A id \in Ids : delivered[id] > 0) ~>
        \/ crashed
        \/ \A id \in Ids : id >= firstChunk => \E k \in 1 .. Len(played) : played[k] = id

(* "returns 0 on success" (line 343), which is the only value returned     *)
(* here: a chunk that is not too old is written or buffered by the call.   *)
NewChunkKept ==
    [][\A id \in Ids : delivered'[id] > delivered[id] /\ id > playedChunk =>
            \/ slot'[Rem(id)] = id
            \/ \E k \in 1 .. Len(played') : played'[k] = id]_vars
===============================================================================
