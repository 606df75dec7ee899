------------------------- MODULE OutputBuffer_proofs --------------------------
(***************************************************************************)
(* Theorems about module OutputBuffer for every size of the buffer and     *)
(* every set of chunk ids.                                                 *)
(***************************************************************************)
EXTENDS OutputBuffer, FiniteSetTheorems, SequenceTheorems,
        TLAPS

-----------------------------------------------------------------------------
(* Remainders and slots. *)

(* C's remainder of a chunk id is a slot; -1 leaves -1 or 0. *)
LEMMA RemFacts ==
    /\ \A x \in Nat : Rem(x) \in Slots /\ Rem(x) = x % Size
    /\ Rem(None) \in {-1, 0}
<1>1. ASSUME NEW x \in Nat PROVE Rem(x) \in Slots /\ Rem(x) = x % Size
  BY SizeAssumption DEF Rem, Slots
<1>2. Rem(None) \in {-1, 0}
  <2>1. Rem(None) = -(1 % Size)
    BY DEF Rem, None
  <2>2. 1 % Size \in 0 .. 1
    BY SizeAssumption
  <2> QED BY <2>1, <2>2
<1> QED BY <1>1, <1>2

(* Ids less than Size apart are as far apart in the buffer, unless they    *)
(* lie on either side of its end.                                          *)
LEMMA RemShift ==
    ASSUME NEW x \in Nat, NEW y \in Nat, x <= y, y - x < Size
    PROVE  Rem(y) \in {Rem(x) + (y - x), Rem(x) + (y - x) - Size}
<1> DEFINE q == x \div Size
           r == x % Size
           p == y \div Size
           t == y % Size
<1>1. x = Size * q + r /\ q \in Nat /\ r \in 0 .. Size - 1
  BY SizeAssumption
<1>2. y = Size * p + t /\ p \in Nat /\ t \in 0 .. Size - 1
  BY SizeAssumption
<1>3. Rem(x) = r /\ Rem(y) = t
  BY RemFacts
<1> HIDE DEF q, r, p, t
<1>4. p >= q
  <2> SUFFICES ASSUME p + 1 <= q PROVE FALSE
    BY <1>1, <1>2
  <2>1. Size * (p + 1) <= Size * q
    BY <1>1, <1>2, SizeAssumption
  <2>2. Size * (p + 1) = Size * p + Size
    BY <1>1, <1>2, SizeAssumption
  <2> QED BY <1>1, <1>2, <2>1, <2>2, SizeAssumption
<1>5. p <= q + 1
  <2> SUFFICES ASSUME q + 2 <= p PROVE FALSE
    BY <1>1, <1>2
  <2>1. Size * (q + 2) <= Size * p
    BY <1>1, <1>2, SizeAssumption
  <2>2. Size * (q + 2) = Size * q + Size + Size
    BY <1>1, <1>2, SizeAssumption
  <2> QED BY <1>1, <1>2, <2>1, <2>2, SizeAssumption
<1>6. Size * (q + 1) = Size * q + Size
  BY <1>1, SizeAssumption
<1>7. t = r + (y - x) \/ t = r + (y - x) - Size
  <2>1. CASE p = q
    BY <1>1, <1>2, <2>1, SizeAssumption
  <2>2. CASE p = q + 1
    BY <1>1, <1>2, <1>6, <2>2, SizeAssumption
  <2> QED BY <1>1, <1>2, <1>4, <1>5, <2>1, <2>2
<1> QED BY <1>3, <1>7

(* Within one window no two chunks share a slot. *)
LEMMA OwnSlot ==
    ASSUME OneWindow, NEW x \in Ids, NEW y \in Ids, Rem(x) = Rem(y)
    PROVE  x = y
<1>1. x \in Nat /\ y \in Nat /\ x - y < Size /\ y - x < Size
  BY IdsAssumption DEF OneWindow
<1>2. Rem(x) \in Int /\ Size \in Nat
  BY <1>1, RemFacts, SizeAssumption DEF Slots
<1>3. CASE x <= y
  BY <1>1, <1>2, <1>3, RemShift
<1>4. CASE y <= x
  BY <1>1, <1>2, <1>4, RemShift
<1> QED BY <1>1, <1>3, <1>4

(* Within one lap a chunk's slot is its place in the lap, and any two      *)
(* chunks of a lap are in one window.                                      *)
LEMMA LapPlace ==
    ASSUME OneLap, NEW id \in Ids
    PROVE  /\ id \in Nat /\ Lap \in Int
           /\ Rem(id) = id - Lap /\ id - Lap \in Slots
<1>1. id \in Nat /\ Rem(id) \in Slots
  BY RemFacts, IdsAssumption
<1>2. (CHOOSE i \in Ids : TRUE) \in Ids
  OBVIOUS
<1>3. Lap = id - Rem(id)
  BY <1>2 DEF Lap, OneLap, LapStart
<1> QED BY <1>1, <1>3, SizeAssumption DEF Slots

LEMMA LapIsWindow == OneLap => OneWindow
<1> SUFFICES ASSUME OneLap, NEW i \in Ids, NEW j \in Ids PROVE i - j < Size
  BY DEF OneWindow
<1>1. /\ i \in Nat /\ j \in Nat /\ Lap \in Int
      /\ i - Lap \in 0 .. Size - 1 /\ j - Lap \in 0 .. Size - 1
  BY LapPlace DEF Slots
<1> QED BY <1>1, SizeAssumption

-----------------------------------------------------------------------------
(* What the loops of the flush write. *)

(* The n slots from slot a on hold chunks, and the block of them is a      *)
(* sequence of these chunks.                                               *)
WritesSlots(s, a, n) ==
    /\ Block(s, a, n) \in Seq(Ids)
    /\ Len(Block(s, a, n)) = n
    /\ \A k \in 1 .. n : /\ a + k - 1 \in Slots
                         /\ s[a + k - 1] # Empty
                         /\ Block(s, a, n)[k] = s[a + k - 1]

(* The slots a loop passed hold chunks, so what it writes is a sequence of *)
(* chunks, one per slot.                                                   *)
LEMMA BlockFacts ==
    ASSUME NEW s \in [Slots -> Ids \cup {Empty}],
           NEW a \in Nat, NEW b \in Int, b <= Size, NEW n \in Nat,
           Passes(s, a, b, n)
    PROVE  WritesSlots(s, a, n)
<1>1. ASSUME NEW k \in 1 .. n
      PROVE  a + k - 1 \in Slots /\ s[a + k - 1] # Empty
  <2>1. a + k - 1 \in a .. a + n - 1
    OBVIOUS
  <2>2. a + k - 1 < b /\ s[a + k - 1] # Empty
    BY <2>1 DEF Passes
  <2> QED BY <2>2, SizeAssumption DEF Slots
<1>2. Block(s, a, n) \in [1 .. n -> Ids]
  BY <1>1 DEF Block
<1>3. Block(s, a, n) \in Seq(Ids)
  BY <1>2
<1>4. DOMAIN Block(s, a, n) = 1 .. n
  BY DEF Block
<1>5. Len(Block(s, a, n)) = n
  BY <1>3, <1>4, LenProperties
<1> QED BY <1>1, <1>3, <1>5 DEF Block, WritesSlots

(* A flush starts at a slot or behind the last one, and its second loop    *)
(* ends before the slot of the last played chunk.                          *)
LEMMA FlushStartFacts ==
    ASSUME TypeOK
    PROVE  /\ Rem(playedChunk) \in -1 .. Size - 1
           /\ FlushStart \in 0 .. Size
<1>1. Rem(playedChunk) \in -1 .. Size - 1
  <2>1. CASE playedChunk \in Ids
    BY <2>1, RemFacts, SizeAssumption, IdsAssumption DEF Slots
  <2>2. CASE playedChunk = None
    BY <2>2, RemFacts, SizeAssumption
  <2> QED BY <2>1, <2>2 DEF TypeOK
<1> QED BY <1>1, SizeAssumption DEF FlushStart

(* Storing a chunk and flushing keeps the slots' type, and adds a sequence *)
(* of chunks that were in the slots to what was played.                    *)
LEMMA FlushFacts ==
    ASSUME TypeOK, NEW s \in [Slots -> Ids \cup {Empty}], Flush(s)
    PROVE  \E n \in 0 .. Size, m \in 0 .. Size :
              /\ FlushWrites(s, n, m)
              /\ slot' = Freed(s, FlushStart .. FlushStart + n - 1 \cup 0 .. m - 1)
              /\ played' = played \o Block(s, FlushStart, n) \o Block(s, 0, m)
              /\ WritesSlots(s, FlushStart, n) /\ WritesSlots(s, 0, m)
              /\ slot' \in [Slots -> Ids \cup {Empty}]
              /\ played' \in Seq(Ids)
<1>1. PICK n \in 0 .. Size, m \in 0 .. Size :
        /\ FlushWrites(s, n, m)
        /\ slot' = Freed(s, FlushStart .. FlushStart + n - 1 \cup 0 .. m - 1)
        /\ played' = played \o Block(s, FlushStart, n) \o Block(s, 0, m)
  BY DEF Flush
<1>2. WritesSlots(s, FlushStart, n)
  BY <1>1, FlushStartFacts, BlockFacts, SizeAssumption DEF FlushWrites
<1>3. WritesSlots(s, 0, m)
  BY <1>1, FlushStartFacts, BlockFacts, SizeAssumption DEF FlushWrites
<1>4. slot' \in [Slots -> Ids \cup {Empty}]
  BY <1>1 DEF Freed
<1>5. played' \in Seq(Ids)
  BY <1>1, <1>2, <1>3, ConcatProperties DEF TypeOK, WritesSlots
<1> QED BY <1>1, <1>2, <1>3, <1>4, <1>5

-----------------------------------------------------------------------------
(* Type correctness. *)

(* A cleanup that the process survives frees some slots, leaves the others *)
(* alone and moves playedChunk to the chunk of a freed slot, if any.       *)
LEMMA CleanupFacts ==
    ASSUME TypeOK, NEW id \in Ids, Cleanup(id), crashed' = FALSE
    PROVE  /\ slot' \in [Slots -> Ids \cup {Empty}]
           /\ \A i \in Slots : slot'[i] \in {slot[i], Empty}
           /\ played' \in Seq(Ids)
           /\ \/ playedChunk' = playedChunk
              \/ \E i \in Occupied(slot) \cap CleanupRange(SlotOf(id)) :
                    playedChunk' = slot[i]
<1> DEFINE freed == CleanupRange(SlotOf(id)) \cap Occupied(slot)
<1>1. /\ slot' = Freed(slot, freed)
      /\ playedChunk' \in IF freed = {} THEN {playedChunk} ELSE LastFreed(freed)
      /\ \E w \in Garbage(id, Cardinality(freed)) : played' = played \o w
  BY DEF Cleanup
<1>2. PICK w \in Garbage(id, Cardinality(freed)) : played' = played \o w
  BY <1>1
<1>3. Cardinality(freed) \in Nat
  <2>1. freed \subseteq 0 .. Size - 1
    BY DEF Occupied, Slots
  <2>2. IsFiniteSet(0 .. Size - 1)
    BY FS_Interval, SizeAssumption
  <2> QED BY <2>1, <2>2, FS_Subset, FS_CardinalityType
<1>4. w \in Seq(Ids)
  <2> DEFINE C == {id} \cup {slot[i] : i \in Occupied(slot)}
  <2>1. PICK k \in 0 .. Cardinality(freed) : w \in [1 .. k -> C]
    BY DEF Garbage, SeqOf
  <2>2. C \subseteq Ids
    BY DEF TypeOK, Occupied
  <2>3. k \in Nat
    BY <1>3
  <2>4. w \in [1 .. k -> Ids]
    BY <2>1, <2>2
  <2> QED BY <2>3, <2>4
<1>5. played' \in Seq(Ids)
  BY <1>2, <1>4, ConcatProperties DEF TypeOK
<1>6. /\ slot' \in [Slots -> Ids \cup {Empty}]
      /\ \A i \in Slots : slot'[i] \in {slot[i], Empty}
  BY <1>1 DEF Freed, TypeOK
<1> QED BY <1>1, <1>5, <1>6 DEF LastFreed

(* Every step keeps the types. *)
LEMMA TypeStep == TypeOK /\ [Next]_vars => TypeOK'
<1> SUFFICES ASSUME TypeOK, [Next]_vars PROVE TypeOK'
  OBVIOUS
<1>1. CASE UNCHANGED vars
  BY <1>1 DEF vars, TypeOK
<1>2. ASSUME NEW id \in Ids, Deliver(id) PROVE TypeOK'
  <2>1. /\ delivered' \in [Ids -> 0 .. MaxCopies]
        /\ firstChunk' = firstChunk
        /\ NewMaximum(id) \in Ids \cup {None}
        /\ ~crashed
    <3>1. Arrives(id)
      BY <1>2 DEF Deliver, TooOld, PlayNow, Store, Collide
    <3> QED BY <3>1, CopiesAssumption DEF Arrives, TypeOK, NewMaximum
  <2>2. CASE TooOld(id)
    BY <2>1, <2>2 DEF TooOld, TypeOK
  <2>3. CASE PlayNow(id)
    <3>1. played' \in Seq(Ids)
      BY <2>3 DEF PlayNow, TypeOK
    <3> QED BY <2>1, <2>3, <3>1 DEF PlayNow, TypeOK
  <2>4. CASE Store(id)
    <3> DEFINE s == [slot EXCEPT ![SlotOf(id)] = id]
    <3>1. s \in [Slots -> Ids \cup {Empty}]
      BY DEF TypeOK
    <3>2. slot' \in [Slots -> Ids \cup {Empty}] /\ played' \in Seq(Ids)
      BY <2>4, <3>1, FlushFacts DEF Store
    <3> QED BY <2>1, <2>4, <3>2 DEF Store, TypeOK
  <2>5. CASE Collide(id)
    <3>1. CASE crashed' = FALSE
      BY <2>1, <2>5, <3>1, CleanupFacts DEF Collide, TypeOK, Occupied
    <3>2. CASE crashed' # FALSE
      BY <2>1, <2>5, <3>2 DEF Collide, Cleanup, TypeOK
    <3> QED BY <3>1, <3>2
  <2> QED BY <1>2, <2>2, <2>3, <2>4, <2>5 DEF Deliver
<1>3. ASSUME NEW id \in Ids, SetFirstChunk(id) PROVE TypeOK'
  BY <1>3 DEF SetFirstChunk, TypeOK
<1> QED BY <1>1, <1>2, <1>3 DEF Next

(* What output_ffmpeg_init allocates has the types. *)
LEMMA TypeInit == Init => TypeOK
<1> SUFFICES ASSUME Init PROVE TypeOK
  OBVIOUS
<1>1. delivered \in [Ids -> 0 .. MaxCopies]
  BY CopiesAssumption DEF Init
<1>2. played \in Seq(Ids)
  BY EmptySeq DEF Init
<1> QED BY <1>1, <1>2 DEF Init, TypeOK

(* The slots, counters and the written sequence always hold chunk ids of   *)
(* the stream (or -1), for every size, stream and number of copies.        *)
THEOREM TypeCorrect == Spec => []TypeOK
BY TypeInit, TypeStep, PTL DEF Spec

-----------------------------------------------------------------------------
(* Slots and maximum. *)

(* What a flush leaves in a slot was there before. *)
LEMMA StoreSlots ==
    ASSUME TypeOK, NEW id \in Ids, Store(id)
    PROVE  \A i \in Slots :
              slot'[i] # Empty => IF i = SlotOf(id) THEN slot'[i] = id
                                                    ELSE slot'[i] = slot[i]
<1> DEFINE s == [slot EXCEPT ![SlotOf(id)] = id]
<1>1. s \in [Slots -> Ids \cup {Empty}]
  BY DEF TypeOK
<1>2. PICK n \in 0 .. Size, m \in 0 .. Size :
        slot' = Freed(s, FlushStart .. FlushStart + n - 1 \cup 0 .. m - 1)
  BY <1>1, FlushFacts DEF Store
<1>3. \A i \in Slots : slot'[i] # Empty => slot'[i] = s[i]
  BY <1>2 DEF Freed
<1> QED BY <1>3 DEF TypeOK

(* No step moves a chunk to another slot or makes one up. *)
LEMMA SlotsStep == TypeOK /\ SlotsConsistent /\ [Next]_vars => SlotsConsistent'
<1> SUFFICES ASSUME TypeOK, SlotsConsistent, [Next]_vars PROVE SlotsConsistent'
  OBVIOUS
<1>1. CASE UNCHANGED vars
  BY <1>1 DEF vars, SlotsConsistent, Occupied
<1>2. ASSUME NEW id \in Ids, Deliver(id) PROVE SlotsConsistent'
  <2>1. /\ delivered'[id] > 0
        /\ \A x \in Ids : delivered[x] > 0 => delivered'[x] > 0
    <3>1. Arrives(id)
      BY <1>2 DEF Deliver, TooOld, PlayNow, Store, Collide
    <3> QED BY <3>1, CopiesAssumption DEF Arrives, TypeOK
  <2>2. \A i \in Occupied(slot) : slot[i] \in Ids
    BY DEF Occupied, TypeOK
  <2>3. CASE TooOld(id)
    BY <2>1, <2>2, <2>3 DEF TooOld, SlotsConsistent, Occupied, TypeOK
  <2>4. CASE PlayNow(id)
    BY <2>1, <2>2, <2>4 DEF PlayNow, SlotsConsistent, Occupied, TypeOK
  <2>5. CASE Store(id)
    <3>1. \A i \in Occupied(slot)' : Rem(slot'[i]) = i /\ delivered'[slot'[i]] > 0
      BY <2>1, <2>2, <2>5, StoreSlots DEF SlotsConsistent, Occupied, SlotOf
    <3>2. playedChunk' = playedChunk
      BY <2>5 DEF Store
    <3> QED BY <2>1, <3>1, <3>2 DEF SlotsConsistent, TypeOK
  <2>6. CASE Collide(id)
    <3>1. CASE crashed' = FALSE
      <4>1. /\ \A i \in Slots : slot'[i] \in {slot[i], Empty}
            /\ \/ playedChunk' = playedChunk
               \/ \E i \in Occupied(slot) : playedChunk' = slot[i]
        BY <2>6, <3>1, CleanupFacts DEF Collide
      <4>2. \A i \in Occupied(slot)' : i \in Occupied(slot) /\ slot'[i] = slot[i]
        BY <4>1 DEF Occupied
      <4>3. playedChunk' # None => delivered'[playedChunk'] > 0
        BY <2>1, <2>2, <4>1 DEF SlotsConsistent, TypeOK
      <4> QED BY <2>1, <2>2, <4>2, <4>3 DEF SlotsConsistent
    <3>2. CASE crashed' # FALSE
      <4>1. UNCHANGED <<slot, playedChunk>>
        BY <2>6, <3>2 DEF Collide, Cleanup, Arrives, TypeOK
      <4> QED BY <2>1, <2>2, <4>1 DEF SlotsConsistent, Occupied, TypeOK
    <3> QED BY <3>1, <3>2
  <2> QED BY <1>2, <2>3, <2>4, <2>5, <2>6 DEF Deliver
<1>3. ASSUME NEW id \in Ids, SetFirstChunk(id) PROVE SlotsConsistent'
  BY <1>3 DEF SetFirstChunk, SlotsConsistent, Occupied
<1> QED BY <1>1, <1>2, <1>3 DEF Next

(* Whatever flushes and cleanups did, a slot holds a delivered chunk whose *)
(* number maps to it.                                                      *)
THEOREM SlotsAreConsistent == Spec => []SlotsConsistent
<1>1. Init => SlotsConsistent
  BY DEF Init, SlotsConsistent, Occupied
<1> QED BY <1>1, SlotsStep, TypeCorrect, PTL DEF Spec

(* Every arrival keeps the maximum, the early return included. *)
LEMMA MaximumStep ==
    TypeOK /\ SlotsConsistent /\ MaximumIsNewest /\ [Next]_vars => MaximumIsNewest'
<1> SUFFICES ASSUME TypeOK, SlotsConsistent, MaximumIsNewest, [Next]_vars
             PROVE  MaximumIsNewest'
  OBVIOUS
<1>1. CASE UNCHANGED vars
  BY <1>1 DEF vars, MaximumIsNewest
<1>2. ASSUME NEW id \in Ids, Deliver(id) PROVE MaximumIsNewest'
  <2>1. delivered' = [delivered EXCEPT ![id] = @ + 1]
    BY <1>2 DEF Deliver, TooOld, PlayNow, Store, Collide, Arrives
  <2>2. /\ delivered'[id] > 0
        /\ \A x \in Ids : x # id => delivered'[x] = delivered[x]
        /\ \A x \in Ids : delivered[x] > 0 => delivered'[x] > 0
    BY <2>1, CopiesAssumption DEF TypeOK
  <2>3. CASE TooOld(id)
    <3>1. playedChunk # None
      BY <2>3, IdsAssumption DEF TooOld, IsTooOld, None
    <3>2. playedChunk \in Ids /\ delivered[playedChunk] > 0
      BY <3>1 DEF SlotsConsistent, TypeOK
    <3>3. id <= playedChunk /\ playedChunk <= maximumChunk
      BY <2>3, <3>2 DEF TooOld, IsTooOld, MaximumIsNewest
    <3>4. id <= maximumChunk
      BY <3>2, <3>3, IdsAssumption DEF TypeOK, None
    <3> QED BY <2>2, <2>3, <3>4 DEF TooOld, MaximumIsNewest, TypeOK
  <2>4. CASE ~TooOld(id)
    <3>1. maximumChunk' = NewMaximum(id)
      BY <1>2, <2>4 DEF Deliver, PlayNow, Store, Collide
    <3>2. /\ id <= maximumChunk' /\ maximumChunk <= maximumChunk'
          /\ maximumChunk' \in {maximumChunk, id}
      BY <3>1, IdsAssumption DEF NewMaximum, TypeOK, None
    <3>3. \A x \in Ids : delivered'[x] > 0 => x <= maximumChunk'
      BY <2>2, <3>2, IdsAssumption DEF MaximumIsNewest, TypeOK, None
    <3> QED BY <2>2, <3>2, <3>3 DEF MaximumIsNewest, TypeOK
  <2> QED BY <2>3, <2>4
<1>3. ASSUME NEW id \in Ids, SetFirstChunk(id) PROVE MaximumIsNewest'
  BY <1>3 DEF SetFirstChunk, MaximumIsNewest
<1> QED BY <1>1, <1>2, <1>3 DEF Next

(* maximumChunk is the newest chunk delivered, although a chunk that is    *)
(* too old returns before the update.                                      *)
THEOREM MaximumIsTheNewest == Spec => []MaximumIsNewest
<1>1. Init => MaximumIsNewest
  BY DEF Init, MaximumIsNewest
<1> QED BY <1>1, MaximumStep, TypeCorrect, SlotsAreConsistent, PTL DEF Spec

-----------------------------------------------------------------------------
(* Within one window playedChunk never goes back. *)

(* A chunk that a cleanup frees for a newer one is not older than the last *)
(* played chunk: below the slot wanted a slot holds an older chunk only if *)
(* it lies before the slot of the last played one.                         *)
LEMMA CleanupFreesNewer ==
    ASSUME OneWindow, NEW pc \in Ids, playedChunk = pc,
           NEW id \in Ids, id > pc,
           NEW x \in Ids, Rem(x) \in CleanupRange(SlotOf(id))
    PROVE  x >= pc
<1>1. /\ pc \in Nat /\ id \in Nat /\ x \in Nat
      /\ id - pc < Size /\ pc - x < Size /\ id - x < Size
      /\ Size \in Nat
  BY IdsAssumption, SizeAssumption DEF OneWindow
<1>2. Rem(pc) \in 0 .. Size - 1 /\ Rem(id) \in 0 .. Size - 1 /\ Rem(x) \in 0 .. Size - 1
  BY <1>1, RemFacts DEF Slots
<1>3. Rem(id) \in {Rem(pc) + (id - pc), Rem(pc) + (id - pc) - Size}
  BY <1>1, RemShift
<1>4. IF Rem(id) < Rem(pc) THEN Rem(x) < Rem(id)
      ELSE Rem(pc) <= Rem(x) /\ Rem(x) < Rem(id)
  BY <1>2 DEF CleanupRange, SlotOf
<1> SUFFICES ASSUME x < pc PROVE FALSE
  BY <1>1
<1>5. Rem(id) \in {Rem(x) + (id - x), Rem(x) + (id - x) - Size}
  BY <1>1, RemShift
<1>6. Rem(pc) \in {Rem(x) + (pc - x), Rem(x) + (pc - x) - Size}
  BY <1>1, RemShift
<1> QED BY <1>1, <1>2, <1>3, <1>4, <1>5, <1>6

(* Within one window no arrival moves playedChunk back. *)
LEMMA RewindStep ==
    ASSUME OneWindow
    PROVE  TypeOK /\ SlotsConsistent /\ [Next]_vars
              => [playedChunk' >= playedChunk]_vars
<1> SUFFICES ASSUME TypeOK, SlotsConsistent, [Next]_vars
             PROVE  playedChunk' >= playedChunk
  OBVIOUS
<1>1. playedChunk \in Int
  BY IdsAssumption DEF TypeOK, None
<1>2. CASE UNCHANGED vars
  BY <1>1, <1>2 DEF vars
<1>3. ASSUME NEW id \in Ids, Deliver(id) PROVE playedChunk' >= playedChunk
  <2>1. CASE TooOld(id) \/ Store(id)
    BY <1>1, <2>1 DEF TooOld, Store
  <2>2. CASE PlayNow(id)
    BY <1>1, <2>2, IdsAssumption DEF PlayNow, IsTooOld
  <2>3. CASE Collide(id)
    <3>1. CASE playedChunk' = playedChunk
      BY <1>1, <3>1
    <3>2. CASE playedChunk' # playedChunk
      <4>1. crashed' = FALSE
        BY <2>3, <3>2 DEF Collide, Cleanup, Arrives, TypeOK
      <4>2. PICK i \in Occupied(slot) \cap CleanupRange(SlotOf(id)) :
                playedChunk' = slot[i]
        BY <2>3, <3>2, <4>1, CleanupFacts DEF Collide
      <4>3. i \in Slots /\ slot[i] \in Ids /\ Rem(slot[i]) = i
        BY <4>2 DEF Occupied, TypeOK, SlotsConsistent
      <4>4. CASE playedChunk = None
        <5>1. playedChunk' \in Nat
          BY <4>2, <4>3, IdsAssumption
        <5> QED BY <4>4, <5>1 DEF None
      <4>5. CASE playedChunk \in Ids
        <5>1. id > playedChunk
          BY <1>1, <2>3, IdsAssumption DEF Collide, IsTooOld
        <5> QED BY <4>2, <4>3, <4>5, <5>1, CleanupFreesNewer
      <4> QED BY <4>4, <4>5 DEF TypeOK
    <3> QED BY <3>1, <3>2
  <2> QED BY <1>3, <2>1, <2>2, <2>3 DEF Deliver
<1>4. ASSUME NEW id \in Ids, SetFirstChunk(id) PROVE playedChunk' >= playedChunk
  BY <1>1, <1>4 DEF SetFirstChunk
<1> QED BY <1>2, <1>3, <1>4 DEF Next

(* Of any Size consecutive chunks, wherever the stream was joined and      *)
(* however often and in whatever order they arrive, the last played chunk  *)
(* never goes back.                                                        *)
THEOREM PlayedNeverRewinds ==
    ASSUME OneWindow
    PROVE  Spec => NeverRewinds
BY RewindStep, TypeCorrect, SlotsAreConsistent, PTL DEF Spec, NeverRewinds

-----------------------------------------------------------------------------
(* Within one window and without duplicates: no chunk is lost or repeated. *)

(* A chunk that arrives has not arrived before and its slot is empty:      *)
(* there are no collisions.                                                *)
LEMMA WindowArrival ==
    ASSUME OneWindow, MaxCopies = 1, WindowInv, NEW id \in Ids, Arrives(id)
    PROVE  /\ id \in Nat /\ SlotOf(id) \in Slots /\ slot[SlotOf(id)] = Empty
           /\ delivered[id] = 0
           /\ delivered' = [delivered EXCEPT ![id] = 1]
           /\ \A x \in Ids : delivered'[x] = IF x = id THEN 1 ELSE delivered[x]
           /\ \A k \in 1 .. Len(played) : played[k] # id
           /\ \A i \in Slots : slot[i] # id
<1>1. id \in Nat /\ SlotOf(id) \in Slots
  BY RemFacts, IdsAssumption DEF SlotOf
<1>2. delivered[id] = 0 /\ delivered \in [Ids -> 0 .. MaxCopies]
  BY DEF Arrives, WindowInv, TypeOK
<1>3. delivered' = [delivered EXCEPT ![id] = 1]
  BY <1>2 DEF Arrives
<1>4. slot[SlotOf(id)] = Empty
  <2> SUFFICES ASSUME slot[SlotOf(id)] # Empty PROVE FALSE
    OBVIOUS
  <2>1. /\ slot[SlotOf(id)] \in Ids /\ Rem(slot[SlotOf(id)]) = Rem(id)
        /\ delivered[slot[SlotOf(id)]] = 1
    BY <1>1 DEF SlotOf, WindowInv, WindowSlots, TypeOK
  <2> QED BY <1>2, <2>1, OwnSlot
<1>5. \A k \in 1 .. Len(played) : played[k] # id
  BY <1>2 DEF WindowInv, Written
<1>6. \A i \in Slots : slot[i] # id
  BY <1>1, <1>2 DEF WindowInv, WindowSlots, Empty
<1> QED BY <1>1, <1>2, <1>3, <1>4, <1>5, <1>6

(* A flush of slots that hold different chunks writes the chunks of the    *)
(* slots it frees, each of them once, and leaves the other slots alone.    *)
LEMMA FlushOnce ==
    ASSUME TypeOK, NEW s \in [Slots -> Ids \cup {Empty}], Flush(s),
           \A i, j \in Slots : s[i] # Empty /\ s[i] = s[j] => i = j
    PROVE  \E u \in Seq(Ids) :
              /\ played' = played \o u
              /\ \A j, k \in 1 .. Len(u) : j # k => u[j] # u[k]
              /\ \A k \in 1 .. Len(u) :
                    \E i \in Slots : s[i] # Empty /\ u[k] = s[i] /\ slot'[i] = Empty
              /\ \A i \in Slots :
                    \/ slot'[i] = s[i]
                    \/ slot'[i] = Empty /\ \E k \in 1 .. Len(u) : u[k] = s[i]
<1>1. PICK n \in 0 .. Size, m \in 0 .. Size :
        /\ FlushWrites(s, n, m)
        /\ slot' = Freed(s, FlushStart .. FlushStart + n - 1 \cup 0 .. m - 1)
        /\ played' = played \o Block(s, FlushStart, n) \o Block(s, 0, m)
        /\ WritesSlots(s, FlushStart, n) /\ WritesSlots(s, 0, m)
  BY FlushFacts
<1> DEFINE w == Block(s, FlushStart, n)
           v == Block(s, 0, m)
           u == w \o v
           a == FlushStart
           pos(k) == IF k <= n THEN a + k - 1 ELSE k - n - 1
<1>2. /\ Size \in Nat /\ n \in Nat /\ m \in Nat /\ a \in 0 .. Size
      /\ Rem(playedChunk) \in Int /\ a = Rem(playedChunk) + 1
  BY FlushStartFacts, SizeAssumption DEF FlushStart
<1>3. /\ w \in Seq(Ids) /\ Len(w) = n
      /\ \A k \in 1 .. n : /\ a + k - 1 \in Slots /\ s[a + k - 1] # Empty
                           /\ w[k] = s[a + k - 1]
  BY <1>1 DEF WritesSlots
<1>4. /\ v \in Seq(Ids) /\ Len(v) = m
      /\ \A k \in 1 .. m : /\ 0 + k - 1 \in Slots /\ s[0 + k - 1] # Empty
                           /\ v[k] = s[0 + k - 1]
  BY <1>1 DEF WritesSlots
<1>5. m < a \/ m = 0
  <2> SUFFICES ASSUME m > 0 PROVE m < a
    BY <1>2
  <2>1. m - 1 \in 0 .. 0 + m - 1
    BY <1>2
  <2>2. m - 1 < Rem(playedChunk)
    BY <1>1, <2>1 DEF FlushWrites, Passes
  <2> QED BY <1>2, <2>2
<1>6. u \in Seq(Ids) /\ Len(u) = n + m /\ played' = played \o u
  <2>1. played' = (played \o w) \o v
    BY <1>1
  <2>2. played \in Seq(Ids) /\ w \in Seq(Ids) /\ v \in Seq(Ids)
    BY <1>3, <1>4 DEF TypeOK
  <2> HIDE DEF w, v
  <2>3. (played \o w) \o v = played \o (w \o v)
    BY <2>2, ConcatAssociative
  <2>4. w \o v \in Seq(Ids) /\ Len(w \o v) = n + m
    BY <1>3, <1>4, <2>2, ConcatProperties
  <2> QED BY <2>1, <2>3, <2>4
<1>7. slot' = [i \in Slots |-> IF i \in a .. a + n - 1 \cup 0 .. m - 1
                               THEN Empty ELSE s[i]]
  BY <1>1 DEF Freed
<1>8. \A k \in 1 .. n + m : /\ pos(k) \in Slots /\ s[pos(k)] # Empty
                            /\ pos(k) \in a .. a + n - 1 \cup 0 .. m - 1
                            /\ u[k] = s[pos(k)]
  <2> TAKE k \in 1 .. n + m
  <2>1. u[k] = IF k <= n THEN w[k] ELSE v[k - n]
    BY <1>2, <1>3, <1>4, <1>6, ConcatProperties
  <2> HIDE DEF w, v, u, a
  <2>2. CASE k <= n
    BY <1>2, <1>3, <2>1, <2>2
  <2>3. CASE ~(k <= n)
    <3>1. k - n \in 1 .. m /\ 0 + (k - n) - 1 = k - n - 1
      BY <1>2, <2>3
    <3>2. k - n - 1 \in Slots /\ s[k - n - 1] # Empty /\ v[k - n] = s[k - n - 1]
      BY <1>4, <3>1
    <3> QED BY <1>2, <2>1, <2>3, <3>1, <3>2
  <2> QED BY <2>2, <2>3
<1> HIDE DEF w, v, u, a
<1>9. \A j, k \in 1 .. n + m : j # k => pos(j) # pos(k)
  BY <1>2, <1>5
<1>10. \A i \in a .. a + n - 1 \cup 0 .. m - 1 :
          \E k \in 1 .. n + m : pos(k) = i
  <2> TAKE i \in a .. a + n - 1 \cup 0 .. m - 1
  <2>1. CASE i \in a .. a + n - 1
    <3>1. i - a + 1 \in 1 .. n + m /\ pos(i - a + 1) = i
      BY <1>2, <2>1
    <3> QED BY <3>1
  <2>2. CASE i \in 0 .. m - 1
    <3>1. n + i + 1 \in 1 .. n + m /\ pos(n + i + 1) = i
      BY <1>2, <2>2
    <3> QED BY <3>1
  <2> QED BY <2>1, <2>2
<1> HIDE DEF pos
<1>11. \A j, k \in 1 .. Len(u) : j # k => u[j] # u[k]
  BY <1>6, <1>8, <1>9
<1>12. \A k \in 1 .. Len(u) :
          \E i \in Slots : s[i] # Empty /\ u[k] = s[i] /\ slot'[i] = Empty
  <2> TAKE k \in 1 .. Len(u)
  <2> QED BY <1>6, <1>7, <1>8
<1>13. \A i \in Slots :
          \/ slot'[i] = s[i]
          \/ slot'[i] = Empty /\ \E k \in 1 .. Len(u) : u[k] = s[i]
  <2> TAKE i \in Slots
  <2>1. CASE i \in a .. a + n - 1 \cup 0 .. m - 1
    <3>1. PICK k \in 1 .. n + m : pos(k) = i
      BY <1>10, <2>1
    <3> QED BY <1>6, <1>7, <1>8, <2>1, <3>1
  <2>2. CASE i \notin a .. a + n - 1 \cup 0 .. m - 1
    BY <1>7, <2>2
  <2> QED BY <2>1, <2>2
<1> QED BY <1>6, <1>11, <1>12, <1>13

(* A chunk the buffer turns away as too old arrives late: it is older than *)
(* the first chunk.                                                        *)
LEMMA WindowTooOld ==
    ASSUME OneWindow, MaxCopies = 1, WindowInv, TypeOK', NEW id \in Ids, TooOld(id)
    PROVE  WindowInv'
<1>1. Arrives(id) /\ id <= playedChunk
      /\ UNCHANGED <<slot, playedChunk, firstChunk, played>>
  BY DEF TooOld, IsTooOld, Arrives
<1>2. /\ delivered[id] = 0
      /\ \A x \in Ids : delivered'[x] = IF x = id THEN 1 ELSE delivered[x]
  BY <1>1, WindowArrival
<1>3. \A k \in 1 .. Len(played) : played[k] \in Ids
  BY ElementOfSeq DEF WindowInv, TypeOK
<1>4. WindowSlots'
  BY <1>1, <1>2 DEF WindowInv, WindowSlots, TypeOK, Rem
<1>5. Skipped' /\ Written' /\ WrittenOnce'
  BY <1>1, <1>2, <1>3 DEF WindowInv, Skipped, Written, WrittenOnce
<1>6. Accounted'
  <2>1. id < firstChunk
    BY <1>1, <1>2 DEF WindowInv, Skipped
  <2> QED BY <1>1, <1>2, <2>1 DEF WindowInv, Accounted, Rem
<1> QED BY <1>4, <1>5, <1>6 DEF WindowInv

(* A chunk written at once was not written before, and the one it follows, *)
(* or all before the first chunk, were accounted for.                      *)
LEMMA WindowPlayNow ==
    ASSUME OneWindow, MaxCopies = 1, WindowInv, TypeOK', NEW id \in Ids, PlayNow(id)
    PROVE  WindowInv'
<1>1. /\ Arrives(id) /\ IsNext(id) /\ ~ (id <= playedChunk)
      /\ played' = Append(played, id) /\ playedChunk' = id
      /\ UNCHANGED <<slot, firstChunk>>
  BY DEF PlayNow, IsTooOld, Arrives
<1>2. /\ id \in Nat /\ delivered[id] = 0
      /\ \A x \in Ids : delivered'[x] = IF x = id THEN 1 ELSE delivered[x]
      /\ \A k \in 1 .. Len(played) : played[k] # id
      /\ \A i \in Slots : slot[i] # id
  BY <1>1, WindowArrival
<1>3. /\ Len(played) \in Nat /\ playedChunk \in Int
      /\ \A k \in 1 .. Len(played) : played[k] \in Ids
  BY LenProperties, ElementOfSeq, IdsAssumption DEF WindowInv, TypeOK, None
<1>4. /\ Len(played') = Len(played) + 1
      /\ \A k \in 1 .. Len(played) + 1 :
            played'[k] = IF k <= Len(played) THEN played[k] ELSE id
  BY <1>1, <1>3, AppendProperties DEF WindowInv, TypeOK
<1>5. WindowSlots'
  <2> SUFFICES ASSUME NEW i \in Slots, slot[i] # Empty
               PROVE  /\ Rem(slot[i]) = i /\ delivered'[slot[i]] = 1
                      /\ \A k \in 1 .. Len(played') : played'[k] # slot[i]
    BY <1>1 DEF WindowSlots, Rem
  <2>1. /\ slot[i] \in Ids /\ Rem(slot[i]) = i /\ delivered[slot[i]] = 1
        /\ \A k \in 1 .. Len(played) : played[k] # slot[i]
    BY DEF WindowInv, WindowSlots, TypeOK
  <2>2. ASSUME NEW k \in 1 .. Len(played')
        PROVE  played'[k] # slot[i]
    BY <1>2, <1>3, <1>4, <2>1
  <2>3. delivered'[slot[i]] = 1
    BY <1>2, <2>1
  <2> QED BY <2>1, <2>2, <2>3
<1>6. Skipped'
  <2>1. CASE id = firstChunk
    BY <1>1, <1>2, <2>1, IdsAssumption DEF Skipped
  <2>2. CASE id = playedChunk + 1
    <3>1. \A x \in Ids : x <= id /\ x # id => x <= playedChunk
      BY <1>2, <1>3, <2>2, IdsAssumption
    <3> QED BY <1>1, <1>2, <3>1 DEF WindowInv, Skipped
  <2> QED BY <1>1, <2>1, <2>2 DEF IsNext
<1>7. Written' /\ WrittenOnce'
  <2>1. Written'
    <3> SUFFICES ASSUME NEW k \in 1 .. Len(played') PROVE delivered'[played'[k]] = 1
      BY DEF Written
    <3>1. CASE k <= Len(played)
      <4>1. k \in 1 .. Len(played) /\ played'[k] = played[k] /\ played[k] \in Ids
        BY <1>3, <1>4, <3>1
      <4> QED BY <1>2, <4>1 DEF WindowInv, Written
    <3>2. CASE ~(k <= Len(played))
      BY <1>2, <1>3, <1>4, <3>2
    <3> QED BY <3>1, <3>2
  <2>2. WrittenOnce'
    BY <1>2, <1>3, <1>4 DEF WindowInv, WrittenOnce
  <2> QED BY <2>1, <2>2
<1>8. Accounted'
  <2>1. Len(played) + 1 \in 1 .. Len(played') /\ played'[Len(played) + 1] = id
    BY <1>3, <1>4
  <2>2. \A k \in 1 .. Len(played) : k \in 1 .. Len(played') /\ played'[k] = played[k]
    BY <1>3, <1>4
  <2> QED BY <1>1, <1>2, <2>1, <2>2 DEF WindowInv, Accounted, Rem
<1> QED BY <1>5, <1>6, <1>7, <1>8 DEF WindowInv

(* Every chunk of a slot the flush behind a stored chunk frees is written  *)
(* once, and it was not written before.                                    *)
LEMMA WindowStore ==
    ASSUME OneWindow, MaxCopies = 1, WindowInv, TypeOK', NEW id \in Ids, Store(id)
    PROVE  WindowInv'
<1> DEFINE s == [slot EXCEPT ![SlotOf(id)] = id]
<1>1. /\ Arrives(id) /\ Flush(s) /\ TypeOK
      /\ UNCHANGED <<playedChunk, firstChunk>>
  BY DEF Store, Arrives, WindowInv
<1>2. /\ id \in Nat /\ SlotOf(id) \in Slots /\ slot[SlotOf(id)] = Empty
      /\ delivered[id] = 0
      /\ \A x \in Ids : delivered'[x] = IF x = id THEN 1 ELSE delivered[x]
      /\ \A k \in 1 .. Len(played) : played[k] # id
      /\ \A i \in Slots : slot[i] # id
  BY <1>1, WindowArrival
<1>3. /\ s \in [Slots -> Ids \cup {Empty}]
      /\ \A i \in Slots : s[i] = IF i = SlotOf(id) THEN id ELSE slot[i]
  BY <1>1, <1>2 DEF TypeOK
<1> HIDE DEF s
<1>4. \A i \in Slots : s[i] # Empty =>
         /\ s[i] \in Ids /\ Rem(s[i]) = i /\ delivered'[s[i]] = 1
         /\ \A k \in 1 .. Len(played) : played[k] # s[i]
  <2> SUFFICES ASSUME NEW i \in Slots, s[i] # Empty
               PROVE  /\ s[i] \in Ids /\ Rem(s[i]) = i /\ delivered'[s[i]] = 1
                      /\ \A k \in 1 .. Len(played) : played[k] # s[i]
    OBVIOUS
  <2>1. CASE i = SlotOf(id)
    BY <1>2, <1>3, <2>1, Zenon DEF SlotOf
  <2>2. CASE i # SlotOf(id)
    <3>1. s[i] = slot[i]
      BY <1>3, <2>2
    <3>2. /\ slot[i] \in Ids /\ Rem(slot[i]) = i /\ delivered[slot[i]] = 1
          /\ \A k \in 1 .. Len(played) : played[k] # slot[i]
      BY <3>1, Zenon DEF WindowInv, WindowSlots, TypeOK
    <3> QED BY <1>2, <3>1, <3>2
  <2> QED BY <2>1, <2>2
<1>5. \A i, j \in Slots : s[i] # Empty /\ s[i] = s[j] => i = j
  BY <1>4
<1>6. PICK u \in Seq(Ids) :
         /\ played' = played \o u
         /\ \A j, k \in 1 .. Len(u) : j # k => u[j] # u[k]
         /\ \A k \in 1 .. Len(u) :
               \E i \in Slots : s[i] # Empty /\ u[k] = s[i] /\ slot'[i] = Empty
         /\ \A i \in Slots :
               \/ slot'[i] = s[i]
               \/ slot'[i] = Empty /\ \E k \in 1 .. Len(u) : u[k] = s[i]
  BY <1>1, <1>3, <1>5, FlushOnce
<1>7. /\ Len(played) \in Nat /\ Len(u) \in Nat
      /\ Len(played') = Len(played) + Len(u)
      /\ \A k \in 1 .. Len(played) + Len(u) :
            played'[k] = IF k <= Len(played) THEN played[k] ELSE u[k - Len(played)]
      /\ \A k \in 1 .. Len(played) : played[k] \in Ids
  BY <1>1, <1>6, LenProperties, ElementOfSeq, ConcatProperties DEF TypeOK
<1>8. \A k \in 1 .. Len(played) + Len(u) :
         k > Len(played) => k - Len(played) \in 1 .. Len(u)
  BY <1>7
<1>9. \A k \in 1 .. Len(u) :
         /\ delivered'[u[k]] = 1
         /\ \A j \in 1 .. Len(played) : played[j] # u[k]
  BY <1>4, <1>6
<1>10. WindowSlots'
  <2> SUFFICES ASSUME NEW i \in Slots, slot'[i] # Empty
               PROVE  /\ Rem(slot'[i]) = i /\ delivered'[slot'[i]] = 1
                      /\ \A k \in 1 .. Len(played') : played'[k] # slot'[i]
    BY DEF WindowSlots, Rem
  <2>1. slot'[i] = s[i] /\ s[i] # Empty
    BY <1>6
  <2>2. \A k \in 1 .. Len(u) : u[k] # s[i]
    BY <1>5, <1>6, <2>1
  <2>3. \A k \in 1 .. Len(played) : played[k] # s[i]
    BY <1>4, <2>1
  <2> QED BY <1>4, <1>7, <1>8, <2>1, <2>2, <2>3
<1>11. Skipped'
  BY <1>1, <1>2 DEF WindowInv, Skipped
<1>12. Written'
  <2> SUFFICES ASSUME NEW k \in 1 .. Len(played') PROVE delivered'[played'[k]] = 1
    BY DEF Written
  <2>1. CASE k <= Len(played)
    <3>1. k \in 1 .. Len(played) /\ played'[k] = played[k] /\ played[k] \in Ids
      BY <1>7, <2>1
    <3> QED BY <1>2, <3>1 DEF WindowInv, Written
  <2>2. CASE k > Len(played)
    BY <1>7, <1>8, <1>9, <2>2
  <2> QED BY <1>7, <2>1, <2>2
<1>13. WrittenOnce'
  <2> SUFFICES ASSUME NEW j \in 1 .. Len(played'), NEW k \in 1 .. Len(played'), j < k
               PROVE  played'[j] # played'[k]
    BY <1>7 DEF WrittenOnce
  <2>1. CASE k <= Len(played)
    BY <1>7, <2>1 DEF WindowInv, WrittenOnce
  <2>2. CASE j <= Len(played) /\ Len(played) < k
    BY <1>7, <1>8, <1>9, <2>2
  <2>3. CASE Len(played) < j
    BY <1>6, <1>7, <1>8, <2>3
  <2> QED BY <1>7, <2>1, <2>2, <2>3
<1>14. Accounted'
  <2>1. \A x \in Ids :
           (\E k \in 1 .. Len(played) : played[k] = x) \/ (\E k \in 1 .. Len(u) : u[k] = x)
              => \E k \in 1 .. Len(played') : played'[k] = x
    <3> TAKE x \in Ids
    <3>1. ASSUME NEW k \in 1 .. Len(played), played[k] = x
          PROVE  k \in 1 .. Len(played') /\ played'[k] = x
      BY <1>7, <3>1
    <3>2. ASSUME NEW k \in 1 .. Len(u), u[k] = x
          PROVE  Len(played) + k \in 1 .. Len(played') /\ played'[Len(played) + k] = x
      BY <1>7, <3>2
    <3> QED BY <3>1, <3>2
  <2> SUFFICES ASSUME NEW x \in Ids, delivered'[x] > 0
               PROVE  \/ \E k \in 1 .. Len(played') : played'[k] = x
                      \/ slot'[Rem(x)] = x
                      \/ x < firstChunk
    BY <1>1 DEF Accounted, Rem
  <2>2. Rem(x) \in Slots
    BY RemFacts, IdsAssumption
  <2>3. CASE s[Rem(x)] = x
    BY <1>6, <2>1, <2>2, <2>3
  <2>4. CASE s[Rem(x)] # x
    <3>1. x # id
      BY <1>3, <2>2, <2>4 DEF SlotOf
    <3>2. delivered[x] > 0
      BY <1>2, <3>1
    <3>3. slot[Rem(x)] # x
      BY <1>2, <1>3, <2>2, <2>4, IdsAssumption DEF Empty
    <3> QED BY <2>1, <3>2, <3>3 DEF WindowInv, Accounted
  <2> QED BY <2>3, <2>4
<1> QED BY <1>10, <1>11, <1>12, <1>13, <1>14 DEF WindowInv

(* When the first chunk is chosen nothing was skipped yet.                 *)
LEMMA WindowFirst ==
    ASSUME WindowInv, TypeOK', NEW id \in Ids, SetFirstChunk(id)
    PROVE  WindowInv'
<1>1. /\ UNCHANGED <<slot, playedChunk, delivered, played>>
      /\ firstChunk = None
  BY DEF SetFirstChunk
<1>2. \A x \in Ids : ~ (x < firstChunk)
  BY <1>1, IdsAssumption DEF None
<1>3. WindowSlots' /\ Written' /\ WrittenOnce'
  BY <1>1 DEF WindowInv, WindowSlots, Written, WrittenOnce, Rem
<1>4. Skipped' /\ Accounted'
  BY <1>1, <1>2 DEF WindowInv, Skipped, Accounted, Rem
<1> QED BY <1>3, <1>4 DEF WindowInv

(* WindowInv is inductive. *)
LEMMA WindowStep ==
    ASSUME OneWindow, MaxCopies = 1
    PROVE  WindowInv /\ [Next]_vars => WindowInv'
<1> SUFFICES ASSUME WindowInv, [Next]_vars PROVE WindowInv'
  OBVIOUS
<1>1. TypeOK'
  BY TypeStep DEF WindowInv
<1>2. CASE UNCHANGED vars
  BY <1>1, <1>2 DEF vars, WindowInv, WindowSlots, Skipped, Written, WrittenOnce,
                    Accounted, Rem
<1>3. ASSUME NEW id \in Ids, Deliver(id) PROVE WindowInv'
  <2>1. ~ Collide(id)
    BY WindowArrival DEF Collide
  <2> QED BY <1>1, <1>3, <2>1, WindowTooOld, WindowPlayNow, WindowStore DEF Deliver
<1>4. ASSUME NEW id \in Ids, SetFirstChunk(id) PROVE WindowInv'
  BY <1>1, <1>4, WindowFirst
<1> QED BY <1>2, <1>3, <1>4 DEF Next

(* WindowInv holds of an empty buffer. *)
LEMMA WindowInit == Init => WindowInv
<1> SUFFICES ASSUME Init PROVE WindowInv
  OBVIOUS
<1>1. TypeOK
  BY TypeInit
<1>2. played = <<>> /\ Len(played) = 0 /\ playedChunk = -1
  BY EmptySeq DEF Init, None
<1>3. WindowSlots /\ Written /\ WrittenOnce
  BY <1>2 DEF Init, WindowSlots, Written, WrittenOnce
<1>4. Skipped /\ Accounted
  BY <1>2, IdsAssumption DEF Init, Skipped, Accounted
<1> QED BY <1>1, <1>3, <1>4 DEF WindowInv

(* Of any Size consecutive chunks, each delivered once at most, whatever   *)
(* order they arrive in, wherever the missing return value cuts flushes    *)
(* off and whenever the first chunk is chosen: a slot holds a chunk that   *)
(* is still to be written.                                                 *)
THEOREM WindowInvariant ==
    ASSUME OneWindow, MaxCopies = 1
    PROVE  Spec => []WindowInv
BY WindowInit, WindowStep, PTL DEF Spec

(* No chunk gets lost in the buffer, where the window goes around the end  *)
(* of the buffer either.                                                   *)
THEOREM ChunksAccounted ==
    ASSUME OneWindow, MaxCopies = 1
    PROVE  Spec => []Accounted
<1>1. WindowInv => Accounted
  BY DEF WindowInv
<1> QED BY <1>1, WindowInvariant, PTL

(* The plugin is given no chunk twice. *)
THEOREM ChunksWrittenOnce ==
    ASSUME OneWindow, MaxCopies = 1
    PROVE  Spec => []WrittenOnce
<1>1. WindowInv => WrittenOnce
  BY DEF WindowInv
<1> QED BY <1>1, WindowInvariant, PTL

-----------------------------------------------------------------------------
(* Within one lap and without duplicates: order.                           *)

(* Where the last played chunk and a chunk lie in the lap: a flush starts  *)
(* behind the former.                                                      *)
LEMMA LapFacts ==
    ASSUME OneLap, TypeOK, NEW id \in Ids
    PROVE  /\ Lap \in Int /\ Behind \in Int /\ Behind >= Lap - 1
           /\ id <= playedChunk <=> id <= Behind
           /\ id = playedChunk + 1 => id = Behind + 1
           /\ Size > 1 => /\ Rem(playedChunk) = Behind - Lap
                          /\ FlushStart = Behind + 1 - Lap
<1>1. /\ id \in Nat /\ Lap \in Int /\ Rem(id) = id - Lap
      /\ id - Lap >= 0
  BY LapPlace DEF Slots
<1>2. CASE playedChunk = None
  <2>1. Behind = Lap - 1 /\ playedChunk = -1
    BY <1>2 DEF Behind, None
  <2>2. id = 0 => Lap = 0
    <3>1. 0 % Size = 0
      BY SizeAssumption
    <3> QED BY <1>1, <3>1, RemFacts
  <2>3. Size > 1 => Rem(playedChunk) = -1
    <3>1. Rem(None) = -(1 % Size)
      BY DEF Rem, None
    <3>2. Size > 1 => 1 % Size = 1
      BY SizeAssumption
    <3> QED BY <1>2, <3>1, <3>2
  <2> QED BY <1>1, <2>1, <2>2, <2>3 DEF FlushStart
<1>3. CASE playedChunk \in Ids
  <2>1. Behind = playedChunk
    BY <1>3, IdsAssumption DEF Behind, None
  <2>2. /\ playedChunk \in Nat /\ Rem(playedChunk) = playedChunk - Lap
        /\ playedChunk - Lap >= 0
    BY <1>3, LapPlace DEF Slots
  <2> QED BY <1>1, <2>1, <2>2 DEF FlushStart
<1> QED BY <1>2, <1>3 DEF TypeOK

(* No chunk written is newer than the last one, and what lies between the  *)
(* chunk a flush starts behind and the last one written has arrived.       *)
LEMMA TipFacts ==
    ASSUME OneLap, LapInv, NEW id \in Ids
    PROVE  /\ Tip \in Int /\ Behind <= Tip
           /\ \A j \in Behind + 1 .. Tip : j \in Ids /\ delivered[j] = 1
           /\ played \in Seq(Ids) /\ Len(played) \in Nat
           /\ \A k \in 1 .. Len(played) : played[k] \in Nat /\ played[k] <= Tip
<1>1. /\ played \in Seq(Ids) /\ Len(played) \in Nat
      /\ \A k \in 1 .. Len(played) : played[k] \in Nat
  BY LenProperties, ElementOfSeq, IdsAssumption DEF LapInv, WindowInv, TypeOK
<1>2. Lap \in Int /\ Behind \in Int
  BY LapFacts DEF LapInv, WindowInv
<1>3. Tip \in Int /\ \A k \in 1 .. Len(played) : played[k] <= Tip
  <2>1. CASE played = <<>>
    BY <1>1, <1>2, <2>1 DEF Tip
  <2>2. CASE played # <<>>
    <3>1. Len(played) \in 1 .. Len(played) /\ Tip = played[Len(played)]
      BY <1>1, <2>2, EmptySeq DEF Tip
    <3>2. \A k \in 1 .. Len(played) : k < Len(played) => played[k] < Tip
      BY <3>1 DEF LapInv, InOrder
    <3> QED BY <1>1, <3>1, <3>2
  <2> QED BY <2>1, <2>2
<1>4. Behind <= Tip /\ \A j \in Behind + 1 .. Tip : j \in Ids /\ delivered[j] = 1
  BY <1>2, <1>3 DEF LapInv, LapTip
<1> QED BY <1>1, <1>3, <1>4

(* Appending a block of consecutive chunks behind the last one written     *)
(* keeps the order, and the block's last chunk is the new last one.        *)
LEMMA AppendBlock ==
    ASSUME OneLap, LapInv, NEW w \in Seq(Ids), NEW a \in Int, Tip < a,
           \A k \in 1 .. Len(w) : w[k] = a + k - 1,
           played' = played \o w, NEW id \in Ids
    PROVE  /\ InOrder'
           /\ Tip' = IF Len(w) = 0 THEN Tip ELSE a + Len(w) - 1
<1>1. played \in Seq(Ids)
  BY DEF LapInv, WindowInv, TypeOK
<1>2. Len(w) \in Nat /\ Len(played) \in Nat
  BY <1>1, LenProperties
<1>3. /\ Len(played') = Len(played) + Len(w)
      /\ \A k \in 1 .. Len(played') :
            played'[k] = IF k <= Len(played) THEN played[k] ELSE w[k - Len(played)]
  BY <1>1, ConcatProperties
<1>4. \A k \in 1 .. Len(played') : k > Len(played) =>
         /\ k - Len(played) \in 1 .. Len(w)
         /\ w[k - Len(played)] = a + k - Len(played) - 1
  BY <1>2, <1>3
<1>5. \A k \in 1 .. Len(played') :
         played'[k] = IF k <= Len(played) THEN played[k]
                      ELSE a + k - Len(played) - 1
  BY <1>2, <1>3, <1>4
<1>6. \A j, k \in 1 .. Len(played') : j < k => played'[j] < played'[k]
  <2> TAKE j, k \in 1 .. Len(played')
  <2> HAVE j < k
  <2>1. CASE k <= Len(played)
    BY <1>2, <1>3, <1>5, <2>1 DEF LapInv, InOrder
  <2>2. CASE j <= Len(played) /\ Len(played) < k
    <3>1. played[j] <= Tip /\ played[j] \in Nat /\ Tip \in Int
      BY <1>2, <2>2, TipFacts
    <3>2. played'[k] >= a /\ played'[k] \in Int
      BY <1>2, <1>5, <2>2
    <3> QED BY <1>5, <2>2, <3>1, <3>2
  <2>3. CASE Len(played) < j
    BY <1>2, <1>5, <2>3
  <2> QED BY <1>2, <2>1, <2>2, <2>3
<1>7. Tip' = IF Len(w) = 0 THEN Tip ELSE a + Len(w) - 1
  <2>1. CASE Len(w) = 0
    <3>1. w = <<>>
      BY <2>1, EmptySeq
    <3>2. played' = played
      BY <1>1, <3>1, ConcatEmptySeq
    <3> QED BY <2>1, <3>2 DEF Tip
  <2>2. CASE Len(w) # 0
    <3>1. played' # <<>>
      BY <1>2, <1>3, <2>2, EmptySeq
    <3>2. Len(played') \in 1 .. Len(played') /\ Len(played') > Len(played)
      BY <1>2, <1>3, <2>2
    <3>3. played'[Len(played')] = a + Len(w) - 1
      BY <1>2, <1>3, <1>5, <3>2
    <3> QED BY <2>2, <3>1, <3>3 DEF Tip
  <2> QED BY <2>1, <2>2
<1> QED BY <1>6, <1>7 DEF InOrder

(* A chunk written at once is newer than everything written: what lies     *)
(* between playedChunk and the last chunk written has arrived already.     *)
LEMMA LapPlayNow ==
    ASSUME OneLap, MaxCopies = 1, LapInv, WindowInv', NEW id \in Ids, PlayNow(id)
    PROVE  LapInv'
<1>1. /\ Arrives(id) /\ ~ (id <= playedChunk)
      /\ played' = Append(played, id) /\ playedChunk' = id
      /\ slot' = slot
  BY DEF PlayNow, IsTooOld
<1>2. /\ id \in Nat /\ delivered[id] = 0
      /\ id > Behind /\ Behind \in Int /\ Tip \in Int
      /\ \A j \in Behind + 1 .. Tip : delivered[j] = 1
      /\ played \in Seq(Ids)
  BY <1>1, LapIsWindow, WindowArrival, LapFacts, TipFacts DEF LapInv, WindowInv
<1>3. Tip < id
  <2>1. id \notin Behind + 1 .. Tip
    BY <1>2
  <2> QED BY <1>2, <2>1
<1>4. InOrder' /\ Tip' = id
  <2> DEFINE w == <<id>>
  <2>1. /\ w \in Seq(Ids) /\ Len(w) = 1
        /\ \A k \in 1 .. Len(w) : w[k] = id + k - 1
    BY <1>2
  <2>2. played' = played \o w /\ id \in Int
    BY <1>1, <1>2
  <2> HIDE DEF w
  <2>3. /\ InOrder'
        /\ Tip' = IF Len(w) = 0 THEN Tip ELSE id + Len(w) - 1
    BY <1>2, <1>3, <2>1, <2>2, AppendBlock
  <2> QED BY <1>2, <2>1, <2>3
<1>5. Behind' = id
  BY <1>1, <1>2 DEF Behind, None
<1> QED BY <1>1, <1>4, <1>5 DEF LapInv, LapTip

(* A chunk stored is followed by a flush that writes the chunks behind the *)
(* last one written, slot by slot, or nothing.                             *)
LEMMA LapStoreWrites ==
    ASSUME OneLap, MaxCopies = 1, LapInv, NEW id \in Ids, Store(id)
    PROVE  \E n \in 0 .. Size :
              /\ n > 0 => Behind = Tip
              /\ Size > 1 /\ id = Behind + 1 => n > 0
              /\ \A j \in Behind + 1 .. Behind + n :
                    j \in Ids /\ (j = id \/ slot[j - Lap] = j)
              /\ slot' = [i \in Slots |->
                             IF i + Lap \in Behind + 1 .. Behind + n THEN Empty
                             ELSE IF i = id - Lap THEN id ELSE slot[i]]
              /\ \E w \in Seq(Ids) :
                    /\ Len(w) = n
                    /\ \A k \in 1 .. n : w[k] = Behind + k
                    /\ played' = played \o w
<1> DEFINE s == [slot EXCEPT ![SlotOf(id)] = id]
<1>1. /\ Flush(s) /\ TypeOK /\ OneWindow /\ Arrives(id) /\ ~ (id <= playedChunk)
  BY LapIsWindow DEF Store, IsTooOld, LapInv, WindowInv
<1>2. /\ id \in Nat /\ Lap \in Int /\ Behind \in Int /\ Behind >= Lap - 1
      /\ id > Behind /\ id - Lap \in Slots /\ SlotOf(id) = id - Lap
      /\ delivered[id] = 0 /\ slot[id - Lap] = Empty
  BY <1>1, LapPlace, LapFacts, WindowArrival DEF LapInv, SlotOf
<1>3. /\ Tip \in Int /\ Behind <= Tip /\ played \in Seq(Ids)
      /\ \A j \in Behind + 1 .. Tip : j \in Ids /\ delivered[j] = 1
  BY TipFacts
<1>4. /\ s \in [Slots -> Ids \cup {Empty}] /\ slot \in [Slots -> Ids \cup {Empty}]
      /\ \A i \in Slots : s[i] = IF i = id - Lap THEN id ELSE slot[i]
  BY <1>1, <1>2 DEF TypeOK
<1> HIDE DEF s
<1>5. \A i \in Slots : s[i] # Empty => s[i] = i + Lap /\ s[i] \in Ids
  <2> SUFFICES ASSUME NEW i \in Slots, s[i] # Empty PROVE s[i] = i + Lap /\ s[i] \in Ids
    OBVIOUS
  <2>1. s[i] \in Ids
    BY <1>4
  <2>2. Rem(s[i]) = i
    <3>1. CASE i = id - Lap
      BY <1>2, <1>4, <3>1, LapPlace
    <3>2. CASE i # id - Lap
      BY <1>4, <3>2 DEF LapInv, WindowInv, WindowSlots
    <3> QED BY <3>1, <3>2
  <2>3. s[i] \in Nat /\ Rem(s[i]) = s[i] - Lap
    BY <2>1, LapPlace
  <2> QED BY <1>2, <2>1, <2>2, <2>3 DEF Slots
<1>6. PICK n \in 0 .. Size, m \in 0 .. Size :
        /\ FlushWrites(s, n, m)
        /\ slot' = Freed(s, FlushStart .. FlushStart + n - 1 \cup 0 .. m - 1)
        /\ played' = played \o Block(s, FlushStart, n) \o Block(s, 0, m)
        /\ WritesSlots(s, FlushStart, n) /\ WritesSlots(s, 0, m)
  BY <1>1, <1>4, FlushFacts
<1> DEFINE w == Block(s, FlushStart, n)
<1>7. Size \in Nat /\ Size > 0 /\ n \in Nat /\ m \in Nat /\ FlushStart \in 0 .. Size
  BY <1>1, SizeAssumption, FlushStartFacts
<1>8. m = 0
  <2> SUFFICES ASSUME m > 0 PROVE FALSE
    BY <1>7
  <2>1. 0 < Rem(playedChunk) /\ s[0] # Empty
    <3>1. 0 \in 0 .. 0 + m - 1
      BY <1>7
    <3> QED BY <1>6, <3>1 DEF FlushWrites, Passes
  <2>2. CASE Size > 1
    <3>1. Behind > Lap
      BY <1>1, <1>2, <2>1, <2>2, LapFacts
    <3>2. 0 # id - Lap /\ 0 \in Slots /\ slot[0] = Empty
      BY <1>2, <1>7, <2>2, <3>1 DEF LapInv, Slots
    <3> QED BY <1>4, <2>1, <3>2
  <2>3. CASE Size = 1
    <3>1. Rem(playedChunk) <= 0
      BY <1>1, <1>7, <2>3, FlushStartFacts
    <3>2. Rem(playedChunk) \in Int
      BY <1>1, <2>3, FlushStartFacts
    <3> QED BY <2>1, <3>1, <3>2
  <2> QED BY <1>7, <2>2, <2>3
<1>9. played' = played \o w
  <2>1. Block(s, 0, m) = <<>>
    BY <1>6, <1>8, EmptySeq DEF WritesSlots
  <2>2. played \o w \in Seq(Ids)
    BY <1>3, <1>6, ConcatProperties DEF WritesSlots
  <2> QED BY <1>6, <2>1, <2>2, ConcatEmptySeq
<1>10. CASE Size > 1
  <2>1. FlushStart = Behind + 1 - Lap
    BY <1>1, <1>10, LapFacts
  <2>2. w \in Seq(Ids) /\ Len(w) = n
    BY <1>6 DEF WritesSlots
  <2>3. \A k \in 1 .. n : /\ Behind + k - Lap \in Slots
                          /\ s[Behind + k - Lap] = Behind + k
                          /\ Behind + k \in Ids
                          /\ w[k] = Behind + k
    <3> TAKE k \in 1 .. n
    <3>1. /\ FlushStart + k - 1 \in Slots /\ s[FlushStart + k - 1] # Empty
          /\ w[k] = s[FlushStart + k - 1]
      BY <1>6 DEF WritesSlots
    <3>2. FlushStart + k - 1 = Behind + k - Lap
      BY <1>2, <1>7, <2>1
    <3>3. /\ s[Behind + k - Lap] = (Behind + k - Lap) + Lap
          /\ s[Behind + k - Lap] \in Ids
      BY <1>5, <3>1, <3>2
    <3> QED BY <1>2, <3>1, <3>2, <3>3
  <2>4. \A j \in Behind + 1 .. Behind + n : j \in Ids /\ (j = id \/ slot[j - Lap] = j)
    <3> TAKE j \in Behind + 1 .. Behind + n
    <3> DEFINE k == j - Behind
    <3>1. k \in 1 .. n /\ Behind + k = j
      BY <1>2, <1>7
    <3> HIDE DEF k
    <3>2. Behind + k - Lap \in Slots /\ s[Behind + k - Lap] = Behind + k
          /\ Behind + k \in Ids
      BY <2>3, <3>1, Zenon
    <3>3. j - Lap \in Slots /\ s[j - Lap] = j /\ j \in Ids
      <4>1. Behind + k = j /\ Behind + k - Lap = j - Lap
        BY <1>2, <1>7, <3>1
      <4> QED BY <3>2, <4>1
    <3> QED BY <1>4, <3>3
  <2>5. n > 0 => Behind = Tip
    <3> SUFFICES ASSUME n > 0, Behind # Tip PROVE FALSE
      OBVIOUS
    <3>1. slot[Behind + 1 - Lap] = Empty
      BY DEF LapInv, LapTip
    <3>2. Behind + 1 \in Behind + 1 .. Tip
      BY <1>2, <1>3
    <3>3. Behind + 1 # id
      BY <1>2, <1>3, <3>2
    <3>4. s[Behind + 1 - Lap] = Behind + 1 /\ Behind + 1 - Lap \in Slots
          /\ Behind + 1 \in Ids
      BY <1>7, <2>3
    <3>5. Behind + 1 - Lap # id - Lap
      BY <1>2, <3>3
    <3> QED BY <1>4, <3>1, <3>4, <3>5, IdsAssumption DEF Empty
  <2>6. id = Behind + 1 => n > 0
    <3> SUFFICES ASSUME id = Behind + 1, n = 0 PROVE FALSE
      BY <1>7
    <3>1. FlushStart = id - Lap /\ FlushStart < Size
      BY <1>2, <1>7, <2>1 DEF Slots
    <3>2. s[FlushStart] = id
      BY <1>2, <1>4, <3>1
    <3>3. s[FlushStart + 0] = Empty
      BY <1>6, <1>7, <1>8, <3>1 DEF FlushWrites, Ends
    <3> QED BY <1>2, <1>7, <3>2, <3>3 DEF Empty
  <2>7. slot' = [i \in Slots |->
                   IF i + Lap \in Behind + 1 .. Behind + n THEN Empty
                   ELSE IF i = id - Lap THEN id ELSE slot[i]]
    <3>1. slot' = [i \in Slots |->
                      IF i \in FlushStart .. FlushStart + n - 1 \cup 0 .. m - 1
                      THEN Empty ELSE s[i]]
      BY <1>6 DEF Freed
    <3>2. \A i \in Slots : i \in FlushStart .. FlushStart + n - 1 \cup 0 .. m - 1
                             <=> i + Lap \in Behind + 1 .. Behind + n
      BY <1>2, <1>7, <1>8, <2>1 DEF Slots
    <3> QED BY <1>4, <3>1, <3>2
  <2> HIDE DEF w
  <2> QED BY <1>9, <2>2, <2>3, <2>4, <2>5, <2>6, <2>7
<1>11. CASE Size = 1
  <2>1. Rem(playedChunk) = 0 /\ FlushStart = 1
    <3>1. playedChunk = None
      <4> SUFFICES ASSUME playedChunk \in Ids PROVE FALSE
        BY <1>1 DEF TypeOK
      <4>1. playedChunk - Lap \in 0 .. 0 /\ playedChunk \in Nat /\ id - Lap \in 0 .. 0
        BY <1>2, <1>11, LapPlace DEF Slots
      <4> QED BY <1>1, <1>2, <4>1
    <3>2. Rem(None) = -(1 % Size)
      BY DEF Rem, None
    <3>3. 1 % Size = 0
      BY <1>11
    <3> QED BY <3>1, <3>2, <3>3 DEF FlushStart
  <2>2. n = 0
    <3> SUFFICES ASSUME n > 0 PROVE FALSE
      BY <1>7
    <3>1. FlushStart \in FlushStart .. FlushStart + n - 1
      BY <1>7, <2>1
    <3>2. FlushStart < Size
      BY <1>6, <3>1 DEF FlushWrites, Passes
    <3> QED BY <1>11, <2>1, <3>2
  <2>3. slot' = [i \in Slots |->
                   IF i + Lap \in Behind + 1 .. Behind + n THEN Empty
                   ELSE IF i = id - Lap THEN id ELSE slot[i]]
    <3>1. slot' = [i \in Slots |->
                      IF i \in FlushStart .. FlushStart + n - 1 \cup 0 .. m - 1
                      THEN Empty ELSE s[i]]
      BY <1>6 DEF Freed
    <3>2. \A i \in Slots : i \notin FlushStart .. FlushStart + n - 1 \cup 0 .. m - 1
      BY <1>8, <2>1, <2>2
    <3>3. \A i \in Slots : i + Lap \notin Behind + 1 .. Behind + n
      BY <1>2, <2>2
    <3> QED BY <1>4, <3>1, <3>2, <3>3
  <2>4. /\ w \in Seq(Ids) /\ Len(w) = n
        /\ \A k \in 1 .. n : w[k] = Behind + k
    BY <1>6, <2>2 DEF WritesSlots
  <2>5. \A j \in Behind + 1 .. Behind + n :
           j \in Ids /\ (j = id \/ slot[j - Lap] = j)
    BY <1>2, <2>2
  <2> HIDE DEF w
  <2>6. ~ (n > 0) /\ ~ (Size > 1)
    BY <1>11, <2>2
  <2> QED BY <1>9, <2>3, <2>4, <2>5, <2>6, Zenon
<1>12. Size > 1 \/ Size = 1
  BY <1>7
<1> QED BY <1>10, <1>11, <1>12, Zenon

(* A chunk that is stored, and the flush behind it, keep the order. *)
LEMMA LapStore ==
    ASSUME OneLap, MaxCopies = 1, LapInv, WindowInv', NEW id \in Ids, Store(id)
    PROVE  LapInv'
<1>1. PICK n \in 0 .. Size :
         /\ n > 0 => Behind = Tip
         /\ Size > 1 /\ id = Behind + 1 => n > 0
         /\ \A j \in Behind + 1 .. Behind + n :
               j \in Ids /\ (j = id \/ slot[j - Lap] = j)
         /\ slot' = [i \in Slots |->
                        IF i + Lap \in Behind + 1 .. Behind + n THEN Empty
                        ELSE IF i = id - Lap THEN id ELSE slot[i]]
         /\ \E w \in Seq(Ids) :
               /\ Len(w) = n
               /\ \A k \in 1 .. n : w[k] = Behind + k
               /\ played' = played \o w
  BY LapStoreWrites
<1>2. PICK w \in Seq(Ids) :
         /\ Len(w) = n
         /\ \A k \in 1 .. n : w[k] = Behind + k
         /\ played' = played \o w
  BY <1>1
<1>3. Arrives(id) /\ ~ (id <= playedChunk) /\ playedChunk' = playedChunk
  BY DEF Store, IsTooOld
<1>4. /\ id \in Nat /\ delivered[id] = 0
      /\ \A x \in Ids : delivered'[x] = IF x = id THEN 1 ELSE delivered[x]
  BY <1>3, LapIsWindow, WindowArrival DEF LapInv
<1>5. /\ Lap \in Int /\ Behind \in Int /\ Behind >= Lap - 1 /\ id > Behind
      /\ Tip \in Int /\ Behind <= Tip
      /\ \A j \in Behind + 1 .. Tip : j \in Ids /\ delivered[j] = 1
      /\ Behind' = Behind /\ n \in Nat /\ Size \in Nat
  <2>1. /\ Lap \in Int /\ Behind \in Int /\ Behind >= Lap - 1
        /\ id <= playedChunk <=> id <= Behind
    BY LapFacts DEF LapInv, WindowInv
  <2>2. /\ Tip \in Int /\ Behind <= Tip
        /\ \A j \in Behind + 1 .. Tip : j \in Ids /\ delivered[j] = 1
    BY TipFacts
  <2>3. Behind' = Behind
    BY <1>3 DEF Behind
  <2>4. n \in Nat /\ Size \in Nat
    BY SizeAssumption
  <2> QED BY <1>3, <1>4, <2>1, <2>2, <2>3, <2>4
<1>6. InOrder' /\ Tip' = Tip + n
  <2> DEFINE a == Tip + 1
  <2>1. a \in Int /\ Tip < a /\ \A k \in 1 .. Len(w) : w[k] = a + k - 1
    BY <1>1, <1>2, <1>5
  <2> HIDE DEF a
  <2>2. /\ InOrder'
        /\ Tip' = IF Len(w) = 0 THEN Tip ELSE a + Len(w) - 1
    BY <1>2, <2>1, AppendBlock
  <2> QED BY <1>2, <1>5, <2>2 DEF a
<1>7. LapTip'
  <2>1. CASE n > 0
    <3>1. ASSUME NEW j \in Behind + 1 .. Behind + n PROVE j \in Ids /\ delivered'[j] = 1
      <4>1. j \in Ids /\ (j = id \/ slot[j - Lap] = j)
        BY <1>1
      <4>2. CASE j = id
        BY <1>4, <4>1, <4>2
      <4>3. CASE j # id
        <5>1. j - Lap \in Slots /\ slot[j - Lap] # Empty
          BY <4>1, <4>3, LapPlace, IdsAssumption DEF Empty
        <5> QED BY <1>4, <4>1, <4>3, <5>1 DEF LapInv, WindowInv, WindowSlots
      <4> QED BY <4>2, <4>3
    <3>2. slot'[Behind + 1 - Lap] = Empty
      <4>1. Behind + 1 \in Ids /\ Behind + 1 \in Behind + 1 .. Behind + n
        BY <1>1, <1>5, <2>1
      <4>2. Behind + 1 - Lap \in Slots /\ (Behind + 1 - Lap) + Lap = Behind + 1
        BY <1>5, <4>1, LapPlace
      <4> QED BY <1>1, <4>1, <4>2
    <3>3. Tip' = Behind + n /\ Behind < Behind + n
      BY <1>1, <1>5, <1>6, <2>1
    <3> QED BY <1>5, <3>1, <3>2, <3>3 DEF LapTip
  <2>2. CASE n = 0
    <3> SUFFICES ASSUME Behind # Tip
                 PROVE  /\ \A j \in Behind + 1 .. Tip : j \in Ids /\ delivered'[j] = 1
                        /\ slot'[Behind + 1 - Lap] = Empty
      BY <1>5, <1>6, <2>2 DEF LapTip
    <3>1. Behind + 1 \in Ids /\ delivered[Behind + 1] = 1
      BY <1>5
    <3>2. Behind + 1 - Lap \in Slots /\ Behind + 1 - Lap # id - Lap
      BY <1>4, <1>5, <3>1, LapPlace
    <3>3. slot[Behind + 1 - Lap] = Empty
      BY DEF LapInv, LapTip
    <3>4. slot'[Behind + 1 - Lap] = Empty
      BY <1>1, <3>2, <3>3
    <3> QED BY <1>4, <1>5, <3>4
  <2> QED BY <1>5, <2>1, <2>2
<1>8. Size > 1 => slot'[0] = Empty
  <2> SUFFICES ASSUME Size > 1 PROVE slot'[0] = Empty
    OBVIOUS
  <2>1. 0 \in Slots /\ slot[0] = Empty
    BY <1>5 DEF LapInv, Slots
  <2>2. 0 = id - Lap => 0 + Lap \in Behind + 1 .. Behind + n
    BY <1>1, <1>4, <1>5
  <2> QED BY <1>1, <2>1, <2>2
<1> QED BY <1>6, <1>7, <1>8 DEF LapInv

(* LapInv is inductive. *)
LEMMA LapStep ==
    ASSUME OneLap, MaxCopies = 1
    PROVE  LapInv /\ [Next]_vars => LapInv'
<1> SUFFICES ASSUME LapInv, [Next]_vars PROVE LapInv'
  OBVIOUS
<1>1. WindowInv'
  BY LapIsWindow, WindowStep DEF LapInv
<1>2. CASE UNCHANGED <<slot, playedChunk, played>> /\ (\A x \in Ids : delivered[x] = 1 => delivered'[x] = 1)
  BY <1>1, <1>2 DEF LapInv, LapTip, Tip, Behind, InOrder
<1>3. ASSUME NEW id \in Ids, Deliver(id) PROVE LapInv'
  <2>1. Arrives(id) /\ ~ Collide(id)
    BY <1>3, LapIsWindow, WindowArrival DEF Deliver, TooOld, PlayNow, Store, Collide, LapInv
  <2>2. \A x \in Ids : delivered[x] = 1 => delivered'[x] = 1
    BY <2>1, LapIsWindow, WindowArrival DEF LapInv
  <2>3. CASE TooOld(id)
    BY <1>2, <2>2, <2>3 DEF TooOld
  <2> QED BY <1>1, <1>3, <2>1, <2>3, LapPlayNow, LapStore DEF Deliver
<1>4. ASSUME NEW id \in Ids, SetFirstChunk(id) PROVE LapInv'
  BY <1>2, <1>4 DEF SetFirstChunk
<1>5. CASE UNCHANGED vars
  BY <1>2, <1>5 DEF vars
<1> QED BY <1>3, <1>4, <1>5 DEF Next

(* LapInv holds of an empty buffer. *)
LEMMA LapInit == Init => LapInv
<1> SUFFICES ASSUME Init PROVE LapInv
  OBVIOUS
<1>1. WindowInv
  BY WindowInit
<1>2. Behind = Tip /\ InOrder
  BY EmptySeq DEF Init, Tip, Behind, InOrder
<1>3. Size > 1 => slot[0] = Empty
  BY SizeAssumption DEF Init, Slots
<1> QED BY <1>1, <1>2, <1>3 DEF LapInv, LapTip

(* Within one lap and without duplicates, wherever the stream was joined,  *)
(* whatever order the chunks arrive in, wherever the missing return value  *)
(* cuts flushes off and whenever the first chunk is chosen: the invariant, *)
(* hence the order.                                                        *)
THEOREM LapInvariant ==
    ASSUME OneLap, MaxCopies = 1
    PROVE  Spec => []LapInv
BY LapInit, LapStep, PTL DEF Spec

(* The plugin gets the chunks in strictly increasing order. *)
THEOREM ChunksInOrder ==
    ASSUME OneLap, MaxCopies = 1
    PROVE  Spec => []InOrder
<1>1. LapInv => InOrder
  BY DEF LapInv
<1> QED BY <1>1, LapInvariant, PTL

-----------------------------------------------------------------------------
(* Refinement. *)

(* A call of output_ffmpeg_deliver is an arrival of Playout. *)
LEMMA AbstractArrive ==
    ASSUME OneLap, MaxCopies = 1, LapInv, LapInv', NEW id \in Ids, Deliver(id)
    PROVE  Abstract!Arrive(id)
<1> DEFINE arrived == {x \in Ids : delivered[x] > 0}
<1>1. Arrives(id) /\ ~ Collide(id)
  BY LapIsWindow, WindowArrival DEF Deliver, TooOld, PlayNow, Store, Collide, LapInv
<1>2. delivered[id] = 0 /\ delivered' = [delivered EXCEPT ![id] = 1]
  BY <1>1, LapIsWindow, WindowArrival DEF LapInv
<1>3. id \notin arrived /\ arrived' = arrived \cup {id}
  BY <1>2 DEF LapInv, WindowInv, TypeOK
<1>4. \A k \in 1 .. Len(played') : played'[k] \in arrived'
  BY ElementOfSeq DEF LapInv, WindowInv, Written, TypeOK
<1>5. Abstract!Increasing(played')
  BY DEF LapInv, InOrder, Abstract!Increasing
<1>6. Abstract!Extends(played, played')
  <2>1. Len(played) \in Nat /\ played \in Seq(Ids)
    BY LenProperties DEF LapInv, WindowInv, TypeOK
  <2>2. \E w \in Seq(Ids) : played' = played \o w
    <3>1. CASE TooOld(id)
      BY <2>1, <3>1, EmptySeq, ConcatEmptySeq DEF TooOld
    <3>2. CASE PlayNow(id)
      <4>1. <<id>> \in Seq(Ids)
        OBVIOUS
      <4>2. played' = played \o <<id>>
        BY <2>1, <3>2 DEF PlayNow
      <4> QED BY <4>1, <4>2
    <3>3. CASE Store(id)
      BY <3>3, LapStoreWrites
    <3> QED BY <1>1, <3>1, <3>2, <3>3 DEF Deliver
  <2>3. PICK w \in Seq(Ids) : played' = played \o w
    BY <2>2
  <2>4. Len(w) \in Nat
    BY LenProperties
  <2> QED BY <2>1, <2>3, <2>4, ConcatProperties DEF Abstract!Extends
<1> QED BY <1>3, <1>4, <1>5, <1>6 DEF Abstract!Arrive

(* Within one lap and without duplicates the buffer does what module       *)
(* Playout promises the player.                                            *)
THEOREM BufferImplementsPlayout ==
    ASSUME OneLap, MaxCopies = 1
    PROVE  Spec => ImplementsPlayout
<1>1. Init => Abstract!Init
  <2> SUFFICES ASSUME Init PROVE {x \in Ids : delivered[x] > 0} = {} /\ played = <<>>
    BY DEF Abstract!Init
  <2> QED BY DEF Init
<1>2. LapInv /\ LapInv' /\ [Next]_vars => 
          [Abstract!Next]_<<{id \in Ids : delivered[id] > 0}, played>>
  <2> SUFFICES ASSUME LapInv, LapInv', [Next]_vars
               PROVE  Abstract!Next \/ UNCHANGED <<{x \in Ids : delivered[x] > 0}, played>>
    OBVIOUS
  <2>1. CASE UNCHANGED vars
    BY <2>1 DEF vars
  <2>2. ASSUME NEW id \in Ids, Deliver(id) PROVE Abstract!Next
    BY <2>2, AbstractArrive DEF Abstract!Next
  <2>3. ASSUME NEW id \in Ids, SetFirstChunk(id)
        PROVE  UNCHANGED <<{x \in Ids : delivered[x] > 0}, played>>
    BY <2>3 DEF SetFirstChunk
  <2> QED BY <2>1, <2>2, <2>3 DEF Next
<1> QED BY <1>1, <1>2, LapInvariant, PTL DEF Spec, ImplementsPlayout, Abstract!Spec
===============================================================================
