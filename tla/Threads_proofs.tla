---------------------------- MODULE Threads_proofs ----------------------------
(***************************************************************************)
(* Theorems about module Threads for every room in the ring, every number  *)
(* of chunks a message may write into it and every number of messages.     *)
(*                                                                         *)
(* The invariant is about what a thread still has to do: its operations,   *)
(* run from the mutexes it holds, take the mutexes in one order, access    *)
(* shared data only under a guard, and leave it with no mutex.             *)
(***************************************************************************)
EXTENDS Threads, SequenceTheorems, TLAPS

-----------------------------------------------------------------------------
(* Legal runs of operations. *)

(* The order in which nested mutexes are taken. *)
Rank(m) == CASE m = "topology" -> 1 [] m = "chunkBuffer" -> 2 [] m = "peerChunk" -> 3

(* The mutexes a thread holds after an operation, if it held S before. *)
Do(op, S) == (S \cup {m \in Mutex : op = Lock(m)}) \ {m \in Mutex : op = Unlock(m)}

(* A thread t that holds S may do op.  The chunk buffer is written by the  *)
(* receive thread under its mutex and read under it or by that thread.     *)
Ordered(op, S) ==
    /\ \A m \in Mutex : op = Lock(m) => \A n \in S : Rank(n) < Rank(m)
    /\ \A m \in Mutex : op = Unlock(m) => m \in S
Guarded(t, op, S) ==
    /\ op \in {Reads("sampler"), Writes("sampler")} => "topology" \in S
    /\ op \in {Reads("peerChunks"), Writes("peerChunks")} => "peerChunk" \in S
    /\ op = Writes("chunks") => t = "recv" /\ "chunkBuffer" \in S
    /\ op = Reads("chunks") => t = "recv" \/ "chunkBuffer" \in S
    /\ op \in {Reads("firstChunk"), Writes("firstChunk"),
               Reads("idSet"), Writes("idSet")} => t = "recv"
    /\ op \in {Reads("transId"), Writes("transId")} => t = "offer"
Legal(t, op, S) ==
    /\ op \in Op
    /\ Ordered(op, S)
    /\ Guarded(t, op, S)
    /\ op \in {Check, Receive} => S = {}
    /\ op = Receive => t = "recv"

(* h: the mutexes held before each operation of w, and after the last. *)
RunsWith(h, t, w, S, E) ==
    /\ h \in [1 .. Len(w) + 1 -> SUBSET Mutex]
    /\ h[1] = S /\ h[Len(w) + 1] = E
    /\ \A k \in 1 .. Len(w) : Legal(t, w[k], h[k]) /\ h[k + 1] = Do(w[k], h[k])

Runs(t, w, S, E) == w \in Seq(Op) /\ \E h : RunsWith(h, t, w, S, E)

-----------------------------------------------------------------------------
(* Operations are told apart by their kind and what they are about. *)
LEMMA OpFacts ==
    /\ \A m, n \in Mutex : Lock(m) = Lock(n) => m = n
    /\ \A m, n \in Mutex : Unlock(m) = Unlock(n) => m = n
    /\ \A m, n \in Mutex : Lock(m) # Unlock(n)
    /\ \A m \in Mutex, d \in Data :
          /\ Lock(m) # Reads(d) /\ Lock(m) # Writes(d)
          /\ Unlock(m) # Reads(d) /\ Unlock(m) # Writes(d)
    /\ \A m \in Mutex : /\ Lock(m) \notin {Check, Receive, Put}
                        /\ Unlock(m) \notin {Check, Receive, Put}
    /\ \A c, d \in Data : /\ Reads(c) = Reads(d) => c = d
                          /\ Writes(c) = Writes(d) => c = d
                          /\ Reads(c) # Writes(d)
    /\ \A d \in Data : /\ Reads(d) \notin {Check, Receive, Put}
                       /\ Writes(d) \notin {Check, Receive, Put}
    /\ Check # Receive /\ Check # Put /\ Receive # Put
BY DEF Lock, Unlock, Reads, Writes, Check, Receive, Put

(* What each kind of operation does to the mutexes held. *)
LEMMA DoFacts ==
    ASSUME NEW S \in SUBSET Mutex
    PROVE  /\ \A m \in Mutex : Do(Lock(m), S) = S \cup {m}
           /\ \A m \in Mutex : Do(Unlock(m), S) = S \ {m}
           /\ \A d \in Data : Do(Reads(d), S) = S /\ Do(Writes(d), S) = S
           /\ Do(Check, S) = S /\ Do(Receive, S) = S /\ Do(Put, S) = S
BY OpFacts DEF Do

(* No operation: nothing changes. *)
LEMMA RunsNothing ==
    ASSUME NEW t, NEW S \in SUBSET Mutex
    PROVE  Runs(t, <<>>, S, S)
<1>1. RunsWith([k \in 1 .. 1 |-> S], t, <<>>, S, S)
  BY DEF RunsWith
<1> QED BY <1>1 DEF Runs

(* One legal operation. *)
LEMMA RunsOne ==
    ASSUME NEW t, NEW op, NEW S \in SUBSET Mutex, Legal(t, op, S)
    PROVE  Runs(t, <<op>>, S, Do(op, S))
<1> DEFINE h == [k \in 1 .. 2 |-> IF k = 1 THEN S ELSE Do(op, S)]
<1>1. op \in Op
  BY DEF Legal
<1>2. Do(op, S) \in SUBSET Mutex
  BY DEF Do
<1>3. h \in [1 .. 2 -> SUBSET Mutex] /\ h[1] = S /\ h[2] = Do(op, S)
  BY <1>2
<1>4. Len(<<op>>) = 1 /\ <<op>>[1] = op /\ <<op>> \in Seq(Op)
  BY <1>1
<1> HIDE DEF h
<1>5. RunsWith(h, t, <<op>>, S, Do(op, S))
  BY <1>3, <1>4 DEF RunsWith
<1> QED BY <1>4, <1>5 DEF Runs

(* One run after the other. *)
LEMMA RunsBoth ==
    ASSUME NEW t, NEW v, NEW w, NEW S, NEW E, NEW F,
           Runs(t, v, S, E), Runs(t, w, E, F)
    PROVE  Runs(t, v \o w, S, F)
<1>1. v \in Seq(Op) /\ w \in Seq(Op)
  BY DEF Runs
<1>2. PICK h : RunsWith(h, t, v, S, E)
  BY DEF Runs
<1>3. PICK g : RunsWith(g, t, w, E, F)
  BY DEF Runs
<1> DEFINE n == Len(v)
           f == [k \in 1 .. Len(v \o w) + 1 |-> IF k <= n THEN h[k] ELSE g[k - n]]
<1>4. /\ v \o w \in Seq(Op) /\ Len(v \o w) = n + Len(w) /\ n \in Nat /\ Len(w) \in Nat
      /\ \A k \in 1 .. n : (v \o w)[k] = v[k]
      /\ \A k \in n + 1 .. n + Len(w) : (v \o w)[k] = w[k - n]
  BY <1>1
<1>5. /\ h \in [1 .. n + 1 -> SUBSET Mutex] /\ h[1] = S /\ h[n + 1] = E
      /\ g \in [1 .. Len(w) + 1 -> SUBSET Mutex] /\ g[1] = E /\ g[Len(w) + 1] = F
  BY <1>2, <1>3 DEF RunsWith
<1>6. f \in [1 .. Len(v \o w) + 1 -> SUBSET Mutex]
  BY <1>4, <1>5
<1>7. /\ \A k \in 1 .. n + 1 : f[k] = h[k]
      /\ \A k \in n + 1 .. n + Len(w) + 1 : f[k] = g[k - n]
  BY <1>4, <1>5
<1> HIDE DEF f, n
<1>8. f[1] = S /\ f[Len(v \o w) + 1] = F
  BY <1>4, <1>5, <1>7
<1>9. ASSUME NEW k \in 1 .. Len(v \o w)
      PROVE  Legal(t, (v \o w)[k], f[k]) /\ f[k + 1] = Do((v \o w)[k], f[k])
  <2>1. CASE k \in 1 .. n
    <3>1. Legal(t, v[k], h[k]) /\ h[k + 1] = Do(v[k], h[k])
      BY <1>2, <2>1 DEF RunsWith, n
    <3>2. f[k] = h[k] /\ f[k + 1] = h[k + 1] /\ (v \o w)[k] = v[k]
      BY <1>4, <1>7, <2>1
    <3> QED BY <3>1, <3>2
  <2>2. CASE k \in n + 1 .. n + Len(w)
    <3>1. k - n \in 1 .. Len(w)
      BY <1>4, <2>2
    <3>2. Legal(t, w[k - n], g[k - n]) /\ g[(k - n) + 1] = Do(w[k - n], g[k - n])
      BY <1>3, <3>1 DEF RunsWith
    <3>3. f[k] = g[k - n] /\ f[k + 1] = g[(k - n) + 1] /\ (v \o w)[k] = w[k - n]
      BY <1>4, <1>7, <2>2
    <3> QED BY <3>2, <3>3
  <2> QED BY <1>4, <2>1, <2>2
<1>10. RunsWith(f, t, v \o w, S, F)
  BY <1>6, <1>8, <1>9 DEF RunsWith
<1> QED BY <1>4, <1>10 DEF Runs

(* A run that has not ended: its first operation is legal, and the others  *)
(* are a run from what it leaves.                                          *)
LEMMA RunsTail ==
    ASSUME NEW t, NEW w, NEW S, NEW E, Runs(t, w, S, E), w # <<>>
    PROVE  /\ Legal(t, Head(w), S)
           /\ Runs(t, Tail(w), Do(Head(w), S), E)
<1>1. w \in Seq(Op) /\ Len(w) \in Nat \ {0}
  BY DEF Runs
<1>2. PICK h : RunsWith(h, t, w, S, E)
  BY DEF Runs
<1>3. /\ Head(w) = w[1] /\ Tail(w) \in Seq(Op) /\ Len(Tail(w)) = Len(w) - 1
      /\ \A k \in 1 .. Len(w) - 1 : Tail(w)[k] = w[k + 1]
  BY <1>1
<1>4. /\ h \in [1 .. Len(w) + 1 -> SUBSET Mutex] /\ h[1] = S /\ h[Len(w) + 1] = E
      /\ \A k \in 1 .. Len(w) : Legal(t, w[k], h[k]) /\ h[k + 1] = Do(w[k], h[k])
  BY <1>2 DEF RunsWith
<1>5. 1 \in 1 .. Len(w)
  BY <1>1
<1>6. Legal(t, Head(w), S) /\ h[2] = Do(Head(w), S)
  BY <1>3, <1>4, <1>5
<1> DEFINE f == [k \in 1 .. Len(Tail(w)) + 1 |-> h[k + 1]]
<1>7. /\ f \in [1 .. Len(Tail(w)) + 1 -> SUBSET Mutex]
      /\ \A k \in 1 .. Len(Tail(w)) + 1 : f[k] = h[k + 1]
  BY <1>1, <1>3, <1>4
<1> HIDE DEF f
<1>8. f[1] = Do(Head(w), S) /\ f[Len(Tail(w)) + 1] = E
  BY <1>1, <1>3, <1>4, <1>6, <1>7
<1>9. ASSUME NEW k \in 1 .. Len(Tail(w))
      PROVE  Legal(t, Tail(w)[k], f[k]) /\ f[k + 1] = Do(Tail(w)[k], f[k])
  <2>1. k + 1 \in 1 .. Len(w)
    BY <1>1, <1>3
  <2>2. Legal(t, w[k + 1], h[k + 1]) /\ h[(k + 1) + 1] = Do(w[k + 1], h[k + 1])
    BY <1>4, <2>1
  <2>3. f[k] = h[k + 1] /\ f[k + 1] = h[(k + 1) + 1] /\ Tail(w)[k] = w[k + 1]
    BY <1>1, <1>3, <1>7
  <2> QED BY <2>2, <2>3
<1>10. RunsWith(f, t, Tail(w), Do(Head(w), S), E)
  BY <1>7, <1>8, <1>9 DEF RunsWith
<1> QED BY <1>3, <1>6, <1>10 DEF Runs

(* A legal operation in front of a run. *)
LEMMA RunsThen ==
    ASSUME NEW t, NEW w \in Seq(Op), w # <<>>, NEW S \in SUBSET Mutex, NEW E,
           Legal(t, Head(w), S), Runs(t, Tail(w), Do(Head(w), S), E)
    PROVE  Runs(t, w, S, E)
<1> DEFINE v == <<Head(w)>> \o Tail(w)
<1>1. /\ Head(w) \in Op /\ Tail(w) \in Seq(Op) /\ Len(Tail(w)) = Len(w) - 1
      /\ Head(w) = w[1] /\ Len(w) \in Nat \ {0}
      /\ \A k \in 1 .. Len(w) - 1 : Tail(w)[k] = w[k + 1]
  OBVIOUS
<1>2. v \in Seq(Op) /\ Len(v) = Len(w)
  BY <1>1
<1>3. ASSUME NEW k \in 1 .. Len(w) PROVE v[k] = w[k]
  <2>1. CASE k = 1
    BY <1>1, <2>1
  <2>2. CASE k # 1
    BY <1>1, <2>2
  <2> QED BY <2>1, <2>2
<1> HIDE DEF v
<1>4. v = w
  BY <1>2, <1>3, SeqEqual
<1>5. Runs(t, <<Head(w)>> \o Tail(w), S, E)
  BY RunsOne, RunsBoth
<1> QED BY <1>4, <1>5 DEF v

(* The same for sequences that are written out: two operations, ... *)
LEMMA Runs2 ==
    ASSUME NEW t, NEW S \in SUBSET Mutex, NEW E,
           NEW a \in Op, NEW b \in Op,
           Legal(t, a, S), Runs(t, <<b>>, Do(a, S), E)
    PROVE  Runs(t, <<a, b>>, S, E)
<1>1. /\ <<a, b>> \in Seq(Op) /\ <<a, b>> # <<>>
      /\ Head(<<a, b>>) = a
      /\ Tail(<<a, b>>) = <<b>>
  OBVIOUS
<1> QED BY <1>1, RunsThen

(* ... three operations. *)
LEMMA Runs3 ==
    ASSUME NEW t, NEW S \in SUBSET Mutex, NEW E,
           NEW a \in Op, NEW b \in Op, NEW c \in Op,
           Legal(t, a, S), Runs(t, <<b, c>>, Do(a, S), E)
    PROVE  Runs(t, <<a, b, c>>, S, E)
<1>1. /\ <<a, b, c>> \in Seq(Op) /\ <<a, b, c>> # <<>>
      /\ Head(<<a, b, c>>) = a
      /\ Tail(<<a, b, c>>) = <<b, c>>
  OBVIOUS
<1> QED BY <1>1, RunsThen

(* ... four operations. *)
LEMMA Runs4 ==
    ASSUME NEW t, NEW S \in SUBSET Mutex, NEW E,
           NEW a \in Op, NEW b \in Op, NEW c \in Op, NEW d \in Op,
           Legal(t, a, S), Runs(t, <<b, c, d>>, Do(a, S), E)
    PROVE  Runs(t, <<a, b, c, d>>, S, E)
<1>1. /\ <<a, b, c, d>> \in Seq(Op) /\ <<a, b, c, d>> # <<>>
      /\ Head(<<a, b, c, d>>) = a
      /\ Tail(<<a, b, c, d>>) = <<b, c, d>>
  OBVIOUS
<1> QED BY <1>1, RunsThen

(* ... five operations. *)
LEMMA Runs5 ==
    ASSUME NEW t, NEW S \in SUBSET Mutex, NEW E,
           NEW a \in Op, NEW b \in Op, NEW c \in Op, NEW d \in Op,
           NEW e \in Op,
           Legal(t, a, S), Runs(t, <<b, c, d, e>>, Do(a, S), E)
    PROVE  Runs(t, <<a, b, c, d, e>>, S, E)
<1>1. /\ <<a, b, c, d, e>> \in Seq(Op) /\ <<a, b, c, d, e>> # <<>>
      /\ Head(<<a, b, c, d, e>>) = a
      /\ Tail(<<a, b, c, d, e>>) = <<b, c, d, e>>
  OBVIOUS
<1> QED BY <1>1, RunsThen

(* ... six operations. *)
LEMMA Runs6 ==
    ASSUME NEW t, NEW S \in SUBSET Mutex, NEW E,
           NEW a \in Op, NEW b \in Op, NEW c \in Op, NEW d \in Op,
           NEW e \in Op, NEW f \in Op,
           Legal(t, a, S), Runs(t, <<b, c, d, e, f>>, Do(a, S), E)
    PROVE  Runs(t, <<a, b, c, d, e, f>>, S, E)
<1>1. /\ <<a, b, c, d, e, f>> \in Seq(Op) /\ <<a, b, c, d, e, f>> # <<>>
      /\ Head(<<a, b, c, d, e, f>>) = a
      /\ Tail(<<a, b, c, d, e, f>>) = <<b, c, d, e, f>>
  OBVIOUS
<1> QED BY <1>1, RunsThen

(* ... seven operations. *)
LEMMA Runs7 ==
    ASSUME NEW t, NEW S \in SUBSET Mutex, NEW E,
           NEW a \in Op, NEW b \in Op, NEW c \in Op, NEW d \in Op,
           NEW e \in Op, NEW f \in Op, NEW g \in Op,
           Legal(t, a, S), Runs(t, <<b, c, d, e, f, g>>, Do(a, S), E)
    PROVE  Runs(t, <<a, b, c, d, e, f, g>>, S, E)
<1>1. /\ <<a, b, c, d, e, f, g>> \in Seq(Op) /\ <<a, b, c, d, e, f, g>> # <<>>
      /\ Head(<<a, b, c, d, e, f, g>>) = a
      /\ Tail(<<a, b, c, d, e, f, g>>) = <<b, c, d, e, f, g>>
  OBVIOUS
<1> QED BY <1>1, RunsThen

(* ... eight operations. *)
LEMMA Runs8 ==
    ASSUME NEW t, NEW S \in SUBSET Mutex, NEW E,
           NEW a \in Op, NEW b \in Op, NEW c \in Op, NEW d \in Op,
           NEW e \in Op, NEW f \in Op, NEW g \in Op, NEW h \in Op,
           Legal(t, a, S), Runs(t, <<b, c, d, e, f, g, h>>, Do(a, S), E)
    PROVE  Runs(t, <<a, b, c, d, e, f, g, h>>, S, E)
<1>1. /\ <<a, b, c, d, e, f, g, h>> \in Seq(Op) /\ <<a, b, c, d, e, f, g, h>> # <<>>
      /\ Head(<<a, b, c, d, e, f, g, h>>) = a
      /\ Tail(<<a, b, c, d, e, f, g, h>>) = <<b, c, d, e, f, g, h>>
  OBVIOUS
<1> QED BY <1>1, RunsThen

(* A lock is legal behind mutexes of lower rank, an unlock of a mutex that *)
(* is held, and an access under its guard.                                 *)
LEMMA LegalFacts ==
    ASSUME NEW t, NEW S \in SUBSET Mutex
    PROVE  /\ \A m \in Mutex : (\A n \in S : Rank(n) < Rank(m)) => Legal(t, Lock(m), S)
           /\ \A m \in S : Legal(t, Unlock(m), S)
           /\ \A d \in Data : Guarded(t, Reads(d), S) => Legal(t, Reads(d), S)
           /\ \A d \in Data : Guarded(t, Writes(d), S) => Legal(t, Writes(d), S)
           /\ Legal(t, Put, S)
           /\ S = {} => Legal(t, Check, S)
           /\ S = {} /\ t = "recv" => Legal(t, Receive, S)
<1> USE OpFacts DEF Legal, Ordered, Op
<1>d. {"sampler", "peerChunks", "chunks", "firstChunk", "idSet", "transId"} \subseteq Data
  BY DEF Data
<1>1. ASSUME NEW m \in Mutex, \A n \in S : Rank(n) < Rank(m)
      PROVE  Legal(t, Lock(m), S)
  <2>1. Guarded(t, Lock(m), S)
    BY <1>d DEF Guarded
  <2> QED BY <1>1, <2>1
<1>2. ASSUME NEW m \in S PROVE Legal(t, Unlock(m), S)
  <2>1. Guarded(t, Unlock(m), S)
    BY <1>d DEF Guarded
  <2> QED BY <2>1
<1>3. ASSUME NEW d \in Data, Guarded(t, Reads(d), S) PROVE Legal(t, Reads(d), S)
  BY <1>3
<1>4. ASSUME NEW d \in Data, Guarded(t, Writes(d), S) PROVE Legal(t, Writes(d), S)
  BY <1>4
<1>5. Guarded(t, Put, S) /\ Guarded(t, Check, S) /\ Guarded(t, Receive, S)
  BY <1>d DEF Guarded
<1> QED BY <1>1, <1>2, <1>3, <1>4, <1>5

(* Which accesses the guards allow. *)
LEMMA GuardFacts ==
    ASSUME NEW t, NEW S
    PROVE  /\ "topology" \in S => Guarded(t, Reads("sampler"), S) /\ Guarded(t, Writes("sampler"), S)
           /\ "peerChunk" \in S => Guarded(t, Writes("peerChunks"), S)
           /\ t = "recv" /\ "chunkBuffer" \in S => Guarded(t, Writes("chunks"), S)
           /\ t = "recv" \/ "chunkBuffer" \in S => Guarded(t, Reads("chunks"), S)
           /\ t = "recv" => /\ Guarded(t, Reads("firstChunk"), S)
                            /\ Guarded(t, Writes("firstChunk"), S)
                            /\ Guarded(t, Reads("idSet"), S)
           /\ t = "offer" => Guarded(t, Writes("transId"), S)
           /\ Guarded(t, Writes("stop"), S)
BY OpFacts DEF Guarded, Data

(* The mutexes and the data structures by name. *)
LEMMA Names ==
    /\ "topology" \in Mutex /\ "chunkBuffer" \in Mutex /\ "peerChunk" \in Mutex
    /\ Rank("topology") = 1 /\ Rank("chunkBuffer") = 2 /\ Rank("peerChunk") = 3
    /\ {"sampler", "chunks", "idSet", "peerChunks", "firstChunk",
        "transId", "stop"} \subseteq Data
    /\ \A m \in Mutex : Lock(m) \in Op /\ Unlock(m) \in Op
    /\ \A d \in Data : Reads(d) \in Op /\ Writes(d) \in Op
    /\ {Check, Receive, Put} \subseteq Op
BY DEF Mutex, Data, Rank, Op

(* An access that its guard allows is legal and changes no mutex. *)
LEMMA AccessStep ==
    ASSUME NEW t, NEW S \in SUBSET Mutex, NEW d \in Data
    PROVE  /\ Guarded(t, Reads(d), S) => Legal(t, Reads(d), S)
           /\ Guarded(t, Writes(d), S) => Legal(t, Writes(d), S)
           /\ Do(Reads(d), S) = S /\ Do(Writes(d), S) = S
BY LegalFacts, DoFacts

(* The locks and unlocks of the program, each from the mutexes held there. *)
LEMMA Nested ==
    ASSUME NEW t
    PROVE  /\ Legal(t, Lock("topology"), {}) /\ Do(Lock("topology"), {}) = {"topology"}
           /\ Legal(t, Unlock("topology"), {"topology"}) /\ Do(Unlock("topology"), {"topology"}) = {}
           /\ Legal(t, Lock("chunkBuffer"), {}) /\ Do(Lock("chunkBuffer"), {}) = {"chunkBuffer"}
           /\ Legal(t, Unlock("chunkBuffer"), {"chunkBuffer"}) /\ Do(Unlock("chunkBuffer"), {"chunkBuffer"}) = {}
           /\ Legal(t, Lock("peerChunk"), {}) /\ Do(Lock("peerChunk"), {}) = {"peerChunk"}
           /\ Legal(t, Unlock("peerChunk"), {"peerChunk"}) /\ Do(Unlock("peerChunk"), {"peerChunk"}) = {}
           /\ Legal(t, Lock("chunkBuffer"), {"topology"}) /\ Do(Lock("chunkBuffer"), {"topology"}) = {"topology", "chunkBuffer"}
           /\ Legal(t, Unlock("chunkBuffer"), {"topology", "chunkBuffer"}) /\ Do(Unlock("chunkBuffer"), {"topology", "chunkBuffer"}) = {"topology"}
           /\ Legal(t, Lock("peerChunk"), {"chunkBuffer"}) /\ Do(Lock("peerChunk"), {"chunkBuffer"}) = {"chunkBuffer", "peerChunk"}
           /\ Legal(t, Unlock("peerChunk"), {"chunkBuffer", "peerChunk"}) /\ Do(Unlock("peerChunk"), {"chunkBuffer", "peerChunk"}) = {"chunkBuffer"}
           /\ Legal(t, Lock("peerChunk"), {"topology", "chunkBuffer"}) /\ Do(Lock("peerChunk"), {"topology", "chunkBuffer"}) = {"topology", "chunkBuffer", "peerChunk"}
           /\ Legal(t, Unlock("peerChunk"), {"topology", "chunkBuffer", "peerChunk"}) /\ Do(Unlock("peerChunk"), {"topology", "chunkBuffer", "peerChunk"}) = {"topology", "chunkBuffer"}
<1>1. Legal(t, Lock("topology"), {}) /\ Do(Lock("topology"), {}) = {"topology"}
  <2>1. {} \in SUBSET Mutex /\ \A n \in {} : Rank(n) < Rank("topology")
    BY Names
  <2>2. {} \cup {"topology"} = {"topology"}
    OBVIOUS
  <2> QED BY <2>1, <2>2, Names, LegalFacts, DoFacts, Zenon
<1>2. Legal(t, Unlock("topology"), {"topology"}) /\ Do(Unlock("topology"), {"topology"}) = {}
  <2>1. {"topology"} \in SUBSET Mutex /\ "topology" \in {"topology"}
    BY Names
  <2>2. {"topology"} \ {"topology"} = {}
    OBVIOUS
  <2>3. Legal(t, Unlock("topology"), {"topology"})
    BY <2>1, LegalFacts, Zenon
  <2>4. Do(Unlock("topology"), {"topology"}) = {"topology"} \ {"topology"}
    BY <2>1, Names, DoFacts, Zenon
  <2> QED BY <2>2, <2>3, <2>4, Zenon
<1>3. Legal(t, Lock("chunkBuffer"), {}) /\ Do(Lock("chunkBuffer"), {}) = {"chunkBuffer"}
  <2>1. {} \in SUBSET Mutex /\ \A n \in {} : Rank(n) < Rank("chunkBuffer")
    BY Names
  <2>2. {} \cup {"chunkBuffer"} = {"chunkBuffer"}
    OBVIOUS
  <2> QED BY <2>1, <2>2, Names, LegalFacts, DoFacts, Zenon
<1>4. Legal(t, Unlock("chunkBuffer"), {"chunkBuffer"}) /\ Do(Unlock("chunkBuffer"), {"chunkBuffer"}) = {}
  <2>1. {"chunkBuffer"} \in SUBSET Mutex /\ "chunkBuffer" \in {"chunkBuffer"}
    BY Names
  <2>2. {"chunkBuffer"} \ {"chunkBuffer"} = {}
    OBVIOUS
  <2>3. Legal(t, Unlock("chunkBuffer"), {"chunkBuffer"})
    BY <2>1, LegalFacts, Zenon
  <2>4. Do(Unlock("chunkBuffer"), {"chunkBuffer"}) = {"chunkBuffer"} \ {"chunkBuffer"}
    BY <2>1, Names, DoFacts, Zenon
  <2> QED BY <2>2, <2>3, <2>4, Zenon
<1>5. Legal(t, Lock("peerChunk"), {}) /\ Do(Lock("peerChunk"), {}) = {"peerChunk"}
  <2>1. {} \in SUBSET Mutex /\ \A n \in {} : Rank(n) < Rank("peerChunk")
    BY Names
  <2>2. {} \cup {"peerChunk"} = {"peerChunk"}
    OBVIOUS
  <2> QED BY <2>1, <2>2, Names, LegalFacts, DoFacts, Zenon
<1>6. Legal(t, Unlock("peerChunk"), {"peerChunk"}) /\ Do(Unlock("peerChunk"), {"peerChunk"}) = {}
  <2>1. {"peerChunk"} \in SUBSET Mutex /\ "peerChunk" \in {"peerChunk"}
    BY Names
  <2>2. {"peerChunk"} \ {"peerChunk"} = {}
    OBVIOUS
  <2>3. Legal(t, Unlock("peerChunk"), {"peerChunk"})
    BY <2>1, LegalFacts, Zenon
  <2>4. Do(Unlock("peerChunk"), {"peerChunk"}) = {"peerChunk"} \ {"peerChunk"}
    BY <2>1, Names, DoFacts, Zenon
  <2> QED BY <2>2, <2>3, <2>4, Zenon
<1>7. Legal(t, Lock("chunkBuffer"), {"topology"}) /\ Do(Lock("chunkBuffer"), {"topology"}) = {"topology", "chunkBuffer"}
  <2>1. {"topology"} \in SUBSET Mutex /\ \A n \in {"topology"} : Rank(n) < Rank("chunkBuffer")
    BY Names
  <2>2. {"topology"} \cup {"chunkBuffer"} = {"topology", "chunkBuffer"}
    OBVIOUS
  <2> QED BY <2>1, <2>2, Names, LegalFacts, DoFacts, Zenon
<1>8. Legal(t, Unlock("chunkBuffer"), {"topology", "chunkBuffer"}) /\ Do(Unlock("chunkBuffer"), {"topology", "chunkBuffer"}) = {"topology"}
  <2>1. {"topology", "chunkBuffer"} \in SUBSET Mutex /\ "chunkBuffer" \in {"topology", "chunkBuffer"}
    BY Names
  <2>2. {"topology", "chunkBuffer"} \ {"chunkBuffer"} = {"topology"}
    OBVIOUS
  <2>3. Legal(t, Unlock("chunkBuffer"), {"topology", "chunkBuffer"})
    BY <2>1, LegalFacts, Zenon
  <2>4. Do(Unlock("chunkBuffer"), {"topology", "chunkBuffer"}) = {"topology", "chunkBuffer"} \ {"chunkBuffer"}
    BY <2>1, Names, DoFacts, Zenon
  <2> QED BY <2>2, <2>3, <2>4, Zenon
<1>9. Legal(t, Lock("peerChunk"), {"chunkBuffer"}) /\ Do(Lock("peerChunk"), {"chunkBuffer"}) = {"chunkBuffer", "peerChunk"}
  <2>1. {"chunkBuffer"} \in SUBSET Mutex /\ \A n \in {"chunkBuffer"} : Rank(n) < Rank("peerChunk")
    BY Names
  <2>2. {"chunkBuffer"} \cup {"peerChunk"} = {"chunkBuffer", "peerChunk"}
    OBVIOUS
  <2> QED BY <2>1, <2>2, Names, LegalFacts, DoFacts, Zenon
<1>10. Legal(t, Unlock("peerChunk"), {"chunkBuffer", "peerChunk"}) /\ Do(Unlock("peerChunk"), {"chunkBuffer", "peerChunk"}) = {"chunkBuffer"}
  <2>1. {"chunkBuffer", "peerChunk"} \in SUBSET Mutex /\ "peerChunk" \in {"chunkBuffer", "peerChunk"}
    BY Names
  <2>2. {"chunkBuffer", "peerChunk"} \ {"peerChunk"} = {"chunkBuffer"}
    OBVIOUS
  <2>3. Legal(t, Unlock("peerChunk"), {"chunkBuffer", "peerChunk"})
    BY <2>1, LegalFacts, Zenon
  <2>4. Do(Unlock("peerChunk"), {"chunkBuffer", "peerChunk"}) = {"chunkBuffer", "peerChunk"} \ {"peerChunk"}
    BY <2>1, Names, DoFacts, Zenon
  <2> QED BY <2>2, <2>3, <2>4, Zenon
<1>11. Legal(t, Lock("peerChunk"), {"topology", "chunkBuffer"}) /\ Do(Lock("peerChunk"), {"topology", "chunkBuffer"}) = {"topology", "chunkBuffer", "peerChunk"}
  <2>1. {"topology", "chunkBuffer"} \in SUBSET Mutex /\ \A n \in {"topology", "chunkBuffer"} : Rank(n) < Rank("peerChunk")
    BY Names
  <2>2. {"topology", "chunkBuffer"} \cup {"peerChunk"} = {"topology", "chunkBuffer", "peerChunk"}
    OBVIOUS
  <2> QED BY <2>1, <2>2, Names, LegalFacts, DoFacts, Zenon
<1>12. Legal(t, Unlock("peerChunk"), {"topology", "chunkBuffer", "peerChunk"}) /\ Do(Unlock("peerChunk"), {"topology", "chunkBuffer", "peerChunk"}) = {"topology", "chunkBuffer"}
  <2>1. {"topology", "chunkBuffer", "peerChunk"} \in SUBSET Mutex /\ "peerChunk" \in {"topology", "chunkBuffer", "peerChunk"}
    BY Names
  <2>2. {"topology", "chunkBuffer", "peerChunk"} \ {"peerChunk"} = {"topology", "chunkBuffer"}
    OBVIOUS
  <2>3. Legal(t, Unlock("peerChunk"), {"topology", "chunkBuffer", "peerChunk"})
    BY <2>1, LegalFacts, Zenon
  <2>4. Do(Unlock("peerChunk"), {"topology", "chunkBuffer", "peerChunk"}) = {"topology", "chunkBuffer", "peerChunk"} \ {"peerChunk"}
    BY <2>1, Names, DoFacts, Zenon
  <2> QED BY <2>2, <2>3, <2>4, Zenon
<1> QED BY <1>1, <1>2, <1>3, <1>4, <1>5, <1>6, <1>7, <1>8, <1>9, <1>10, <1>11, <1>12

-----------------------------------------------------------------------------
(* Every handler and every round of a loop is a legal run from no mutex to *)
(* no mutex.                                                               *)

(* A topology message. *)
LEMMA RunsTopologyMessage ==
    Runs("recv", TopologyMessage, {}, {})
<1> DEFINE a == Lock("topology")
           b == Writes("sampler")
           c == Unlock("topology")
           S0 == {}
           S1 == {"topology"}
<1>1. Legal("recv", a, S0) /\ Do(a, S0) = S1
  BY Nested
<1>2. Legal("recv", b, S1) /\ Do(b, S1) = S1
  BY GuardFacts, Names, AccessStep
<1>3. Legal("recv", c, S1) /\ Do(c, S1) = S0
  BY Nested
<1>4. S0 \in SUBSET Mutex /\ S1 \in SUBSET Mutex
  BY Names
<1> HIDE DEF a, b, c, S0, S1
<1>5. {a, b, c} \subseteq Op
  BY <1>1, <1>2, <1>3 DEF Legal
<1>6. Runs("recv", <<c>>, S1, S0)
  BY <1>3, <1>4, <1>5, RunsOne
<1>7. Runs("recv", <<b, c>>, S1, S0)
  BY <1>2, <1>4, <1>5, <1>6, Runs2
<1>8. Runs("recv", <<a, b, c>>, S0, S0)
  BY <1>1, <1>4, <1>5, <1>7, Runs3
<1> QED BY <1>8 DEF TopologyMessage, a, b, c, S0, S1

(* Accept and deliver: the chunk buffer is read without its mutex. *)
LEMMA RunsAcceptMessage ==
    Runs("recv", AcceptMessage, {}, {})
<1> DEFINE a == Lock("peerChunk")
           b == Reads("chunks")
           c == Writes("peerChunks")
           d == Unlock("peerChunk")
           S0 == {}
           S1 == {"peerChunk"}
<1>1. Legal("recv", a, S0) /\ Do(a, S0) = S1
  BY Nested
<1>2. Legal("recv", b, S1) /\ Do(b, S1) = S1
  BY GuardFacts, Names, AccessStep
<1>3. Legal("recv", c, S1) /\ Do(c, S1) = S1
  BY GuardFacts, Names, AccessStep
<1>4. Legal("recv", d, S1) /\ Do(d, S1) = S0
  BY Nested
<1>5. S0 \in SUBSET Mutex /\ S1 \in SUBSET Mutex
  BY Names
<1> HIDE DEF a, b, c, d, S0, S1
<1>6. {a, b, c, d} \subseteq Op
  BY <1>1, <1>2, <1>3, <1>4 DEF Legal
<1>7. Runs("recv", <<d>>, S1, S0)
  BY <1>4, <1>5, <1>6, RunsOne
<1>8. Runs("recv", <<c, d>>, S1, S0)
  BY <1>3, <1>5, <1>6, <1>7, Runs2
<1>9. Runs("recv", <<b, c, d>>, S1, S0)
  BY <1>2, <1>5, <1>6, <1>8, Runs3
<1>10. Runs("recv", <<a, b, c, d>>, S0, S0)
  BY <1>1, <1>5, <1>6, <1>9, Runs4
<1> QED BY <1>10 DEF AcceptMessage, a, b, c, d, S0, S1

(* An offer. *)
LEMMA RunsOfferMessage ==
    Runs("recv", OfferMessage, {}, {})
<1> DEFINE a == Lock("chunkBuffer")
           b == Reads("chunks")
           c == Writes("firstChunk")
           d == Unlock("chunkBuffer")
           S0 == {}
           S1 == {"chunkBuffer"}
<1>1. Legal("recv", a, S0) /\ Do(a, S0) = S1
  BY Nested
<1>2. Legal("recv", b, S1) /\ Do(b, S1) = S1
  BY GuardFacts, Names, AccessStep
<1>3. Legal("recv", c, S1) /\ Do(c, S1) = S1
  BY GuardFacts, Names, AccessStep
<1>4. Legal("recv", d, S1) /\ Do(d, S1) = S0
  BY Nested
<1>5. S0 \in SUBSET Mutex /\ S1 \in SUBSET Mutex
  BY Names
<1> HIDE DEF a, b, c, d, S0, S1
<1>6. {a, b, c, d} \subseteq Op
  BY <1>1, <1>2, <1>3, <1>4 DEF Legal
<1>7. Runs("recv", <<d>>, S1, S0)
  BY <1>4, <1>5, <1>6, RunsOne
<1>8. Runs("recv", <<c, d>>, S1, S0)
  BY <1>3, <1>5, <1>6, <1>7, Runs2
<1>9. Runs("recv", <<b, c, d>>, S1, S0)
  BY <1>2, <1>5, <1>6, <1>8, Runs3
<1>10. Runs("recv", <<a, b, c, d>>, S0, S0)
  BY <1>1, <1>5, <1>6, <1>9, Runs4
<1> QED BY <1>10 DEF OfferMessage, a, b, c, d, S0, S1

(* A request: two mutexes, nested. *)
LEMMA RunsRequestMessage ==
    Runs("recv", RequestMessage, {}, {})
<1> DEFINE a == Reads("idSet")
           b == Lock("chunkBuffer")
           c == Lock("peerChunk")
           d == Reads("chunks")
           e == Writes("peerChunks")
           f == Unlock("peerChunk")
           g == Unlock("chunkBuffer")
           S0 == {}
           S1 == {"chunkBuffer"}
           S2 == {"chunkBuffer", "peerChunk"}
<1>1. Legal("recv", a, S0) /\ Do(a, S0) = S0
  BY GuardFacts, Names, AccessStep
<1>2. Legal("recv", b, S0) /\ Do(b, S0) = S1
  BY Nested
<1>3. Legal("recv", c, S1) /\ Do(c, S1) = S2
  BY Nested
<1>4. Legal("recv", d, S2) /\ Do(d, S2) = S2
  BY GuardFacts, Names, AccessStep
<1>5. Legal("recv", e, S2) /\ Do(e, S2) = S2
  BY GuardFacts, Names, AccessStep
<1>6. Legal("recv", f, S2) /\ Do(f, S2) = S1
  BY Nested
<1>7. Legal("recv", g, S1) /\ Do(g, S1) = S0
  BY Nested
<1>8. S0 \in SUBSET Mutex /\ S1 \in SUBSET Mutex /\ S2 \in SUBSET Mutex
  BY Names
<1> HIDE DEF a, b, c, d, e, f, g, S0, S1, S2
<1>9. {a, b, c, d, e, f, g} \subseteq Op
  BY <1>1, <1>2, <1>3, <1>4, <1>5, <1>6, <1>7 DEF Legal
<1>10. Runs("recv", <<g>>, S1, S0)
  BY <1>7, <1>8, <1>9, RunsOne
<1>11. Runs("recv", <<f, g>>, S2, S0)
  BY <1>6, <1>8, <1>9, <1>10, Runs2
<1>12. Runs("recv", <<e, f, g>>, S2, S0)
  BY <1>5, <1>8, <1>9, <1>11, Runs3
<1>13. Runs("recv", <<d, e, f, g>>, S2, S0)
  BY <1>4, <1>8, <1>9, <1>12, Runs4
<1>14. Runs("recv", <<c, d, e, f, g>>, S1, S0)
  BY <1>3, <1>8, <1>9, <1>13, Runs5
<1>15. Runs("recv", <<b, c, d, e, f, g>>, S0, S0)
  BY <1>2, <1>8, <1>9, <1>14, Runs6
<1>16. Runs("recv", <<a, b, c, d, e, f, g>>, S0, S0)
  BY <1>1, <1>8, <1>9, <1>15, Runs7
<1> QED BY <1>16 DEF RequestMessage, a, b, c, d, e, f, g, S0, S1, S2

(* A buffer map. *)
LEMMA RunsBufferMapMessage ==
    Runs("recv", BufferMapMessage, {}, {})
<1> DEFINE a == Lock("chunkBuffer")
           b == Reads("firstChunk")
           c == Unlock("chunkBuffer")
           S0 == {}
           S1 == {"chunkBuffer"}
<1>1. Legal("recv", a, S0) /\ Do(a, S0) = S1
  BY Nested
<1>2. Legal("recv", b, S1) /\ Do(b, S1) = S1
  BY GuardFacts, Names, AccessStep
<1>3. Legal("recv", c, S1) /\ Do(c, S1) = S0
  BY Nested
<1>4. S0 \in SUBSET Mutex /\ S1 \in SUBSET Mutex
  BY Names
<1> HIDE DEF a, b, c, S0, S1
<1>5. {a, b, c} \subseteq Op
  BY <1>1, <1>2, <1>3 DEF Legal
<1>6. Runs("recv", <<c>>, S1, S0)
  BY <1>3, <1>4, <1>5, RunsOne
<1>7. Runs("recv", <<b, c>>, S1, S0)
  BY <1>2, <1>4, <1>5, <1>6, Runs2
<1>8. Runs("recv", <<a, b, c>>, S0, S0)
  BY <1>1, <1>4, <1>5, <1>7, Runs3
<1> QED BY <1>8 DEF BufferMapMessage, a, b, c, S0, S1

(* A request for the buffer map. *)
LEMMA RunsBufferMapRequest ==
    Runs("recv", BufferMapRequest, {}, {})
<1> DEFINE a == Lock("chunkBuffer")
           b == Reads("idSet")
           c == Unlock("chunkBuffer")
           S0 == {}
           S1 == {"chunkBuffer"}
<1>1. Legal("recv", a, S0) /\ Do(a, S0) = S1
  BY Nested
<1>2. Legal("recv", b, S1) /\ Do(b, S1) = S1
  BY GuardFacts, Names, AccessStep
<1>3. Legal("recv", c, S1) /\ Do(c, S1) = S0
  BY Nested
<1>4. S0 \in SUBSET Mutex /\ S1 \in SUBSET Mutex
  BY Names
<1> HIDE DEF a, b, c, S0, S1
<1>5. {a, b, c} \subseteq Op
  BY <1>1, <1>2, <1>3 DEF Legal
<1>6. Runs("recv", <<c>>, S1, S0)
  BY <1>3, <1>4, <1>5, RunsOne
<1>7. Runs("recv", <<b, c>>, S1, S0)
  BY <1>2, <1>4, <1>5, <1>6, Runs2
<1>8. Runs("recv", <<a, b, c>>, S0, S0)
  BY <1>1, <1>4, <1>5, <1>7, Runs3
<1> QED BY <1>8 DEF BufferMapRequest, a, b, c, S0, S1

(* A round of the offer thread: two mutexes, nested. *)
LEMMA RunsOfferChunk ==
    Runs("offer", OfferChunk, {}, {})
<1> DEFINE a == Lock("topology")
           b == Lock("chunkBuffer")
           c == Reads("sampler")
           d == Reads("chunks")
           e == Writes("transId")
           f == Unlock("chunkBuffer")
           g == Unlock("topology")
           S0 == {}
           S1 == {"topology"}
           S2 == {"topology", "chunkBuffer"}
<1>1. Legal("offer", a, S0) /\ Do(a, S0) = S1
  BY Nested
<1>2. Legal("offer", b, S1) /\ Do(b, S1) = S2
  BY Nested
<1>3. Legal("offer", c, S2) /\ Do(c, S2) = S2
  BY GuardFacts, Names, AccessStep
<1>4. Legal("offer", d, S2) /\ Do(d, S2) = S2
  BY GuardFacts, Names, AccessStep
<1>5. Legal("offer", e, S2) /\ Do(e, S2) = S2
  BY GuardFacts, Names, AccessStep
<1>6. Legal("offer", f, S2) /\ Do(f, S2) = S1
  BY Nested
<1>7. Legal("offer", g, S1) /\ Do(g, S1) = S0
  BY Nested
<1>8. S0 \in SUBSET Mutex /\ S1 \in SUBSET Mutex /\ S2 \in SUBSET Mutex
  BY Names
<1> HIDE DEF a, b, c, d, e, f, g, S0, S1, S2
<1>9. {a, b, c, d, e, f, g} \subseteq Op
  BY <1>1, <1>2, <1>3, <1>4, <1>5, <1>6, <1>7 DEF Legal
<1>10. Runs("offer", <<g>>, S1, S0)
  BY <1>7, <1>8, <1>9, RunsOne
<1>11. Runs("offer", <<f, g>>, S2, S0)
  BY <1>6, <1>8, <1>9, <1>10, Runs2
<1>12. Runs("offer", <<e, f, g>>, S2, S0)
  BY <1>5, <1>8, <1>9, <1>11, Runs3
<1>13. Runs("offer", <<d, e, f, g>>, S2, S0)
  BY <1>4, <1>8, <1>9, <1>12, Runs4
<1>14. Runs("offer", <<c, d, e, f, g>>, S2, S0)
  BY <1>3, <1>8, <1>9, <1>13, Runs5
<1>15. Runs("offer", <<b, c, d, e, f, g>>, S1, S0)
  BY <1>2, <1>8, <1>9, <1>14, Runs6
<1>16. Runs("offer", <<a, b, c, d, e, f, g>>, S0, S0)
  BY <1>1, <1>8, <1>9, <1>15, Runs7
<1> QED BY <1>16 DEF OfferChunk, a, b, c, d, e, f, g, S0, S1, S2

(* A round of the send thread: all three mutexes, nested. *)
LEMMA RunsSendChunk ==
    ASSUME NEW t
    PROVE  Runs(t, SendChunk, {}, {})
<1> DEFINE a == Lock("topology")
           b == Lock("chunkBuffer")
           c == Lock("peerChunk")
           d == Reads("chunks")
           e == Writes("peerChunks")
           f == Unlock("peerChunk")
           g == Unlock("chunkBuffer")
           h == Unlock("topology")
           S0 == {}
           S1 == {"topology"}
           S2 == {"topology", "chunkBuffer"}
           S3 == {"topology", "chunkBuffer", "peerChunk"}
<1>1. Legal(t, a, S0) /\ Do(a, S0) = S1
  BY Nested
<1>2. Legal(t, b, S1) /\ Do(b, S1) = S2
  BY Nested
<1>3. Legal(t, c, S2) /\ Do(c, S2) = S3
  BY Nested
<1>4. Legal(t, d, S3) /\ Do(d, S3) = S3
  BY GuardFacts, Names, AccessStep
<1>5. Legal(t, e, S3) /\ Do(e, S3) = S3
  BY GuardFacts, Names, AccessStep
<1>6. Legal(t, f, S3) /\ Do(f, S3) = S2
  BY Nested
<1>7. Legal(t, g, S2) /\ Do(g, S2) = S1
  BY Nested
<1>8. Legal(t, h, S1) /\ Do(h, S1) = S0
  BY Nested
<1>9. S0 \in SUBSET Mutex /\ S1 \in SUBSET Mutex /\ S2 \in SUBSET Mutex /\ S3 \in SUBSET Mutex
  BY Names
<1> HIDE DEF a, b, c, d, e, f, g, h, S0, S1, S2, S3
<1>10. {a, b, c, d, e, f, g, h} \subseteq Op
  BY <1>1, <1>2, <1>3, <1>4, <1>5, <1>6, <1>7, <1>8 DEF Legal
<1>11. Runs(t, <<h>>, S1, S0)
  BY <1>8, <1>9, <1>10, RunsOne
<1>12. Runs(t, <<g, h>>, S2, S0)
  BY <1>7, <1>9, <1>10, <1>11, Runs2
<1>13. Runs(t, <<f, g, h>>, S3, S0)
  BY <1>6, <1>9, <1>10, <1>12, Runs3
<1>14. Runs(t, <<e, f, g, h>>, S3, S0)
  BY <1>5, <1>9, <1>10, <1>13, Runs4
<1>15. Runs(t, <<d, e, f, g, h>>, S3, S0)
  BY <1>4, <1>9, <1>10, <1>14, Runs5
<1>16. Runs(t, <<c, d, e, f, g, h>>, S2, S0)
  BY <1>3, <1>9, <1>10, <1>15, Runs6
<1>17. Runs(t, <<b, c, d, e, f, g, h>>, S1, S0)
  BY <1>2, <1>9, <1>10, <1>16, Runs7
<1>18. Runs(t, <<a, b, c, d, e, f, g, h>>, S0, S0)
  BY <1>1, <1>9, <1>10, <1>17, Runs8
<1> QED BY <1>18 DEF SendChunk, a, b, c, d, e, f, g, h, S0, S1, S2, S3

(* The parts of a round of the topology thread ... *)
LEMMA RunsTopologyStart ==
    ASSUME NEW t
    PROVE  Runs(t, <<Lock("topology"), Writes("sampler")>>, {}, {"topology"})
<1> DEFINE a == Lock("topology")
           b == Writes("sampler")
           S0 == {}
           S1 == {"topology"}
<1>1. Legal(t, a, S0) /\ Do(a, S0) = S1
  BY Nested
<1>2. Legal(t, b, S1) /\ Do(b, S1) = S1
  BY GuardFacts, Names, AccessStep
<1>3. S0 \in SUBSET Mutex /\ S1 \in SUBSET Mutex
  BY Names
<1> HIDE DEF a, b, S0, S1
<1>4. {a, b} \subseteq Op
  BY <1>1, <1>2 DEF Legal
<1>5. Runs(t, <<b>>, S1, S1)
  BY <1>2, <1>3, <1>4, RunsOne
<1>6. Runs(t, <<a, b>>, S0, S1)
  BY <1>1, <1>3, <1>4, <1>5, Runs2
<1> QED BY <1>6 DEF a, b, S0, S1

(* ... and of a chunk message, before the writes to the ring ... *)
LEMMA RunsChunkStart ==
    Runs("recv", <<Lock("chunkBuffer"), Reads("firstChunk")>>, {}, {"chunkBuffer"})
<1> DEFINE a == Lock("chunkBuffer")
           b == Reads("firstChunk")
           S0 == {}
           S1 == {"chunkBuffer"}
<1>1. Legal("recv", a, S0) /\ Do(a, S0) = S1
  BY Nested
<1>2. Legal("recv", b, S1) /\ Do(b, S1) = S1
  BY GuardFacts, Names, AccessStep
<1>3. S0 \in SUBSET Mutex /\ S1 \in SUBSET Mutex
  BY Names
<1> HIDE DEF a, b, S0, S1
<1>4. {a, b} \subseteq Op
  BY <1>1, <1>2 DEF Legal
<1>5. Runs("recv", <<b>>, S1, S1)
  BY <1>2, <1>3, <1>4, RunsOne
<1>6. Runs("recv", <<a, b>>, S0, S1)
  BY <1>1, <1>3, <1>4, <1>5, Runs2
<1> QED BY <1>6 DEF a, b, S0, S1

(* ... and after them. *)
LEMMA RunsChunkEnd ==
    Runs("recv", <<Writes("chunks"), Unlock("chunkBuffer")>>, {"chunkBuffer"}, {})
<1> DEFINE a == Writes("chunks")
           b == Unlock("chunkBuffer")
           S0 == {"chunkBuffer"}
           S1 == {}
<1>1. Legal("recv", a, S0) /\ Do(a, S0) = S0
  BY GuardFacts, Names, AccessStep
<1>2. Legal("recv", b, S0) /\ Do(b, S0) = S1
  BY Nested
<1>3. S0 \in SUBSET Mutex /\ S1 \in SUBSET Mutex
  BY Names
<1> HIDE DEF a, b, S0, S1
<1>4. {a, b} \subseteq Op
  BY <1>1, <1>2 DEF Legal
<1>5. Runs("recv", <<b>>, S0, S1)
  BY <1>2, <1>3, <1>4, RunsOne
<1>6. Runs("recv", <<a, b>>, S0, S1)
  BY <1>1, <1>3, <1>4, <1>5, Runs2
<1> QED BY <1>6 DEF a, b, S0, S1

(* The topology thread, whether it finds neighbours or not. *)
LEMMA RunsSendTopology ==
    ASSUME NEW t, NEW lost \in BOOLEAN
    PROVE  Runs(t, SendTopology(lost), {}, {})
<1> DEFINE told == IF lost THEN <<Writes("stop")>> ELSE <<>>
<1>1. /\ Legal(t, Writes("stop"), {"topology"}) /\ Legal(t, Unlock("topology"), {"topology"})
      /\ Do(Writes("stop"), {"topology"}) = {"topology"}
      /\ Do(Unlock("topology"), {"topology"}) = {}
  BY Nested, AccessStep, GuardFacts, Names
<1>2. Runs(t, told, {"topology"}, {"topology"})
  BY <1>1, RunsOne, RunsNothing, Names
<1>3. Runs(t, <<Unlock("topology")>>, {"topology"}, {})
  BY <1>1, RunsOne, Names
<1> HIDE DEF told
<1>4. Runs(t, <<Lock("topology"), Writes("sampler")>> \o told, {}, {"topology"})
  BY <1>2, RunsTopologyStart, RunsBoth
<1>5. Runs(t, <<Lock("topology"), Writes("sampler")>> \o told \o <<Unlock("topology")>>, {}, {})
  BY <1>3, <1>4, RunsBoth
<1> QED BY <1>5 DEF SendTopology, told

(* A chunk message, however many chunks it writes to the ring. *)
LEMMA RunsChunkMessage ==
    ASSUME NEW n \in Nat
    PROVE  Runs("recv", ChunkMessage(n), {}, {})
<1> DEFINE puts == [k \in 1 .. n |-> Put]
           h == [k \in 1 .. n + 1 |-> {"chunkBuffer"}]
<1>1. puts \in Seq(Op) /\ Len(puts) = n /\ \A k \in 1 .. n : puts[k] = Put
  BY Names
<1>2. /\ Legal("recv", Put, {"chunkBuffer"})
      /\ Do(Put, {"chunkBuffer"}) = {"chunkBuffer"}
  BY LegalFacts, DoFacts, Names
<1>3. /\ h \in [1 .. n + 1 -> SUBSET Mutex]
      /\ \A k \in 1 .. n + 1 : h[k] = {"chunkBuffer"}
  BY Names
<1> HIDE DEF puts, h
<1>4. 1 \in 1 .. n + 1 /\ n + 1 \in 1 .. n + 1
  OBVIOUS
<1>5. ASSUME NEW k \in 1 .. n
      PROVE  Legal("recv", puts[k], h[k]) /\ h[k + 1] = Do(puts[k], h[k])
  <2>1. k \in 1 .. n + 1 /\ k + 1 \in 1 .. n + 1
    OBVIOUS
  <2>2. puts[k] = Put /\ h[k] = {"chunkBuffer"} /\ h[k + 1] = {"chunkBuffer"}
    BY <1>1, <1>3, <2>1
  <2> QED BY <1>2, <2>2, Zenon
<1>6. h[1] = {"chunkBuffer"} /\ h[Len(puts) + 1] = {"chunkBuffer"}
  BY <1>1, <1>3, <1>4
<1>7. h \in [1 .. Len(puts) + 1 -> SUBSET Mutex]
  BY <1>1, <1>3
<1>8. \A k \in 1 .. Len(puts) :
         Legal("recv", puts[k], h[k]) /\ h[k + 1] = Do(puts[k], h[k])
  BY <1>1, <1>5
<1>9. RunsWith(h, "recv", puts, {"chunkBuffer"}, {"chunkBuffer"})
  BY <1>6, <1>7, <1>8, Zenon DEF RunsWith
<1>10. Runs("recv", puts, {"chunkBuffer"}, {"chunkBuffer"})
  BY <1>1, <1>9 DEF Runs
<1>11. Runs("recv", <<Lock("chunkBuffer"), Reads("firstChunk")>> \o puts, {}, {"chunkBuffer"})
  BY <1>10, RunsChunkStart, RunsBoth
<1>12. Runs("recv", <<Lock("chunkBuffer"), Reads("firstChunk")>> \o puts
                      \o <<Writes("chunks"), Unlock("chunkBuffer")>>, {}, {})
  BY <1>11, RunsChunkEnd, RunsBoth
<1> QED BY <1>12 DEF ChunkMessage, puts

(* So is everything the receive thread may do with a message ... *)
LEMMA RunsMessage ==
    ASSUME NEW work \in MessageWork
    PROVE  Runs("recv", work, {}, {})
BY RunsTopologyMessage, RunsAcceptMessage, RunsOfferMessage, RunsRequestMessage,
   RunsBufferMapMessage, RunsBufferMapRequest, RunsNothing, RunsChunkMessage,
   BoundsAssumption DEF MessageWork

(* ... and every round of every thread. *)
LEMMA RunsRound ==
    ASSUME NEW t \in Thread, NEW round \in Round(t)
    PROVE  Runs(t, round, {}, {})
<1>1. Legal("recv", Receive, {}) /\ Do(Receive, {}) = {}
  BY LegalFacts, DoFacts
<1>2. Runs("recv", <<Receive>>, {}, {})
  BY <1>1, RunsOne
<1>3. CASE t = "recv"
  BY <1>2, <1>3 DEF Round
<1>4. CASE t = "topo"
  BY <1>4, RunsSendTopology DEF Round
<1>5. CASE t = "offer"
  BY <1>5, RunsOfferChunk DEF Round
<1>6. CASE t = "send"
  BY <1>6, RunsSendChunk DEF Round
<1> QED BY <1>3, <1>4, <1>5, <1>6 DEF Thread

-----------------------------------------------------------------------------
(* The invariant: what a thread still has to do is a legal run from the    *)
(* mutexes it holds to none.                                               *)
WorkIsLegal == \A t \in Thread : Runs(t, todo[t], Holds(t), {})
Inv == TypeOK /\ WorkIsLegal

(* At the start no thread holds a mutex, and the test is all it has to do. *)
LEMMA InitInv == Init => Inv
<1> SUFFICES ASSUME Init PROVE Inv
  OBVIOUS
<1>1. <<Check>> \in Seq(Op)
  BY Names
<1>2. TypeOK
  <2>1. owner \in [Mutex -> Thread \cup {Free}] /\ stop \in BOOLEAN
    BY DEF Init
  <2>2. ring \in 0 .. RingRoom /\ messages \in 0 .. MaxMessages
    BY RoomAssumption, BoundsAssumption DEF Init
  <2>3. todo \in [Thread -> Seq(Op)]
    BY <1>1 DEF Init
  <2> QED BY <2>1, <2>2, <2>3 DEF TypeOK
<1>3. Free \notin Thread
  BY DEF Free, Thread
<1>4. ASSUME NEW t \in Thread PROVE Runs(t, todo[t], Holds(t), {})
  <2>1. Holds(t) = {} /\ todo[t] = <<Check>>
    BY <1>3 DEF Init, Holds
  <2>2. Legal(t, Check, {}) /\ Do(Check, {}) = {}
    BY LegalFacts, DoFacts
  <2>3. Runs(t, <<Check>>, {}, {})
    BY <2>2, RunsOne
  <2> QED BY <2>1, <2>3
<1> QED BY <1>2, <1>4 DEF Inv, WorkIsLegal

(* What a thread's next operation tells: it is legal, and the rest is a    *)
(* run from what it leaves.                                                *)
LEMMA NowLegal ==
    ASSUME Inv, NEW t \in Thread, NEW op, Now(t, op)
    PROVE  /\ Legal(t, op, Holds(t))
           /\ Runs(t, Tail(todo[t]), Do(op, Holds(t)), {})
<1>1. Runs(t, todo[t], Holds(t), {})
  BY DEF Inv, WorkIsLegal
<1> QED BY <1>1, RunsTail DEF Now

(* Only the thread that takes a step has new work. *)
LEMMA OnlyOneContinues ==
    ASSUME TypeOK, NEW t \in Thread, NEW work, Continue(t, work)
    PROVE  /\ todo'[t] = work \o Tail(todo[t])
           /\ \A u \in Thread \ {t} : todo'[u] = todo[u]
           /\ todo' = [u \in Thread |-> todo'[u]]
BY DEF TypeOK, Continue

(* An operation is done: the run goes on behind it. *)
LEMMA OperationDone ==
    ASSUME Inv, NEW t \in Thread, NEW op, Now(t, op), Continue(t, <<>>),
           Holds(t)' = Do(op, Holds(t)),
           \A u \in Thread \ {t} : Holds(u)' = Holds(u)
    PROVE  WorkIsLegal'
<1>1. Runs(t, Tail(todo[t]), Do(op, Holds(t)), {})
  BY NowLegal
<1>2. Tail(todo[t]) \in Seq(Op)
  BY <1>1 DEF Runs
<1>3. <<>> \o Tail(todo[t]) = Tail(todo[t])
  BY <1>2, ConcatEmptySeq
<1>4. todo'[t] = Tail(todo[t]) /\ \A u \in Thread \ {t} : todo'[u] = todo[u]
  BY <1>3, OnlyOneContinues DEF Inv
<1>5. ASSUME NEW u \in Thread PROVE Runs(u, todo'[u], Holds(u)', {})
  <2>1. CASE u = t
    BY <1>1, <1>4, <2>1
  <2>2. CASE u # t
    <3>1. Runs(u, todo[u], Holds(u), {})
      BY DEF Inv, WorkIsLegal
    <3>2. todo'[u] = todo[u] /\ Holds(u)' = Holds(u)
      BY <1>4, <2>2
    <3> QED BY <3>1, <3>2
  <2> QED BY <2>1, <2>2
<1> QED BY <1>5 DEF WorkIsLegal

(* A test or a receipt puts a round or a handler in front. *)
LEMMA WorkAdded ==
    ASSUME Inv, NEW t \in Thread, NEW op \in {Check, Receive}, Now(t, op),
           NEW work, Runs(t, work, {}, {}), Continue(t, work), UNCHANGED owner
    PROVE  WorkIsLegal'
<1>1. Holds(t) = {} /\ Runs(t, Tail(todo[t]), Do(op, Holds(t)), {})
  BY NowLegal DEF Legal
<1>2. Do(op, {}) = {}
  BY DoFacts
<1>3. Runs(t, work \o Tail(todo[t]), {}, {})
  BY <1>1, <1>2, RunsBoth
<1>4. /\ todo'[t] = work \o Tail(todo[t])
      /\ \A u \in Thread \ {t} : todo'[u] = todo[u]
  BY OnlyOneContinues DEF Inv
<1>5. \A u \in Thread : Holds(u)' = Holds(u)
  BY DEF Holds
<1>6. ASSUME NEW u \in Thread PROVE Runs(u, todo'[u], Holds(u)', {})
  <2>1. CASE u = t
    BY <1>1, <1>3, <1>4, <1>5, <2>1
  <2>2. CASE u # t
    <3>1. Runs(u, todo[u], Holds(u), {})
      BY DEF Inv, WorkIsLegal
    <3>2. todo'[u] = todo[u] /\ Holds(u)' = Holds(u)
      BY <1>4, <1>5, <2>2
    <3> QED BY <3>1, <3>2
  <2> QED BY <2>1, <2>2
<1> QED BY <1>6 DEF WorkIsLegal

(* The types of the work: a run consists of operations. *)
LEMMA WorkTypes ==
    ASSUME TypeOK, NEW t \in Thread, NEW work, Continue(t, work), WorkIsLegal'
    PROVE  todo' \in [Thread -> Seq(Op)]
<1>1. \A u \in Thread : todo'[u] \in Seq(Op)
  BY DEF WorkIsLegal, Runs
<1>2. todo' = [u \in Thread |-> todo'[u]]
  BY OnlyOneContinues
<1> QED BY <1>1, <1>2

(* Every step keeps the invariant. *)
LEMMA NextInv == Inv /\ [Next]_vars => Inv'
<1> SUFFICES ASSUME Inv, [Next]_vars PROVE Inv'
  OBVIOUS
<1>t. TypeOK
  BY DEF Inv
<1>1. ASSUME NEW t \in Thread, TestStop(t) PROVE Inv'
  <2>1. Now(t, Check) /\ UNCHANGED <<owner, stop, ring, messages>>
    BY <1>1 DEF TestStop
  <2>2. PICK work : Continue(t, work) /\ Runs(t, work, {}, {})
    <3>1. CASE stop
      BY <1>1, <3>1, RunsNothing DEF TestStop
    <3>2. CASE ~stop
      <4>1. PICK round \in Round(t) : Continue(t, round \o <<Check>>)
        BY <1>1, <3>2 DEF TestStop
      <4>2. Legal(t, Check, {}) /\ Do(Check, {}) = {}
        BY LegalFacts, DoFacts
      <4>3. Runs(t, <<Check>>, {}, {})
        BY <4>2, RunsOne
      <4>4. Runs(t, round, {}, {})
        BY RunsRound
      <4>5. Runs(t, round \o <<Check>>, {}, {})
        BY <4>3, <4>4, RunsBoth
      <4> QED BY <4>1, <4>5
    <3> QED BY <3>1, <3>2
  <2>3. WorkIsLegal'
    BY <2>1, <2>2, WorkAdded
  <2>4. todo' \in [Thread -> Seq(Op)]
    BY <1>t, <2>2, <2>3, WorkTypes
  <2> QED BY <1>t, <2>1, <2>3, <2>4 DEF Inv, TypeOK
<1>2. ASSUME NEW t \in Thread, ReceiveMessage(t) PROVE Inv'
  <2>1. Now(t, Receive) /\ UNCHANGED <<owner, stop, ring>>
    BY <1>2 DEF ReceiveMessage
  <2>2. PICK work \in MessageWork : Continue(t, work)
    BY <1>2 DEF ReceiveMessage
  <2>3. t = "recv"
    BY <2>1, NowLegal DEF Legal
  <2>4. Runs(t, work, {}, {})
    BY <2>3, RunsMessage
  <2>5. WorkIsLegal'
    BY <2>1, <2>2, <2>4, WorkAdded
  <2>6. todo' \in [Thread -> Seq(Op)]
    BY <1>t, <2>2, <2>5, WorkTypes
  <2>7. messages' \in 0 .. MaxMessages
    BY <1>t, <1>2, BoundsAssumption DEF ReceiveMessage, TypeOK
  <2> QED BY <1>t, <2>1, <2>5, <2>6, <2>7 DEF Inv, TypeOK
<1>3. ASSUME NEW t \in Thread, WriteChunk(t) PROVE Inv'
  <2>1. Now(t, Put) /\ Continue(t, <<>>) /\ UNCHANGED <<owner, stop, messages>>
    BY <1>3 DEF WriteChunk
  <2>2. \A u \in Thread : Holds(u)' = Holds(u) /\ Do(Put, Holds(u)) = Holds(u)
    BY <2>1, DoFacts DEF Holds
  <2>3. WorkIsLegal'
    BY <2>1, <2>2, OperationDone
  <2>4. todo' \in [Thread -> Seq(Op)]
    BY <1>t, <2>1, <2>3, WorkTypes
  <2>5. ring' \in 0 .. RingRoom
    BY <1>t, <1>3, RoomAssumption DEF WriteChunk, RoomInRing, TypeOK
  <2> QED BY <1>t, <2>1, <2>3, <2>4, <2>5 DEF Inv, TypeOK
<1>4. ASSUME NEW t \in Thread, NEW m \in Mutex, Acquire(t, m) PROVE Inv'
  <2>1. /\ Now(t, Lock(m)) /\ Continue(t, <<>>) /\ owner[m] = Free
        /\ owner' = [owner EXCEPT ![m] = t] /\ UNCHANGED <<stop, ring, messages>>
    BY <1>4 DEF Acquire
  <2>2. Free \notin Thread /\ owner \in [Mutex -> Thread \cup {Free}]
    BY <1>t DEF Free, Thread, TypeOK
  <2>3. Holds(t)' = Holds(t) \cup {m} /\ \A u \in Thread \ {t} : Holds(u)' = Holds(u)
    BY <2>1, <2>2 DEF Holds
  <2>4. Do(Lock(m), Holds(t)) = Holds(t) \cup {m}
    <3>1. Holds(t) \in SUBSET Mutex
      BY DEF Holds
    <3> QED BY <3>1, DoFacts
  <2>5. Holds(t)' = Do(Lock(m), Holds(t))
    BY <2>3, <2>4
  <2>6. WorkIsLegal'
    BY <2>1, <2>3, <2>5, OperationDone
  <2>7. todo' \in [Thread -> Seq(Op)]
    BY <1>t, <2>1, <2>6, WorkTypes
  <2>8. owner' \in [Mutex -> Thread \cup {Free}]
    BY <2>1, <2>2
  <2> QED BY <1>t, <2>1, <2>6, <2>7, <2>8 DEF Inv, TypeOK
<1>5. ASSUME NEW t \in Thread, NEW m \in Mutex, Release(t, m) PROVE Inv'
  <2>1. /\ Now(t, Unlock(m)) /\ Continue(t, <<>>)
        /\ owner' = [owner EXCEPT ![m] = Free] /\ UNCHANGED <<stop, ring, messages>>
    BY <1>5 DEF Release
  <2>2. Free \notin Thread /\ owner \in [Mutex -> Thread \cup {Free}]
    BY <1>t DEF Free, Thread, TypeOK
  <2>3. m \in Holds(t)
    BY <2>1, NowLegal DEF Legal, Ordered
  <2>4. owner[m] = t
    BY <2>3 DEF Holds
  <2>5. Holds(t)' = Holds(t) \ {m} /\ \A u \in Thread \ {t} : Holds(u)' = Holds(u)
    BY <2>1, <2>2, <2>4 DEF Holds
  <2>6. Do(Unlock(m), Holds(t)) = Holds(t) \ {m}
    <3>1. Holds(t) \in SUBSET Mutex
      BY DEF Holds
    <3> QED BY <3>1, DoFacts
  <2>7. Holds(t)' = Do(Unlock(m), Holds(t))
    BY <2>5, <2>6
  <2>8. WorkIsLegal'
    BY <2>1, <2>5, <2>7, OperationDone
  <2>9. todo' \in [Thread -> Seq(Op)]
    BY <1>t, <2>1, <2>8, WorkTypes
  <2>10. owner' \in [Mutex -> Thread \cup {Free}]
    BY <2>1, <2>2
  <2> QED BY <1>t, <2>1, <2>8, <2>9, <2>10 DEF Inv, TypeOK
<1>6. ASSUME NEW t \in Thread, NEW d \in Data, ReadData(t, d) PROVE Inv'
  <2>1. /\ Now(t, Reads(d)) /\ Continue(t, <<>>)
        /\ UNCHANGED <<owner, stop, ring, messages>>
    BY <1>6 DEF ReadData
  <2>2. \A u \in Thread : Holds(u)' = Holds(u) /\ Do(Reads(d), Holds(u)) = Holds(u)
    BY <2>1, DoFacts DEF Holds
  <2>3. WorkIsLegal'
    BY <2>1, <2>2, OperationDone
  <2>4. todo' \in [Thread -> Seq(Op)]
    BY <1>t, <2>1, <2>3, WorkTypes
  <2> QED BY <1>t, <2>1, <2>3, <2>4 DEF Inv, TypeOK
<1>7. ASSUME NEW t \in Thread, NEW d \in Data, WriteData(t, d) PROVE Inv'
  <2>1. /\ Now(t, Writes(d)) /\ Continue(t, <<>>)
        /\ UNCHANGED <<owner, ring, messages>>
    BY <1>7 DEF WriteData
  <2>2. \A u \in Thread : Holds(u)' = Holds(u) /\ Do(Writes(d), Holds(u)) = Holds(u)
    BY <2>1, DoFacts DEF Holds
  <2>3. WorkIsLegal'
    BY <2>1, <2>2, OperationDone
  <2>4. todo' \in [Thread -> Seq(Op)]
    BY <1>t, <2>1, <2>3, WorkTypes
  <2>5. stop' \in BOOLEAN
    BY <1>7 DEF WriteData
  <2> QED BY <1>t, <2>1, <2>3, <2>4, <2>5 DEF Inv, TypeOK
<1>8. ASSUME UNCHANGED <<owner, todo>>, stop' = stop, messages' = messages,
             ring' \in 0 .. RingRoom
      PROVE  Inv'
  <2>1. WorkIsLegal'
    BY <1>8 DEF Inv, WorkIsLegal, Holds
  <2> QED BY <1>t, <1>8, <2>1 DEF Inv, TypeOK
<1>9. CASE Play
  <2>1. ring' \in 0 .. RingRoom
    BY <1>t, <1>9, RoomAssumption DEF Play, TypeOK
  <2> QED BY <1>8, <1>9, <2>1 DEF Play
<1>10. CASE UNCHANGED vars
  BY <1>t, <1>8, <1>10 DEF vars, TypeOK
<1>11. CASE \E t \in Thread : Step(t)
  BY <1>1, <1>2, <1>3, <1>4, <1>5, <1>6, <1>7, <1>11, Zenon DEF Step
<1> QED BY <1>9, <1>10, <1>11 DEF Next

(* The invariant holds of every behaviour. *)
LEMMA AlwaysInv == Spec => []Inv
BY InitInv, NextInv, PTL DEF Spec

-----------------------------------------------------------------------------
(* Mutexes, work, the stop flag and the ring keep their types: the ring is *)
(* never given a chunk it has no room for.                                 *)
THEOREM ThreadTypes == Spec => []TypeOK
<1>1. Inv => TypeOK
  BY DEF Inv
<1> QED BY <1>1, AlwaysInv, PTL

(* Whatever the message and however many chunks it writes, a thread that   *)
(* receives, tests stopThreads or has ended holds no mutex, and it never   *)
(* unlocks one it has not locked (threads.c).                              *)
THEOREM MutexesReleased == Spec => []ReleasesAll
<1>1. ASSUME Inv PROVE ReleasesAll
  <2>1. ASSUME NEW t \in Thread, todo[t] = <<>> PROVE Holds(t) = {}
    <3>1. PICK h : RunsWith(h, t, <<>>, Holds(t), {})
      BY <1>1, <2>1 DEF Inv, WorkIsLegal, Runs
    <3> QED BY <3>1 DEF RunsWith
  <2>2. ASSUME NEW t \in Thread, Now(t, Check) \/ Now(t, Receive)
        PROVE  Holds(t) = {}
    BY <1>1, <2>2, NowLegal DEF Legal
  <2>3. ASSUME NEW t \in Thread, NEW m \in Mutex, Now(t, Unlock(m))
        PROVE  owner[m] = t
    <3>1. m \in Holds(t)
      BY <1>1, <2>3, NowLegal DEF Legal, Ordered
    <3> QED BY <3>1 DEF Holds
  <2> QED BY <2>1, <2>2, <2>3, Zenon DEF ReleasesAll
<1> QED BY <1>1, AlwaysInv, PTL

(* The threads take nested mutexes in one order (threads.c), so no group   *)
(* of them waits in a circle.                                              *)
THEOREM NoDeadlock == Spec => []NoCircularWait
<1>1. ASSUME Inv PROVE NoCircularWait
  <2> SUFFICES ASSUME NEW S \in SUBSET Thread, S # {},
                      \A t \in S : \E m \in Mutex : WaitsFor(t, m) /\ owner[m] \in S
               PROVE  FALSE
    BY DEF NoCircularWait
  <2>1. \A m \in Mutex : Rank(m) \in 1 .. 3
    BY DEF Mutex, Rank
  <2>2. ASSUME NEW n \in Mutex, owner[n] \in S
        PROVE  \E m \in Mutex : owner[m] \in S /\ Rank(n) < Rank(m)
    <3>1. PICK m \in Mutex : WaitsFor(owner[n], m) /\ owner[m] \in S
      BY <2>2
    <3>2. owner[n] \in Thread /\ n \in Holds(owner[n])
      BY <2>2 DEF Holds
    <3>3. Legal(owner[n], Lock(m), Holds(owner[n]))
      BY <1>1, <3>1, <3>2, NowLegal DEF WaitsFor
    <3>4. Rank(n) < Rank(m)
      BY <3>2, <3>3 DEF Legal, Ordered
    <3> QED BY <3>1, <3>4
  <2>3. PICK a \in Mutex : owner[a] \in S
    OBVIOUS
  <2>4. PICK b \in Mutex : owner[b] \in S /\ Rank(a) < Rank(b)
    BY <2>2, <2>3
  <2>5. PICK c \in Mutex : owner[c] \in S /\ Rank(b) < Rank(c)
    BY <2>2, <2>4
  <2>6. PICK d \in Mutex : owner[d] \in S /\ Rank(c) < Rank(d)
    BY <2>2, <2>5
  <2> QED BY <2>1, <2>4, <2>5, <2>6
<1> QED BY <1>1, AlwaysInv, PTL

(* Shared data is written by one thread at a time, and not while another   *)
(* reads it: both hold the mutex of the data, or both are the same thread  *)
(* (threads.c:31).                                                         *)
THEOREM NoDataRace == Spec => []NoRace
<1>1. ASSUME Inv PROVE NoRace
  <2> SUFFICES ASSUME NEW d \in Data \ {"stop"},
                      NEW t \in Thread, NEW u \in Thread, t # u, Now(t, Writes(d)),
                      Now(u, Writes(d)) \/ Now(u, Reads(d))
               PROVE  FALSE
    BY DEF NoRace
  <2>1. Guarded(t, Writes(d), Holds(t))
    BY <1>1, NowLegal DEF Legal
  <2>2. Guarded(u, Writes(d), Holds(u)) \/ Guarded(u, Reads(d), Holds(u))
    BY <1>1, NowLegal DEF Legal
  <2>3. \A m \in Mutex : ~(m \in Holds(t) /\ m \in Holds(u))
    BY DEF Holds
  <2>4. d \in {"sampler", "chunks", "idSet", "peerChunks", "firstChunk", "transId"}
    BY DEF Data
  <2>5. CASE d = "sampler"
    <3>1. "topology" \in Holds(t) /\ "topology" \in Holds(u)
      BY <2>1, <2>2, <2>5 DEF Guarded
    <3> QED BY <2>3, <3>1, Names
  <2>6. CASE d = "peerChunks"
    <3>1. "peerChunk" \in Holds(t) /\ "peerChunk" \in Holds(u)
      BY <2>1, <2>2, <2>6 DEF Guarded
    <3> QED BY <2>3, <3>1, Names
  <2>7. CASE d = "chunks"
    <3>1. t = "recv" /\ "chunkBuffer" \in Holds(t)
      BY <2>1, <2>7 DEF Guarded
    <3>2. u = "recv" \/ "chunkBuffer" \in Holds(u)
      BY <2>2, <2>7 DEF Guarded
    <3> QED BY <2>3, <3>1, <3>2, Names
  <2>8. CASE d \in {"firstChunk", "idSet"}
    <3>1. t = "recv" /\ u = "recv"
      BY <2>1, <2>2, <2>8 DEF Guarded
    <3> QED BY <3>1
  <2>9. CASE d = "transId"
    <3>1. t = "offer" /\ u = "offer"
      BY <2>1, <2>2, <2>9 DEF Guarded
    <3> QED BY <3>1
  <2> QED BY <2>4, <2>5, <2>6, <2>7, <2>8, <2>9
<1> QED BY <1>1, AlwaysInv, PTL

===============================================================================
