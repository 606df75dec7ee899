--------------------------- MODULE Lifecycle_proofs ---------------------------
(***************************************************************************)
(* Theorems about module Lifecycle for any number of plugins.              *)
(***************************************************************************)
EXTENDS Lifecycle, TLAPS

-----------------------------------------------------------------------------
(* The steps of init and what they store. *)

(* The socket is the second of eleven steps, and every global pointer is   *)
(* stored by one of them.                                                  *)
LEMMA StepsFacts ==
    /\ Len(Steps) = 11
    /\ \A k \in 1 .. 11 : Steps[k] = "localSocket" <=> k = 2
    /\ \A name \in Globals : \E k \in 1 .. 11 : Steps[k] = name
<1>1. /\ Steps[1] = "interface" /\ Steps[2] = "localSocket"
      /\ Steps[3] = "peersampleContext" /\ Steps[4] = "chunkBuffer"
      /\ Steps[5] = "delivery" /\ Steps[6] = "signaling"
      /\ Steps[7] = "chunkIDSet" /\ Steps[8] = "peerSet"
      /\ Steps[9] = "serverSocket" /\ Steps[10] = "server" /\ Steps[11] = "output"
  BY DEF Steps
<1>2. Len(Steps) = 11
  BY DEF Steps
<1>3. ASSUME NEW k \in 1 .. 11
      PROVE  k = 1 \/ k = 2 \/ k = 3 \/ k = 4 \/ k = 5 \/ k = 6
             \/ k = 7 \/ k = 8 \/ k = 9 \/ k = 10 \/ k = 11
  OBVIOUS
<1>4. ASSUME NEW k \in 1 .. 11
      PROVE  Steps[k] = "localSocket" <=> k = 2
  BY <1>1, <1>3
<1>5. ASSUME NEW name \in Globals
      PROVE  \E k \in 1 .. 11 : Steps[k] = name
  <2>1. 2 \in 1 .. 11 /\ 3 \in 1 .. 11 /\ 4 \in 1 .. 11 /\ 7 \in 1 .. 11
        /\ 8 \in 1 .. 11 /\ 9 \in 1 .. 11 /\ 11 \in 1 .. 11
    OBVIOUS
  <2> QED BY <1>1, <2>1, Zenon DEF Globals
<1> QED BY <1>2, <1>4, <1>5

-----------------------------------------------------------------------------
(* Types. *)

(* TypeOK holds at the start. *)
LEMMA TypeInit == Init => TypeOK
<1>1. 0 \in 0 .. Len(Steps) + 1
  BY StepsFacts
<1> QED BY <1>1 DEF Init, TypeOK

(* Every step of xine, of init, of the threads and of dispose keeps it. *)
LEMMA TypeStep == TypeOK /\ [Next]_vars => TypeOK'
<1> SUFFICES ASSUME TypeOK, [Next]_vars PROVE TypeOK'
  OBVIOUS
<1> USE StepsFacts
<1>1. ASSUME NEW i \in Plugin, GetInstance(i) PROVE TypeOK'
  BY <1>1 DEF TypeOK, GetInstance, Becomes
<1>2. ASSUME NEW i \in Plugin, Open(i) PROVE TypeOK'
  BY <1>2 DEF TypeOK, Open, Becomes
<1>3. ASSUME NEW i \in Plugin, InitSucceeds(i) PROVE TypeOK'
  <2>1. PICK name : /\ Does(i, name)
                    /\ set' = set \cup Stored(name)
                    /\ bound' = (bound \/ name = "localSocket")
                    /\ GoesOn(i)
                    /\ UNCHANGED <<threads, stop, freed, process>>
    BY <1>3 DEF InitSucceeds
  <2>2. set' \in SUBSET Globals
    BY <2>1 DEF TypeOK, Stored
  <2>3. bound' \in BOOLEAN
    BY <2>1, Zenon DEF TypeOK
  <2>4. step' \in [Plugin -> 0 .. Len(Steps) + 1] /\ phase' = phase
    BY <2>1 DEF TypeOK, Does, GoesOn
  <2> QED BY <2>1, <2>2, <2>3, <2>4 DEF TypeOK
<1>4. ASSUME NEW i \in Plugin, InitFails(i) PROVE TypeOK'
  <2>1. PICK name : /\ Does(i, name)
                    /\ set' = set \ {name}
                    /\ process' = IF name = "interface" THEN "exited" ELSE process
                    /\ Becomes(i, "failed") /\ UNCHANGED step
                    /\ UNCHANGED <<bound, threads, stop, freed>>
    BY <1>4 DEF InitFails, NotChecked
  <2> QED BY <2>1 DEF TypeOK, Becomes
<1>5. ASSUME NEW i \in Plugin, StartThreads(i) PROVE TypeOK'
  BY <1>5 DEF TypeOK, StartThreads, Becomes
<1>6. ASSUME NEW i \in Plugin, ThreadsEnd(i) PROVE TypeOK'
  BY <1>6 DEF TypeOK, ThreadsEnd
<1>7. ASSUME NEW i \in Plugin, Dispose(i) PROVE TypeOK'
  BY <1>7 DEF TypeOK, Dispose, Becomes
<1>8. ASSUME NEW i \in Plugin, DisposeCloses(i) PROVE TypeOK'
  BY <1>8 DEF TypeOK, DisposeCloses
<1>9. CASE ThreadsCrash
  BY <1>9 DEF TypeOK, ThreadsCrash
<1>10. CASE NetworkLost
  BY <1>10 DEF TypeOK, NetworkLost
<1>11. CASE UNCHANGED vars
  BY <1>11 DEF TypeOK, vars
<1> QED BY <1>1, <1>2, <1>3, <1>4, <1>5, <1>6, <1>7, <1>8, <1>9, <1>10, <1>11
    DEF Next

(* TypeOK holds always. *)
THEOREM LifecycleTypes == Spec => []TypeOK
BY TypeInit, TypeStep, PTL DEF Spec

-----------------------------------------------------------------------------
(* One plugin past the socket. *)

(* A plugin that got past the second step bound the port, which is bound   *)
(* once; threads were started behind the last step, by an open that has    *)
(* returned.                                                               *)
PastSocketOnce ==
    /\ \A i \in Plugin : step[i] > 2 => bound
    /\ \A i, j \in Plugin : step[i] > 2 /\ step[j] > 2 => i = j
    /\ \A i \in threads : step[i] = 12 /\ phase[i] \in {"open", "disposing"}

(* It holds at the start. *)
LEMMA PastInit == Init => PastSocketOnce
BY DEF Init, PastSocketOnce

(* Steps that change neither step nor bound and move phases on keep it, if *)
(* they start no threads.                                                  *)
LEMMA PastKept ==
    ASSUME TypeOK, PastSocketOnce,
           step' = step, bound' = bound, threads' \subseteq threads,
           \A i \in Plugin : phase[i] \in {"open", "disposing"}
                                => phase'[i] \in {"open", "disposing"}
    PROVE  PastSocketOnce'
<1>1. ASSUME NEW i \in threads'
      PROVE  step'[i] = 12 /\ phase'[i] \in {"open", "disposing"}
  BY Zenon DEF PastSocketOnce, TypeOK
<1> QED BY <1>1 DEF PastSocketOnce

(* Every step keeps it. *)
LEMMA PastStep == TypeOK /\ PastSocketOnce /\ [Next]_vars => PastSocketOnce'
<1> SUFFICES ASSUME TypeOK, PastSocketOnce, [Next]_vars PROVE PastSocketOnce'
  OBVIOUS
<1> USE StepsFacts
<1>1. ASSUME NEW i \in Plugin, GetInstance(i) PROVE PastSocketOnce'
  BY <1>1, PastKept DEF GetInstance, Becomes, TypeOK
<1>2. ASSUME NEW i \in Plugin, Open(i) PROVE PastSocketOnce'
  <2>1. \A j \in Plugin : step'[j] > 2 => step[j] > 2
    BY <1>2 DEF Open, TypeOK
  <2>2. i \notin threads
    BY <1>2 DEF Open, PastSocketOnce
  <2>3. \A j \in threads' : step'[j] = step[j] /\ phase'[j] = phase[j]
    BY <1>2, <2>2 DEF Open, Becomes, TypeOK
  <2> QED BY <1>2, <2>1, <2>3 DEF Open, PastSocketOnce
<1>3. ASSUME NEW i \in Plugin, InitSucceeds(i) PROVE PastSocketOnce'
  <2>1. PICK name : /\ Does(i, name)
                    /\ CanSucceed(name)
                    /\ bound' = (bound \/ name = "localSocket")
                    /\ GoesOn(i)
                    /\ UNCHANGED <<threads, stop, freed, process>>
    BY <1>3 DEF InitSucceeds
  <2>2. /\ step[i] \in 1 .. 11 /\ Steps[step[i]] = name /\ phase[i] = "opening"
        /\ step' = [step EXCEPT ![i] = @ + 1] /\ phase' = phase
    BY <2>1 DEF Does, GoesOn
  <2>3. i \notin threads
    BY <2>2 DEF PastSocketOnce
  <2>4. /\ step'[i] = step[i] + 1
        /\ \A j \in Plugin \ {i} : step'[j] = step[j]
    BY <2>2 DEF TypeOK
  <2>5. \A j \in threads' : step'[j] = 12 /\ phase'[j] \in {"open", "disposing"}
    BY <2>1, <2>2, <2>3, <2>4 DEF PastSocketOnce, TypeOK
  <2>6. CASE step[i] = 2
    <3>1. name = "localSocket" /\ ~bound /\ bound'
      BY <2>1, <2>2, <2>6 DEF CanSucceed
    <3>2. \A j \in Plugin \ {i} : ~(step'[j] > 2)
      BY <3>1, <2>4 DEF PastSocketOnce
    <3>3. \A j, k \in Plugin : step'[j] > 2 /\ step'[k] > 2 => j = k
      BY <3>2
    <3> QED BY <3>1, <3>3, <2>5 DEF PastSocketOnce
  <2>7. CASE step[i] # 2
    <3>1. \A j \in Plugin : step'[j] > 2 => step[j] > 2
      BY <2>2, <2>4, <2>7 DEF TypeOK
    <3>2. bound => bound'
      BY <2>1, Zenon
    <3> QED BY <3>1, <3>2, <2>5 DEF PastSocketOnce
  <2> QED BY <2>6, <2>7
<1>4. ASSUME NEW i \in Plugin, InitFails(i) PROVE PastSocketOnce'
  <2>1. /\ phase[i] = "opening" /\ Becomes(i, "failed") /\ UNCHANGED step
        /\ UNCHANGED <<bound, threads, stop, freed>>
    BY <1>4 DEF InitFails, NotChecked, Does
  <2> QED BY <2>1, PastKept DEF Becomes, TypeOK
<1>5. ASSUME NEW i \in Plugin, StartThreads(i) PROVE PastSocketOnce'
  <2>1. /\ step[i] = 12 /\ phase' = [phase EXCEPT ![i] = "open"]
        /\ threads' = threads \cup {i} /\ UNCHANGED <<step, bound>>
    BY <1>5 DEF StartThreads, Becomes
  <2>2. \A j \in threads' : step'[j] = 12 /\ phase'[j] \in {"open", "disposing"}
    BY <2>1 DEF PastSocketOnce, TypeOK
  <2> QED BY <2>1, <2>2 DEF PastSocketOnce
<1>6. ASSUME NEW i \in Plugin, ThreadsEnd(i) PROVE PastSocketOnce'
  BY <1>6, PastKept DEF ThreadsEnd
<1>7. ASSUME NEW i \in Plugin, Dispose(i) PROVE PastSocketOnce'
  BY <1>7, PastKept DEF Dispose, Becomes, TypeOK
<1>8. ASSUME NEW i \in Plugin, DisposeCloses(i) PROVE PastSocketOnce'
  BY <1>8, PastKept DEF DisposeCloses
<1>9. CASE ThreadsCrash
  BY <1>9, PastKept DEF ThreadsCrash
<1>10. CASE NetworkLost
  BY <1>10, PastKept DEF NetworkLost
<1>11. CASE UNCHANGED vars
  BY <1>11, PastKept DEF vars
<1> QED BY <1>1, <1>2, <1>3, <1>4, <1>5, <1>6, <1>7, <1>8, <1>9, <1>10, <1>11
    DEF Next

(* The threads of two plugins never run at once. *)
THEOREM ThreadsRunOnce == Spec => []OneSetOfThreads
<1>1. TypeOK /\ PastSocketOnce => OneSetOfThreads
  BY DEF TypeOK, PastSocketOnce, OneSetOfThreads
<1> QED BY <1>1, PastInit, PastStep, LifecycleTypes, PTL DEF Spec

(* Whoever set stopThreads had been started, by an open that has returned. *)
StopAfterStart ==
    stop => \E i \in Plugin : step[i] = 12 /\ phase[i] \in {"open", "disposing"}

(* An open that starts threads finds stopThreads clear: it is alone past   *)
(* the socket.                                                             *)
LEMMA StartsUnstopped ==
    ASSUME TypeOK, PastSocketOnce, StopAfterStart, NEW i \in Plugin, StartThreads(i)
    PROVE  ~stop
<1>1. step[i] = 12 /\ phase[i] = "opening"
  BY StepsFacts DEF StartThreads
<1>2. ASSUME NEW j \in Plugin, step[j] = 12 /\ phase[j] \in {"open", "disposing"}
      PROVE  FALSE
  <2>1. j = i
    BY <1>1, <1>2 DEF PastSocketOnce
  <2> QED BY <1>1, <1>2, <2>1
<1> QED BY <1>2 DEF StopAfterStart

(* Steps that move no plugin back from where threads run keep what was     *)
(* started.                                                                *)
LEMMA StartedKept ==
    ASSUME StopAfterStart, stop' => stop,
           \A i \in Plugin : step[i] = 12 /\ phase[i] \in {"open", "disposing"}
               => step'[i] = 12 /\ phase'[i] \in {"open", "disposing"}
    PROVE  StopAfterStart'
BY DEF StopAfterStart

(* Every step keeps it. *)
LEMMA StopStep ==
    ASSUME TypeOK, PastSocketOnce, StopAfterStart, [Next]_vars
    PROVE  StopAfterStart'
<1>1. ASSUME NEW i \in Plugin, GetInstance(i) PROVE StopAfterStart'
  BY <1>1, StartedKept DEF GetInstance, Becomes, TypeOK
<1>2. ASSUME NEW i \in Plugin, Open(i) PROVE StopAfterStart'
  BY <1>2, StartedKept DEF Open, Becomes, TypeOK
<1>3. ASSUME NEW i \in Plugin, InitSucceeds(i) PROVE StopAfterStart'
  <2>1. phase[i] = "opening" /\ GoesOn(i) /\ UNCHANGED stop
    BY <1>3 DEF InitSucceeds, Does
  <2> QED BY <2>1, StartedKept DEF GoesOn, TypeOK
<1>4. ASSUME NEW i \in Plugin, InitFails(i) PROVE StopAfterStart'
  <2>1. phase[i] = "opening" /\ Becomes(i, "failed") /\ UNCHANGED <<step, stop>>
    BY <1>4 DEF InitFails, NotChecked, Does
  <2> QED BY <2>1, StartedKept DEF Becomes, TypeOK
<1>5. ASSUME NEW i \in Plugin, StartThreads(i) PROVE StopAfterStart'
  BY <1>5 DEF StartThreads, StopAfterStart
<1>6. ASSUME NEW i \in Plugin, ThreadsEnd(i) PROVE StopAfterStart'
  BY <1>6, StartedKept DEF ThreadsEnd
<1>7. ASSUME NEW i \in Plugin, Dispose(i) PROVE StopAfterStart'
  BY <1>7, StartedKept DEF Dispose, Becomes, TypeOK
<1>8. ASSUME NEW i \in Plugin, DisposeCloses(i) PROVE StopAfterStart'
  BY <1>8, StartedKept DEF DisposeCloses
<1>9. CASE ThreadsCrash
  BY <1>9, StartedKept DEF ThreadsCrash
<1>10. CASE NetworkLost
  <2>1. PICK i \in threads : TRUE
    BY <1>10 DEF NetworkLost
  <2>2. i \in Plugin /\ step[i] = 12 /\ phase[i] \in {"open", "disposing"}
    BY <2>1 DEF PastSocketOnce, TypeOK
  <2>3. UNCHANGED <<phase, step>>
    BY <1>10 DEF NetworkLost
  <2> QED BY <2>2, <2>3 DEF StopAfterStart
<1>11. CASE UNCHANGED vars
  BY <1>11, StartedKept DEF vars
<1> QED BY <1>1, <1>2, <1>3, <1>4, <1>5, <1>6, <1>7, <1>8, <1>9, <1>10, <1>11
    DEF Next

(* After stopThreads is set it is never cleared and no threads start.      *)
THEOREM StopStays == Spec => StopIsKept
<1>1. Init => StopAfterStart
  BY DEF Init, StopAfterStart
<1>2. TypeOK /\ PastSocketOnce /\ StopAfterStart /\ [Next]_vars => StopAfterStart'
  BY StopStep
<1>3. TypeOK /\ PastSocketOnce /\ StopAfterStart /\ [Next]_vars
        => [stop => stop' /\ threads' \subseteq threads]_vars
  <2> SUFFICES ASSUME TypeOK, PastSocketOnce, StopAfterStart, Next, stop
               PROVE  stop' /\ threads' \subseteq threads
    OBVIOUS
  <2>1. ASSUME NEW i \in Plugin, StartThreads(i) PROVE FALSE
    BY <2>1, StartsUnstopped
  <2>2. ASSUME NEW i \in Plugin,
               GetInstance(i) \/ Open(i) \/ InitSucceeds(i) \/ InitFails(i)
               \/ Dispose(i) \/ DisposeCloses(i)
        PROVE  stop' = stop /\ threads' = threads
    BY <2>2, Zenon DEF GetInstance, Open, InitSucceeds, InitFails, Dispose, DisposeCloses
  <2>3. ASSUME NEW i \in Plugin, ThreadsEnd(i)
        PROVE  stop' = stop /\ threads' \subseteq threads
    BY <2>3 DEF ThreadsEnd
  <2>4. ASSUME ThreadsCrash \/ NetworkLost PROVE stop' /\ threads' = threads
    BY <2>4, Zenon DEF ThreadsCrash, NetworkLost
  <2> QED BY <2>1, <2>2, <2>3, <2>4, Zenon DEF Next
<1> QED BY <1>1, <1>2, <1>3, PastInit, PastStep, LifecycleTypes, PTL DEF Spec, StopIsKept

-----------------------------------------------------------------------------
(* State that is complete before the threads start. *)

(* The only plugin that was opened has stored the pointers of the steps    *)
(* behind it, and a ring is only freed by dispose.                         *)
StateBuilt ==
    /\ \A i \in Plugin : Alone(i) /\ phase[i] \in {"opening", "open"} =>
           \A k \in 1 .. 11 : k < step[i] /\ Steps[k] \in Globals => Steps[k] \in set
    /\ \A i \in freed : phase[i] = "disposing"

(* It holds at the start. *)
LEMMA BuiltInit == Init => StateBuilt
BY DEF Init, StateBuilt

(* Steps that leave pointers, steps and rings alone keep it, if no other   *)
(* phase comes to be "none", "made", "opening" or "open".                  *)
LEMMA BuiltKept ==
    ASSUME TypeOK, StateBuilt,
           step' = step, set' = set, freed' = freed,
           \A i \in Plugin :
              /\ phase'[i] \in {"none", "made"} => phase[i] \in {"none", "made"}
              /\ phase'[i] \in {"opening", "open"} => phase[i] \in {"opening", "open"}
              /\ phase[i] = "disposing" => phase'[i] = "disposing"
    PROVE  StateBuilt'
<1>1. ASSUME NEW i \in Plugin, Alone(i)', phase'[i] \in {"opening", "open"}
      PROVE  Alone(i) /\ phase[i] \in {"opening", "open"}
  BY <1>1, Zenon DEF Alone
<1>2. \A i \in freed' : phase'[i] = "disposing"
  BY Zenon DEF StateBuilt, TypeOK
<1> QED BY <1>1, <1>2 DEF StateBuilt

(* Every step keeps it. *)
LEMMA BuiltStep == TypeOK /\ StateBuilt /\ [Next]_vars => StateBuilt'
<1> SUFFICES ASSUME TypeOK, StateBuilt, [Next]_vars PROVE StateBuilt'
  OBVIOUS
<1>1. ASSUME NEW i \in Plugin, GetInstance(i) PROVE StateBuilt'
  BY <1>1, BuiltKept DEF GetInstance, Becomes, TypeOK
<1>2. ASSUME NEW i \in Plugin, Open(i) PROVE StateBuilt'
  <2>1. /\ phase[i] = "made" /\ phase' = [phase EXCEPT ![i] = "opening"]
        /\ step' = [step EXCEPT ![i] = 1] /\ UNCHANGED <<set, freed>>
    BY <1>2 DEF Open, Becomes
  <2>2. ASSUME NEW j \in Plugin, Alone(j)' PROVE j = i
    BY <2>1, <2>2 DEF Alone, TypeOK
  <2>3. step'[i] = 1
    BY <2>1 DEF TypeOK
  <2>4. \A j \in freed' : phase'[j] = "disposing"
    BY <2>1 DEF StateBuilt, TypeOK
  <2> QED BY <2>2, <2>3, <2>4 DEF StateBuilt
<1>3. ASSUME NEW i \in Plugin, InitSucceeds(i) PROVE StateBuilt'
  <2>1. PICK name : /\ Does(i, name)
                    /\ set' = set \cup Stored(name)
                    /\ GoesOn(i)
                    /\ UNCHANGED <<threads, stop, freed, process>>
    BY <1>3 DEF InitSucceeds
  <2>2. /\ step[i] \in 1 .. 11 /\ Steps[step[i]] = name /\ phase[i] = "opening"
        /\ step' = [step EXCEPT ![i] = @ + 1] /\ phase' = phase
    BY <2>1, StepsFacts DEF Does, GoesOn
  <2>3. ASSUME NEW j \in Plugin, Alone(j)' PROVE j = i /\ Alone(i)
    BY <2>2, <2>3 DEF Alone
  <2>4. ASSUME Alone(i), NEW k \in 1 .. 11, k < step'[i], Steps[k] \in Globals
        PROVE  Steps[k] \in set'
    <3>1. k < step[i] \/ k = step[i]
      BY <2>2, <2>4 DEF TypeOK
    <3>2. CASE k < step[i]
      BY <2>1, <2>2, <2>4, <3>2 DEF StateBuilt
    <3>3. CASE k = step[i]
      BY <2>1, <2>2, <2>4, <3>3 DEF Stored
    <3> QED BY <3>1, <3>2, <3>3
  <2>5. \A j \in freed' : phase'[j] = "disposing"
    BY <2>1, <2>2 DEF StateBuilt
  <2> QED BY <2>3, <2>4, <2>5 DEF StateBuilt
<1>4. ASSUME NEW i \in Plugin, InitFails(i) PROVE StateBuilt'
  <2>1. /\ phase[i] = "opening" /\ phase' = [phase EXCEPT ![i] = "failed"]
        /\ UNCHANGED freed
    BY <1>4 DEF InitFails, NotChecked, Does, Becomes
  <2>2. ASSUME NEW j \in Plugin, Alone(j)' PROVE phase'[j] = "failed"
    BY <2>1, <2>2 DEF Alone, TypeOK
  <2>3. \A j \in freed' : phase'[j] = "disposing"
    BY <2>1 DEF StateBuilt, TypeOK
  <2> QED BY <2>2, <2>3 DEF StateBuilt
<1>5. ASSUME NEW i \in Plugin, StartThreads(i) PROVE StateBuilt'
  BY <1>5, BuiltKept DEF StartThreads, Becomes, TypeOK
<1>6. ASSUME NEW i \in Plugin, ThreadsEnd(i) PROVE StateBuilt'
  BY <1>6, BuiltKept DEF ThreadsEnd
<1>7. ASSUME NEW i \in Plugin, Dispose(i) PROVE StateBuilt'
  <2>1. /\ phase' = [phase EXCEPT ![i] = "disposing"]
        /\ freed' = freed \cup {i} /\ UNCHANGED <<step, set>>
    BY <1>7 DEF Dispose, Becomes
  <2>2. ASSUME NEW j \in Plugin, Alone(j)' PROVE phase'[j] = "disposing"
    BY <2>1, <2>2 DEF Alone, TypeOK
  <2>3. \A j \in freed' : phase'[j] = "disposing"
    BY <2>1 DEF StateBuilt, TypeOK
  <2> QED BY <2>2, <2>3 DEF StateBuilt
<1>8. ASSUME NEW i \in Plugin, DisposeCloses(i) PROVE StateBuilt'
  BY <1>8, BuiltKept DEF DisposeCloses
<1>9. CASE ThreadsCrash
  BY <1>9, BuiltKept DEF ThreadsCrash
<1>10. CASE NetworkLost
  BY <1>10, BuiltKept DEF NetworkLost
<1>11. CASE UNCHANGED vars
  BY <1>11, BuiltKept DEF vars
<1> QED BY <1>1, <1>2, <1>3, <1>4, <1>5, <1>6, <1>7, <1>8, <1>9, <1>10, <1>11
    DEF Next

(* The threads of the only plugin opened have every pointer they use, and  *)
(* its ring until dispose.                                                 *)
THEOREM ThreadsFindState == Spec => []ThreadsHaveState
<1>1. TypeOK /\ PastSocketOnce /\ StateBuilt => ThreadsHaveState
  <2> SUFFICES ASSUME TypeOK, PastSocketOnce, StateBuilt,
                      NEW i \in threads, Alone(i), phase[i] = "open"
               PROVE  Globals \subseteq set /\ i \notin freed
    BY DEF ThreadsHaveState
  <2>1. i \in Plugin /\ step[i] = 12
    BY DEF TypeOK, PastSocketOnce
  <2>2. \A k \in 1 .. 11 : Steps[k] \in Globals => Steps[k] \in set
    BY <2>1 DEF StateBuilt
  <2>3. Globals \subseteq set
    BY <2>2, StepsFacts
  <2>4. i \notin freed
    BY DEF StateBuilt
  <2> QED BY <2>3, <2>4
<1> QED BY <1>1, PastInit, PastStep, BuiltInit, BuiltStep, LifecycleTypes, PTL DEF Spec
===============================================================================
