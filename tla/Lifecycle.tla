------------------------------- MODULE Lifecycle -------------------------------
(***************************************************************************)
(* Opening and disposing of plugins, src/input_p2p.c, src/streamer.c,      *)
(* src/output_factory.c and threads_start in src/threads.c.                *)
(*                                                                         *)
(* xine makes a plugin for every stream and calls open and dispose from    *)
(* the stream's own thread.  Each plugin has its own structure, but the    *)
(* state of the peer is global, so plugins share it.  The threads of a     *)
(* plugin are never joined and end only after the network is lost.         *)
(***************************************************************************)
EXTENDS Integers, Sequences

CONSTANT Plugin         \* the plugins xine may make

(* What init does, in order; the last step is followed by threads_start.   *)
Steps == <<"interface", "localSocket", "peersampleContext", "chunkBuffer",
           "delivery", "signaling", "chunkIDSet", "peerSet", "serverSocket",
           "server", "output">>

(* The steps that assign a global pointer, which the threads use. *)
Globals == {"localSocket", "peersampleContext", "chunkBuffer", "chunkIDSet",
            "peerSet", "serverSocket", "output"}

VARIABLES
    phase,      \* what xine has done with each plugin
    step,       \* the step of init an open is at
    set,        \* the global pointers that are not NULL
    bound,      \* a socket of this process has the port; it is never closed
    threads,    \* the plugins whose threads run
    stop,       \* stopThreads, one flag for all of them
    freed,      \* the plugins whose ring is freed
    process     \* "runs", "exited" or "crashed"

vars == <<phase, step, set, bound, threads, stop, freed, process>>

Init ==
    /\ phase = [i \in Plugin |-> "none"]
    /\ step = [i \in Plugin |-> 0]
    /\ set = {}
    /\ bound = FALSE
    /\ threads = {}
    /\ stop = FALSE
    /\ freed = {}
    /\ process = "runs"

Becomes(i, p) == phase' = [phase EXCEPT ![i] = p]

-----------------------------------------------------------------------------
(* p2p_class_get_instance.  It frees a pointer into the middle of the url  *)
(* it has copied, which the C library may answer with an abort.            *)
GetInstance(i) ==
    /\ process = "runs"
    /\ phase[i] = "none"
    /\ Becomes(i, "made")
    /\ process' \in {"runs", "crashed"}
    /\ UNCHANGED <<step, set, bound, threads, stop, freed>>

(* p2p_plugin_open *)
Open(i) ==
    /\ process = "runs"
    /\ phase[i] = "made"
    /\ Becomes(i, "opening")
    /\ step' = [step EXCEPT ![i] = 1]
    /\ UNCHANGED <<set, bound, threads, stop, freed, process>>

Does(i, name) ==
    /\ process = "runs"
    /\ phase[i] = "opening"
    /\ step[i] \in 1 .. Len(Steps)
    /\ Steps[step[i]] = name

GoesOn(i) == step' = [step EXCEPT ![i] = @ + 1] /\ UNCHANGED phase

(* The pointer a step stores its result in, if it is a global. *)
StoredAlways(name) == {name}
Stored(name) == {name} \cap Globals

(* Every port can be bound once. *)
CanSucceed(name) == name = "localSocket" => ~bound

InitSucceeds(i) ==
    \E name \in {Steps[k] : k \in 1 .. Len(Steps)} :
        /\ Does(i, name)
        /\ CanSucceed(name)
        /\ set' = set \cup Stored(name)
        /\ bound' = (bound \/ name = "localSocket")
        /\ GoesOn(i)
        /\ UNCHANGED <<threads, stop, freed, process>>

(* A step that fails leaves NULL in its pointer and ends the open, without *)
(* undoing the steps before; without the network interface the process     *)
(* exits, whatever else it plays.                                          *)
SocketNotChecked == {"localSocket"}
OutputNotChecked == {"output"}
NotChecked == {}
InitFails(i) ==
    \E name \in {Steps[k] : k \in 1 .. Len(Steps)} :
        /\ Does(i, name)
        /\ set' = set \ {name}
        /\ process' = IF name = "interface" THEN "exited" ELSE process
        /\ IF name \in NotChecked THEN GoesOn(i)
                                  ELSE Becomes(i, "failed") /\ UNCHANGED step
        /\ UNCHANGED <<bound, threads, stop, freed>>

(* threads_start: it clears stopThreads and initialises the mutexes, which *)
(* are shared too, without a look at threads that may still run.           *)
StartThreads(i) ==
    /\ process = "runs"
    /\ phase[i] = "opening"
    /\ step[i] = Len(Steps) + 1
    /\ Becomes(i, "open")
    /\ threads' = threads \cup {i}
    /\ stop' = FALSE
    /\ UNCHANGED <<step, set, bound, freed, process>>

-----------------------------------------------------------------------------
(* The threads go on using the globals, and the receive thread the ring of *)
(* the plugin that the output was made for.                                *)
ThreadsCrash ==
    /\ process = "runs"
    /\ threads # {}
    /\ ~(Globals \subseteq set) \/ threads \cap freed # {}
    /\ process' = "crashed"
    /\ UNCHANGED <<phase, step, set, bound, threads, stop, freed>>

(* The topology thread finds no neighbour left and sets stopThreads; the   *)
(* threads end when they get to their test of it, the receive thread after *)
(* one more message.                                                       *)
NetworkLost ==
    /\ process = "runs"
    /\ threads # {}
    /\ stop' = TRUE
    /\ UNCHANGED <<phase, step, set, bound, threads, freed, process>>

ThreadsEnd(i) ==
    /\ process = "runs"
    /\ stop
    /\ i \in threads
    /\ threads' = threads \ {i}
    /\ UNCHANGED <<phase, step, set, bound, stop, freed, process>>

-----------------------------------------------------------------------------
(* p2p_plugin_dispose: it frees a string literal, the ring and an array in *)
(* the structure, which the C library may answer with an abort ...         *)
Dispose(i) ==
    /\ process = "runs"
    /\ phase[i] \in {"made", "failed", "open"}
    /\ Becomes(i, "disposing")
    /\ freed' = freed \cup {i}
    /\ process' \in {"runs", "crashed"}
    /\ UNCHANGED <<step, set, bound, threads, stop>>

(* ... and closes an output that was never assigned: the pointer is NULL.  *)
DisposeCloses(i) ==
    /\ process = "runs"
    /\ phase[i] = "disposing"
    /\ process' = "crashed"
    /\ UNCHANGED <<phase, step, set, bound, threads, stop, freed>>

Next ==
    \/ \E i \in Plugin : \/ GetInstance(i) \/ Open(i)
                         \/ InitSucceeds(i) \/ InitFails(i) \/ StartThreads(i)
                         \/ ThreadsEnd(i) \/ Dispose(i) \/ DisposeCloses(i)
    \/ ThreadsCrash \/ NetworkLost

Spec == Init /\ [][Next]_vars

-----------------------------------------------------------------------------
(* Phases, steps and pointers are those of open, init and dispose. *)
TypeOK ==
    /\ phase \in [Plugin -> {"none", "made", "opening", "failed", "open", "disposing"}]
    /\ step \in [Plugin -> 0 .. Len(Steps) + 1]
    /\ set \in SUBSET Globals
    /\ bound \in BOOLEAN /\ stop \in BOOLEAN
    /\ threads \in SUBSET Plugin /\ freed \in SUBSET Plugin
    /\ process \in {"runs", "exited", "crashed"}

(* xine may open as many streams as it likes, but never do the threads of  *)
(* two plugins run on the same globals and mutexes, although nothing in    *)
(* open looks for the others: the port, which dispose does not give back,  *)
(* can be bound once, and a failure to bind ends the second open.          *)
OneSetOfThreads == \A i, j \in threads : i = j

(* So threads_start, which clears stopThreads for all, neither revives     *)
(* threads that were told to stop and have not come to their test yet nor  *)
(* starts others: a process that lost its network never plays again.       *)
StopIsKept == [][stop => stop' /\ threads' \subseteq threads]_vars

(* init has set every pointer before it starts threads, and only dispose   *)
(* takes a ring away from them.  This needs that no other plugin was       *)
(* opened: an open that fails at the port leaves NULL in localSocket,      *)
(* which the threads of the first plugin use.                              *)
Alone(i) == \A j \in Plugin \ {i} : phase[j] \in {"none", "made"}
ThreadsHaveState ==
    \A i \in threads : Alone(i) /\ phase[i] = "open" => Globals \subseteq set /\ i \notin freed
===============================================================================
