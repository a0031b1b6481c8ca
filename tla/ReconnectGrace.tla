--------------------------- MODULE ReconnectGrace ---------------------------
(***************************************************************************)
(* What happens to the windows of a display connection that breaks         *)
(* (app/JuiceReconnectGrace.m): they are kept, detached from the dead      *)
(* descriptor, and a timer prunes those that no reconnect has claimed,     *)
(* once the process that presented them is gone.  The other handlers that  *)
(* change a window state (app/main.m, app/JuiceMemoryPressure.m) are here  *)
(* as far as the timer's comparison can tell.                              *)
(*                                                                         *)
(* All of it runs on the main queue, so each handler is one step.  A       *)
(* process is its pid; once it is dead the pid may be given to something   *)
(* that has nothing to do with Juice.  Two images are the same only if     *)
(* they are the same object.                                               *)
(***************************************************************************)
EXTENDS Integers, FiniteSets

CONSTANTS
    Processes,      \* Wine processes
    Hwnds,          \* window handles, used again after a process has died
    MaxImages,      \* bound on the frames presented
    MaxDetaches,    \* bound on the connections that break
    Absent

ASSUME GraceAssumption == MaxImages \in Nat /\ MaxDetaches \in Nat /\ Absent \notin Processes

VARIABLES
    process,    \* process -> is it running, and is something running under its pid
    connected,  \* processes with an open display connection
    window,     \* wineWindows: hwnd -> its state, or Absent
    timers,     \* snapshots of the waiting JuiceReconnectSchedulePrune blocks: equal ones act alike
    images,     \* images made so far
    detaches,   \* broken connections so far
    owner       \* history: hwnd -> the process it belongs to

graceVars == <<process, connected, window, timers, images, detaches, owner>>

Image == 0..MaxImages        \* 0: no image
(* client: clientFD, here the process it is connected to, Absent for -1;
   pid: the associated peer PID. *)
State == [client : Processes \cup {Absent}, pid : Processes \cup {Absent},
          image : Image, frame : {1, 2}, visible : BOOLEAN, born : Image]
Before == [born : Image, image : Image, frame : {1, 2}, visible : BOOLEAN,
           pid : Processes \cup {Absent}]
Timer == UNION {[H -> Before] : H \in SUBSET Hwnds}   \* its snapshot

ASSUME StateAssumption == Absent \notin State

GraceInit ==
    /\ process = [p \in Processes |-> "running"]
    /\ connected = {}
    /\ window = [h \in Hwnds |-> Absent]
    /\ timers = {}
    /\ images = 0 /\ detaches = 0
    /\ owner = [h \in Hwnds |-> Absent]

Running(p) == process[p] = "running"

(* JuiceReconnectPeerAlive: kill(pid, 0). *)
PeerAlive(p) == p # Absent /\ process[p] # "gone"

-----------------------------------------------------------------------------
(* Wine's side. *)

Connect(p) ==
    /\ Running(p) /\ p \notin connected
    /\ connected' = connected \cup {p}
    /\ UNCHANGED <<process, window, timers, images, detaches, owner>>

(* A handle belongs to one process at a time. *)
MayUse(p, h) == p \in connected /\ owner[h] \notin {q \in Processes \ {p} : Running(q)}

(* A new WineWindowState is told from earlier ones of the handle by when it was made. *)
NewState == [client |-> Absent, pid |-> Absent, image |-> 0, frame |-> 1, visible |-> TRUE,
             born |-> images]

(* windowStateForHwnd:create:client: *)
StateFor(h, p) == [(IF window[h] = Absent THEN NewState ELSE window[h]) EXCEPT !.client = p]

UpdateWindow(p, h, frame, visible) ==
    /\ MayUse(p, h)
    /\ window' = [window EXCEPT ![h] = [StateFor(h, p) EXCEPT !.frame = frame,
                                                              !.visible = visible]]
    /\ owner' = [owner EXCEPT ![h] = p]
    /\ UNCHANGED <<process, connected, timers, images, detaches>>

(* JuiceReconnectPresentFrame, of a frame whose image can be made. *)
PresentFrame(p, h) ==
    /\ MayUse(p, h) /\ images < MaxImages
    /\ images' = images + 1
    /\ window' = [window EXCEPT ![h] = [StateFor(h, p) EXCEPT !.image = images', !.pid = p]]
    /\ owner' = [owner EXCEPT ![h] = p]
    /\ UNCHANGED <<process, connected, timers, detaches>>

DestroyWindow(p, h) ==
    /\ p \in connected /\ owner[h] = p
    /\ window' = [window EXCEPT ![h] = Absent]
    /\ owner' = [owner EXCEPT ![h] = Absent]
    /\ UNCHANGED <<process, connected, timers, images, detaches>>

(* The connection of a dead process breaks afterwards. *)
ProcessDies(p) ==
    /\ Running(p)
    /\ process' = [process EXCEPT ![p] = "gone"]
    /\ UNCHANGED <<connected, window, timers, images, detaches, owner>>

PidGivenOut(p) ==
    /\ process[p] = "gone"
    /\ process' = [process EXCEPT ![p] = "stranger"]
    /\ UNCHANGED <<connected, window, timers, images, detaches, owner>>

-----------------------------------------------------------------------------
Mine(p) == {h \in Hwnds : window[h] # Absent /\ window[h].client = p}

Snapshot(h) == [born |-> window[h].born, image |-> window[h].image,
                frame |-> window[h].frame, visible |-> window[h].visible,
                pid |-> window[h].pid]

(* JuiceReconnectRemoveWindows; without windows there is no timer. *)
RemoveWindows(p) ==
    /\ p \in connected /\ detaches < MaxDetaches
    /\ connected' = connected \ {p}
    /\ detaches' = detaches + 1
    /\ window' = [h \in Hwnds |-> IF h \in Mine(p)
                                  THEN [window[h] EXCEPT !.client = Absent]
                                  ELSE window[h]]
    /\ timers' = IF Mine(p) = {} THEN timers
                 ELSE timers \cup {[h \in Mine(p) |-> Snapshot(h)]}
    /\ UNCHANGED <<process, images, owner>>

UnchangedButAttached(h, before) ==   \* mutant: the descriptor is not compared
    /\ window[h] # Absent
    /\ Snapshot(h) = [before EXCEPT !.pid = window[h].pid]

(* JuiceReconnectUnchanged *)
Unchanged(h, before) ==
    /\ window[h] # Absent /\ window[h].client = Absent
    /\ Snapshot(h) = [before EXCEPT !.pid = window[h].pid]

Waiting(t) == {h \in DOMAIN t : Unchanged(h, t[h])}
AlivePeers(t) == {h \in Waiting(t) : PeerAlive(t[h].pid)}

RemoveAll(t) == Waiting(t)   \* mutant: the peer is not asked about

Removed(t) == Waiting(t) \ AlivePeers(t)

PruneOnce(t) ==   \* mutant: the grace is not extended
    /\ t \in timers
    /\ window' = [h \in Hwnds |-> IF h \in Removed(t) THEN Absent ELSE window[h]]
    /\ timers' = timers \ {t}
    /\ UNCHANGED <<process, connected, images, detaches, owner>>

(* JuiceReconnectSchedulePrune: again in three seconds while a peer is alive. *)
Prune(t) ==
    /\ t \in timers
    /\ window' = [h \in Hwnds |-> IF h \in Removed(t) THEN Absent ELSE window[h]]
    /\ timers' = IF AlivePeers(t) = {} THEN timers \ {t} ELSE timers
    /\ UNCHANGED <<process, connected, images, detaches, owner>>

Trimmed(s) == IF s # Absent /\ ~s.visible THEN [s EXCEPT !.image = 0] ELSE s

(* JuiceMemoryWarning *)
MemoryWarning ==
    /\ window' = [h \in Hwnds |-> Trimmed(window[h])]
    /\ UNCHANGED <<process, connected, timers, images, detaches, owner>>

-----------------------------------------------------------------------------
GraceNext ==
    \/ \E p \in Processes : \/ Connect(p) \/ ProcessDies(p) \/ PidGivenOut(p)
                            \/ RemoveWindows(p)
    \/ \E p \in Processes, h \in Hwnds :
          \/ PresentFrame(p, h) \/ DestroyWindow(p, h)
          \/ \E f \in {1, 2}, v \in BOOLEAN : UpdateWindow(p, h, f, v)
    \/ \E t \in timers : Prune(t)
    \/ MemoryWarning

GraceSpec == GraceInit /\ [][GraceNext]_graceVars

(* The main queue runs the timers, and a reader notices that its peer is gone. *)
GraceFairSpec ==
    /\ GraceSpec
    /\ WF_graceVars(\E t \in timers : Removed(t) # {} /\ Prune(t))
    /\ \A p \in Processes : WF_graceVars(~Running(p) /\ RemoveWindows(p))

-----------------------------------------------------------------------------
GraceTypeOK ==
    /\ process \in [Processes -> {"running", "gone", "stranger"}]
    /\ connected \subseteq Processes
    /\ window \in [Hwnds -> State \cup {Absent}]
    /\ timers \subseteq Timer
    /\ images \in Image /\ detaches \in 0..MaxDetaches
    /\ owner \in [Hwnds -> Processes \cup {Absent}]

Pruned(h) == window[h] # Absent /\ window'[h] = Absent /\ owner'[h] # Absent

(* "A real reconnect explicitly reclaims the state by assigning its current fd": the
   timer never removes a window that a connection has claimed again, whoever claims it
   and whatever images and geometry it has by then. *)
ClaimedWindowsSurvive ==
    [][\A h \in Hwnds : Pruned(h) => window[h].client = Absent]_graceVars

(* A window whose process is running outlives any number of broken connections, as long
   as it shows a frame of that process. *)
LiveWindowsSurvive ==
    [][\A h \in Hwnds :
          Pruned(h) /\ window[h].pid = owner[h] /\ window[h].image # 0
          => ~Running(owner[h])]_graceVars

Orphaned(h) ==
    /\ window[h] # Absent /\ window[h].client = Absent
    /\ owner[h] \notin {p \in Processes : Running(p)}

(* Its image has been given back to the system, or its pid to a stranger. *)
Unrecognizable(h) ==
    /\ window[h] # Absent /\ window[h].pid # Absent
    /\ window[h].image = 0 \/ process[window[h].pid] = "stranger"

(* "The geometry grace is extended only while the original Wine process is alive"
   (JuiceReconnectGrace.m:17-18): the detached window of a dead process is removed or
   claimed by another one, unless the timer cannot recognize it any more. *)
OrphansGo == \A h \in Hwnds : Orphaned(h) ~> ~Orphaned(h) \/ Unrecognizable(h)
=============================================================================
