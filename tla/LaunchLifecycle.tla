-------------------------- MODULE LaunchLifecycle ---------------------------
(***************************************************************************)
(* Ownership of the Wine processes Juice launches: who may signal them,    *)
(* who reaps them, and how the StikDebug handoff decides about a child     *)
(* that was spawned suspended.                                             *)
(*                                                                         *)
(* Source: app/JuiceLaunchHardening.m (launch, output reader),             *)
(* app/JuiceChildReaper.h (nonblocking reaper), app/main.m                 *)
(* (stopAllWineProcesses:, TerminateProcessGroup, resign-active),          *)
(* app/JuiceStikDebugJIT.m (session and its callbacks).                    *)
(*                                                                         *)
(* Concurrency.  Everything that touches the controller's child, server    *)
(* and launchGeneration runs on the main queue, one block at a time; a     *)
(* launch is a single main-queue turn that other threads, other processes  *)
(* and the kernel run beside, so it is split at `main` and no other        *)
(* main-queue action is enabled before it ends.  Off the main queue run    *)
(* the output readers, the one-second termination blocks ("fences") and    *)
(* the kernel, which hands a process identifier to somebody else as soon   *)
(* as its last owner has been reaped.                                      *)
(***************************************************************************)
EXTENDS Integers, JITState

CONSTANTS
    Pids,           \* process identifiers the kernel recycles
    None,           \* the code's -1 / nil
    LaunchKinds,    \* "plain" and, if StikDebug can be selected, "suspended"
    MaxGeneration   \* bound on launchGeneration (a 64-bit counter in the code)

ASSUME NoneAssumption == None \notin Pids /\ None \notin Int
ASSUME LaunchKindsAssumption == LaunchKinds \subseteq {"plain", "suspended"}
ASSUME MaxGenerationAssumption == MaxGeneration \in Nat

Generations == 1..MaxGeneration

VARIABLES
    main,               \* where the main-queue turn of a launch stands
    launchGeneration,   \* bumped by every Stop and by every adopted child
    child, server,      \* process-group leaders the controller owns
    childInput,         \* the launch whose stdin pipe is open
    fences,             \* scheduled blocks of TerminateProcessGroup
    pidOf,              \* child pid captured by the blocks of a launch
    reader,             \* output reader, then reaper poll, of a launch
    ack,                \* the runtime's marker line of a launch
    session,            \* the launch whose JuiceJITSession is associated
    jit,                \* JuiceJITSession and JuiceJITState of a launch
    openURL,            \* completion handler of openURL: of a launch
    expiry,             \* queued block of the background-task expiration
    foreground,         \* applicationState == UIApplicationStateActive
    proc,               \* kernel: the process behind each pid
    debugged,           \* kernel: CS_DEBUGGED of the child of a launch
    stray               \* history: calls that hit somebody else's process

ownerVars  == <<launchGeneration, child, server, childInput, fences, stray>>
readerVars == <<pidOf, reader, ack>>
jitVars    == <<session, jit>>
handoffVars == <<openURL, expiry, debugged>>
vars == <<main, ownerVars, readerVars, jitVars, handoffVars, foreground, proc>>

-----------------------------------------------------------------------------
(* A process: what the kernel knows (st) and which launch it belongs to. *)
Roles == {"none", "child", "server", "foreign"}
Process == [st : {"free", "suspended", "running", "killed", "zombie"},
            role : Roles, gen : 0..MaxGeneration]
FreeProcess == [st |-> "free", role |-> "none", gen |-> 0]
ForeignProcess == [st |-> "running", role |-> "foreign", gen |-> 0]
Spawned(role, gen, st) == [st |-> st, role |-> role, gen |-> gen]

FreePids == {p \in Pids : proc[p].st = "free"}
Is(p, role, gen) == proc[p].role = role /\ proc[p].gen = gen

(* waitpid succeeds only for children of this application. *)
OurChild(p) == proc[p].role \in {"child", "server"}

Fence == [pid : Pids, role : Roles, gen : 0..MaxGeneration, killed : BOOLEAN]

Session == [phase : Phases \cup {"none"}, runtimeAcknowledged : BOOLEAN,
            expired : BOOLEAN, armed : BOOLEAN]
NoSession == [phase |-> "none", runtimeAcknowledged |-> FALSE,
              expired |-> FALSE, armed |-> FALSE]
NewSession == [NoSession EXCEPT !.phase = "Opening"]

Init ==
    /\ main = "idle" /\ launchGeneration = 0 /\ foreground = TRUE
    /\ child = None /\ server = None /\ childInput = None
    /\ fences = {} /\ stray = {}
    /\ pidOf = [g \in Generations |-> None]
    /\ reader = [g \in Generations |-> "none"]
    /\ ack = [g \in Generations |-> "none"]
    /\ session = None
    /\ jit = [g \in Generations |-> NoSession]
    /\ openURL = [g \in Generations |-> "none"]
    /\ expiry = [g \in Generations |-> FALSE]
    /\ debugged = [g \in Generations |-> FALSE]
    /\ proc = [p \in Pids |-> FreeProcess]

-----------------------------------------------------------------------------
(* -stopAllWineProcesses: and TerminateProcessGroup.  SIGTERM is sent now; a
   block that sends SIGKILL and then reaps is scheduled for each owned leader.
   SIGTERM itself does not end a process here: Exit may follow at any time, and
   a suspended process does not react to it.  The bounded `wineserver -k` helper
   is spawned and reaped inside the turn and may make the others exit (Exit). *)
Owned == {child, server} \ {None}

StopFences ==
    {[pid |-> p, role |-> proc[p].role, gen |-> proc[p].gen, killed |-> FALSE] :
        p \in Owned}

StopMisses ==
    \/ child # None /\ ~Is(child, "child", launchGeneration)
    \/ server # None /\ proc[server].role # "server"

StopAllWineProcesses ==
    /\ launchGeneration < MaxGeneration
    /\ launchGeneration' = launchGeneration + 1
    /\ childInput' = None
    /\ child' = None
    /\ server' = None
    /\ fences' = fences \cup StopFences
    /\ stray' = stray \cup {s \in {"SIGTERM"} : StopMisses}

(* JuiceJITOwnsChild *)
OwnsChild(g) ==
    session = g /\ pidOf[g] # None /\ child = pidOf[g] /\ launchGeneration = g

(* JuiceJITDispose drops the last strong reference: timer, background task and
   the object are gone, the weak references of its blocks are nil.  Only the
   final phase is kept, which is what makes those blocks no-ops. *)
Disposed(s) == [NoSession EXCEPT !.phase = s.phase]

Transition(g, event) ==
    JITTransition(jit[g], event, jit[g].expired, OwnsChild(g), foreground)

(* Cancel event followed by JuiceJITDispose, as in JuiceJITHardenedStop and
   JuiceJITWillReap. *)
CancelSession(g) ==
    /\ jit' = [jit EXCEPT ![g] = Disposed(Transition(g, "Cancel").state)]
    /\ session' = None

CancelAnySession ==
    \/ session = None /\ UNCHANGED jitVars
    \/ session # None /\ CancelSession(session)

SuppressedForAnyChild(reason) ==   \* mutant: the handoff is not looked at
    reason = "application-will-resign-active" /\ child # None

(* JuiceJITHardenedStop: the only suppressed Stop is resign-active during a
   pending handoff that still owns its child and is inside its deadline. *)
Suppressed(reason) ==
    /\ reason = "application-will-resign-active"
    /\ session # None
    /\ OwnsChild(session) /\ JITPending(jit[session]) /\ ~jit[session].expired

HardenedStop(reason) ==
    \/ Suppressed(reason) /\ UNCHANGED <<ownerVars, jitVars>>
    \/ ~Suppressed(reason) /\ CancelAnySession /\ StopAllWineProcesses

(* JuiceJITEventReceived, after the transition has produced r: SIGCONT, whose
   failure is a Stop; disposal of a finished session; Stop of an owned child. *)
SigcontFails(g) == {FALSE} \cup {f \in {TRUE} : proc[pidOf[g]].st = "zombie"}

Continued(p) ==
    [proc EXCEPT ![p].st = IF @ = "suspended" THEN "running" ELSE @]

Finish(g, state, stop) ==
    /\ jit' = [jit EXCEPT ![g] = IF JITPending(state) THEN state ELSE Disposed(state)]
    /\ session' = IF session = g /\ ~JITPending(state) THEN None ELSE session
    /\ \/ stop /\ OwnsChild(g) /\ StopAllWineProcesses
       \/ ~(stop /\ OwnsChild(g)) /\ UNCHANGED <<launchGeneration, child, server,
                                                childInput, fences, stray>>

JITEventReceived(g, r) ==
    \/ /\ r.action # "Resume"
       /\ Finish(g, r.state, r.action = "Stop")
       /\ UNCHANGED proc
    \/ /\ r.action = "Resume"
       /\ \E failed \in SigcontFails(g) :
             \/ /\ failed
                /\ Finish(g, [r.state EXCEPT !.phase = "Failed"], TRUE)
                /\ UNCHANGED proc
             \/ /\ ~failed
                /\ jit' = [jit EXCEPT ![g] = r.state]
                /\ proc' = Continued(pidOf[g])
                /\ stray' = stray \cup
                      {s \in {"SIGCONT"} : ~Is(pidOf[g], "child", g)}
                /\ UNCHANGED <<session, launchGeneration, child, server,
                               childInput, fences>>

-----------------------------------------------------------------------------
(* JuiceHardenedLaunch: one main-queue turn, split where other actors can run. *)

(* The bound: a launch starts only if its own Stop still has a generation. *)
LaunchTapped ==
    /\ main = "idle" /\ foreground
    /\ launchGeneration + 3 <= MaxGeneration
    /\ HardenedStop("new-launch")
    /\ main' = "prepare"
    /\ UNCHANGED <<readerVars, handoffVars, foreground, proc>>

(* Every early return before a server process exists. *)
LaunchReject ==
    /\ main = "prepare"
    /\ main' = "idle"
    /\ server' = None
    /\ UNCHANGED <<launchGeneration, child, childInput, fences, stray, readerVars,
                   jitVars, handoffVars, foreground, proc>>

SpawnServer ==
    /\ main = "prepare" /\ launchGeneration < MaxGeneration
    /\ \E p \in FreePids :
          /\ proc' = [proc EXCEPT ![p] =
                        Spawned("server", launchGeneration + 1, "running")]
          /\ server' = p
    /\ main' = "spawn"
    /\ UNCHANGED <<launchGeneration, child, childInput, fences, stray, readerVars,
                   jitVars, handoffVars, foreground>>

(* Pipes, arguments or the spawn of the child failed. *)
LaunchFailAfterServer ==
    /\ main = "spawn"
    /\ HardenedStop("launch-setup-failed")
    /\ main' = "idle"
    /\ UNCHANGED <<readerVars, handoffVars, foreground, proc>>

AdoptChild(p, g, st) ==
    /\ proc' = [proc EXCEPT ![p] = Spawned("child", g, st)]
    /\ child' = p
    /\ childInput' = g
    /\ launchGeneration' = g
    /\ pidOf' = [pidOf EXCEPT ![g] = p]
    /\ reader' = [reader EXCEPT ![g] = "reading"]
    /\ UNCHANGED <<server, fences, stray, ack, handoffVars, foreground>>

(* JuiceSpawnForLaunch without StikDebug is a plain posix_spawn. *)
LaunchPlain ==
    /\ main = "spawn" /\ launchGeneration < MaxGeneration
    /\ "plain" \in LaunchKinds
    /\ \E p \in FreePids : AdoptChild(p, launchGeneration + 1, "running")
    /\ main' = "idle"
    /\ UNCHANGED jitVars

(* With StikDebug: refused if a session is still associated (EINVAL, a failed
   spawn); otherwise the child starts suspended under a new session. *)
LaunchSuspended ==
    /\ main = "spawn" /\ launchGeneration < MaxGeneration
    /\ "suspended" \in LaunchKinds /\ session = None
    /\ \E p \in FreePids : AdoptChild(p, launchGeneration + 1, "suspended")
    /\ session' = launchGeneration + 1
    /\ jit' = [jit EXCEPT ![launchGeneration + 1] = NewSession]
    /\ main' = "adopt"

AdoptLaunchUnguarded ==   \* mutant: a failed setup returns without an event
    /\ main = "adopt" /\ session # None
    /\ main' = "idle"
    /\ \/ /\ jit' = [jit EXCEPT ![session].armed = TRUE]
          /\ openURL' = [openURL EXCEPT ![session] = "waiting"]
       \/ UNCHANGED <<jit, openURL>>
    /\ UNCHANGED <<ownerVars, session, proc, readerVars, expiry, debugged, foreground>>

(* JuiceJITAdoptLaunch: background task and timer, then openURL:; without URL,
   task or timer the handoff is rejected at once. *)
AdoptLaunch ==
    /\ main = "adopt" /\ session # None
    /\ main' = "idle"
    /\ \/ /\ jit' = [jit EXCEPT ![session].armed = TRUE]
          /\ openURL' = [openURL EXCEPT ![session] = "waiting"]
          /\ UNCHANGED <<ownerVars, session, proc>>
       \/ /\ JITEventReceived(session, Transition(session, "OpenRejected"))
          /\ UNCHANGED openURL
    /\ UNCHANGED <<readerVars, expiry, debugged, foreground>>

-----------------------------------------------------------------------------
(* Other main-queue blocks. *)

(* stopTapped and UIApplicationWillTerminateNotification *)
StopTapped ==
    /\ main = "idle"
    /\ HardenedStop("user-stop")
    /\ UNCHANGED <<main, readerVars, handoffVars, foreground, proc>>

ApplicationWillResignActive ==
    /\ main = "idle" /\ foreground
    /\ HardenedStop("application-will-resign-active")
    /\ foreground' = FALSE
    /\ UNCHANGED <<main, readerVars, handoffVars, proc>>

DidBecomeActive ==
    /\ main = "idle" /\ ~foreground
    /\ foreground' = TRUE
    /\ UNCHANGED <<main, ownerVars, readerVars, jitVars, handoffVars, proc>>

(* The 100 ms timer: Tick, then Debugged if the session still owns a pending
   child that csops reports as debugged.  At most one of the two can Resume. *)
TimerResult(g) ==
    LET tick == Transition(g, "Tick")
        seen == JITTransition(tick.state, "Debugged", jit[g].expired,
                              OwnsChild(g), foreground)
    IN  IF /\ OwnsChild(g) /\ JITPending(tick.state)
           /\ debugged[g] /\ proc[pidOf[g]].st # "zombie"
        THEN Outcome(seen.state,
                     IF tick.action = "Resume" THEN "Resume" ELSE seen.action)
        ELSE tick

TimerFires(g) ==
    /\ main = "idle" /\ jit[g].armed
    /\ JITEventReceived(g, TimerResult(g))
    /\ UNCHANGED <<main, readerVars, handoffVars, foreground>>

(* openURL:'s completion, dispatched to the main queue.  The block holds the
   session weakly; a session that is gone has a terminal phase here and the
   event changes nothing. *)
OpenURLCompleted(g, success) ==
    /\ main = "idle" /\ openURL[g] = "waiting"
    /\ openURL' = [openURL EXCEPT ![g] = IF success THEN "accepted" ELSE "rejected"]
    /\ JITEventReceived(g, Transition(g, IF success THEN "OpenAccepted"
                                                   ELSE "OpenRejected"))
    /\ UNCHANGED <<main, readerVars, expiry, debugged, foreground>>

(* The block queued by the background task's expiration handler. *)
BackgroundTaskExpired(g) ==
    /\ main = "idle" /\ expiry[g]
    /\ expiry' = [expiry EXCEPT ![g] = FALSE]
    /\ JITEventReceived(g, Transition(g, "OpenRejected"))
    /\ UNCHANGED <<main, readerVars, openURL, debugged, foreground>>

(* JuiceJITObserveOutput's block for the line that completes the marker. *)
ObserveOutput(g) ==
    /\ main = "idle" /\ ack[g] = "queued"
    /\ ack' = [ack EXCEPT ![g] = "delivered"]
    /\ \/ /\ session = g /\ OwnsChild(g) /\ JITPending(jit[g])
          /\ JITEventReceived(g, Transition(g, "RuntimeAck"))
       \/ /\ ~(session = g /\ OwnsChild(g) /\ JITPending(jit[g]))
          /\ UNCHANGED <<ownerVars, jitVars, proc>>
    /\ UNCHANGED <<main, pidOf, reader, handoffVars, foreground>>

(* JuicePollCurrentChild for the launch g; queued behind the blocks of g's
   reader.  A poll that finds the child running re-dispatches itself. *)
PollEnabled(g) == main = "idle" /\ reader[g] = "polling" /\ ack[g] # "queued"

(* A block that does not re-dispatch itself releases the pid it captured. *)
PollEnds(g) ==
    /\ reader' = [reader EXCEPT ![g] = "done"]
    /\ pidOf' = [pidOf EXCEPT ![g] = None]

PollOneShot(g) ==   \* mutant: a child still running is not polled again
    /\ PollEnabled(g)
    /\ launchGeneration # g \/ proc[pidOf[g]].st # "zombie"
    /\ PollEnds(g)
    /\ UNCHANGED <<main, ownerVars, ack, jitVars, handoffVars, foreground, proc>>

(* A stale owner leaves the child to the termination path. *)
PollStale(g) ==
    /\ PollEnabled(g) /\ launchGeneration # g
    /\ PollEnds(g)
    /\ UNCHANGED <<main, ownerVars, ack, jitVars, handoffVars,
                   foreground, proc>>

PollReapsUnchecked(g) ==   \* mutant: reaps without the isCurrent check
    LET p == pidOf[g] IN
    /\ PollEnabled(g)
    /\ OurChild(p) => proc[p].st = "zombie"
    /\ proc' = [proc EXCEPT ![p] = IF OurChild(p) THEN FreeProcess ELSE @]
    /\ \/ session = g /\ CancelSession(g)
       \/ session # g /\ UNCHANGED jitVars
    /\ child' = IF child = p THEN None ELSE child
    /\ childInput' = IF childInput = g THEN None ELSE childInput
    /\ PollEnds(g)
    /\ UNCHANGED <<main, launchGeneration, server, fences, stray, ack, handoffVars,
                   foreground>>

(* waitpid(WNOHANG) returned the child or ECHILD: the `finished` block. *)
PollReaps(g) ==
    LET p == pidOf[g] IN
    /\ PollEnabled(g) /\ launchGeneration = g
    /\ OurChild(p) => proc[p].st = "zombie"
    /\ proc' = [proc EXCEPT ![p] = IF OurChild(p) THEN FreeProcess ELSE @]
    /\ stray' = stray \cup {s \in {"waitpid"} : ~Is(p, "child", g)}
    /\ \/ session = g /\ CancelSession(g)
       \/ session # g /\ UNCHANGED jitVars
    /\ child' = IF child = p THEN None ELSE child
    /\ childInput' = IF childInput = g THEN None ELSE childInput
    /\ PollEnds(g)
    /\ UNCHANGED <<main, launchGeneration, server, fences, ack, handoffVars,
                   foreground>>

-----------------------------------------------------------------------------
(* The delayed block of TerminateProcessGroup, on a utility queue. *)

KilledUnlessSuspended(p) ==   \* mutant: a signal a stopped process ignores
    [proc EXCEPT ![p].st = IF @ = "running" THEN "killed" ELSE @]

Killed(p) ==
    [proc EXCEPT ![p].st = IF @ \in {"suspended", "running"} THEN "killed" ELSE @]

FenceKills(f) ==
    /\ ~f.killed
    /\ fences' = (fences \ {f}) \cup {[f EXCEPT !.killed = TRUE]}
    /\ proc' = Killed(f.pid)
    /\ stray' = stray \cup {s \in {"SIGKILL"} : ~Is(f.pid, f.role, f.gen)}
    /\ UNCHANGED <<main, launchGeneration, child, server, childInput, readerVars,
                   jitVars, handoffVars, foreground>>

FenceReapsOnce(f) ==   \* mutant: a one-shot WNOHANG after SIGKILL
    LET dead == OurChild(f.pid) /\ proc[f.pid].st = "zombie" IN
    /\ f.killed
    /\ proc' = [proc EXCEPT ![f.pid] = IF dead THEN FreeProcess ELSE @]
    /\ fences' = fences \ {f}
    /\ UNCHANGED <<main, launchGeneration, child, server, childInput, stray,
                   readerVars, jitVars, handoffVars, foreground>>

(* Blocking waitpid: returns with the zombie, or with ECHILD. *)
FenceReaps(f) ==
    /\ f.killed
    /\ OurChild(f.pid) => proc[f.pid].st = "zombie"
    /\ proc' = [proc EXCEPT ![f.pid] = IF OurChild(f.pid) THEN FreeProcess ELSE @]
    /\ fences' = fences \ {f}
    /\ stray' = stray \cup {s \in {"waitpid"} : ~Is(f.pid, f.role, f.gen)}
    /\ UNCHANGED <<main, launchGeneration, child, server, childInput, readerVars,
                   jitVars, handoffVars, foreground>>

-----------------------------------------------------------------------------
(* The output reader thread of launch g. *)

(* The running child prints its marker, the reader posts the block. *)
RuntimeReports(g) ==
    /\ reader[g] = "reading" /\ ack[g] = "none" /\ jit[g].phase # "none"
    /\ \E p \in Pids : Is(p, "child", g) /\ proc[p].st = "running"
    /\ ack' = [ack EXCEPT ![g] = "queued"]
    /\ UNCHANGED <<main, ownerVars, pidOf, reader, jitVars, handoffVars,
                   foreground, proc>>

(* End of file: the pipe's writers are gone, or closed their output. *)
ReaderEnds(g) ==
    /\ reader[g] = "reading"
    /\ \A p \in Pids : Is(p, "child", g) => proc[p].st # "suspended"
    /\ reader' = [reader EXCEPT ![g] = "polling"]
    /\ UNCHANGED <<main, ownerVars, pidOf, ack, jitVars, handoffVars,
                   foreground, proc>>

-----------------------------------------------------------------------------
(* Outside the application: kernel, clock, UIKit, the external debugger. *)

Exit(p) ==
    /\ proc[p].st \in {"suspended", "running", "killed"}
    /\ proc' = [proc EXCEPT ![p] =
                  IF OurChild(p) THEN [@ EXCEPT !.st = "zombie"] ELSE FreeProcess]
    /\ UNCHANGED <<main, ownerVars, readerVars, jitVars, handoffVars, foreground>>

ForeignSpawn(p) ==
    /\ proc[p].st = "free"
    /\ proc' = [proc EXCEPT ![p] = ForeignProcess]
    /\ UNCHANGED <<main, ownerVars, readerVars, jitVars, handoffVars, foreground>>

DebuggerAttaches(g) ==
    /\ openURL[g] # "none" /\ ~debugged[g] /\ JITPending(jit[g])
    /\ \E p \in Pids : Is(p, "child", g) /\ proc[p].st \in {"suspended", "running"}
    /\ debugged' = [debugged EXCEPT ![g] = TRUE]
    /\ UNCHANGED <<main, ownerVars, readerVars, jitVars, openURL, expiry,
                   foreground, proc>>

DebuggerResumes(p) ==
    /\ proc[p].st = "suspended" /\ debugged[proc[p].gen]
    /\ proc' = Continued(p)
    /\ UNCHANGED <<main, ownerVars, readerVars, jitVars, handoffVars, foreground>>

DeadlinePasses(g) ==
    /\ JITPending(jit[g]) /\ ~jit[g].expired
    /\ jit' = [jit EXCEPT ![g].expired = TRUE]
    /\ UNCHANGED <<main, ownerVars, readerVars, session, handoffVars, foreground, proc>>

BackgroundTimeRunsOut(g) ==
    /\ ~foreground /\ jit[g].armed /\ ~expiry[g]
    /\ expiry' = [expiry EXCEPT ![g] = TRUE]
    /\ UNCHANGED <<main, ownerVars, readerVars, jitVars, openURL, debugged,
                   foreground, proc>>

-----------------------------------------------------------------------------
LaunchTurn == \/ LaunchReject \/ SpawnServer \/ LaunchFailAfterServer
              \/ LaunchPlain \/ LaunchSuspended \/ AdoptLaunch

UserActs == \/ LaunchTapped \/ StopTapped
            \/ ApplicationWillResignActive \/ DidBecomeActive

SessionBlock(g) == \/ TimerFires(g)
                   \/ \E success \in BOOLEAN : OpenURLCompleted(g, success)
                   \/ BackgroundTaskExpired(g)
                   \/ ObserveOutput(g)

Poll(g) == PollStale(g) \/ PollReaps(g)

FenceBlock(f) == FenceKills(f) \/ FenceReaps(f)

Reader(g) == RuntimeReports(g) \/ ReaderEnds(g)

Environment ==
    \/ \E p \in Pids : Exit(p) \/ ForeignSpawn(p) \/ DebuggerResumes(p)
    \/ \E g \in Generations : \/ DebuggerAttaches(g) \/ DeadlinePasses(g)
                              \/ BackgroundTimeRunsOut(g)

Next == \/ LaunchTurn
        \/ UserActs
        \/ \E g \in Generations : SessionBlock(g) \/ Poll(g) \/ Reader(g)
        \/ \E f \in fences : FenceBlock(f)
        \/ Environment

Spec == Init /\ [][Next]_vars

(* Fairness: the main queue keeps running blocks, dispatch_after blocks run, a
   process sent SIGKILL exits, time passes, and the reader of a dead child sees
   end of file (no descendant keeps the pipe open).  Nothing is assumed about
   the user, the debugger, openURL:'s completion or a healthy child. *)
Fairness ==
    /\ WF_vars(LaunchTurn)
    /\ \A g \in Generations :
          /\ WF_vars(TimerFires(g)) /\ WF_vars(ObserveOutput(g))
          /\ WF_vars(Poll(g)) /\ WF_vars(DeadlinePasses(g))
          /\ WF_vars(/\ ReaderEnds(g)
                     /\ \A p \in Pids : Is(p, "child", g) => proc[p].st = "zombie")
    /\ \A p \in Pids :
          /\ WF_vars(proc[p].st = "killed" /\ Exit(p))
          /\ WF_vars(\E f \in fences : f.pid = p /\ FenceBlock(f))

FairSpec == Spec /\ Fairness

-----------------------------------------------------------------------------
TypeOK ==
    /\ main \in {"idle", "prepare", "spawn", "adopt"}
    /\ launchGeneration \in 0..MaxGeneration
    /\ child \in Pids \cup {None} /\ server \in Pids \cup {None}
    /\ childInput \in Generations \cup {None}
    /\ fences \subseteq Fence
    /\ pidOf \in [Generations -> Pids \cup {None}]
    /\ reader \in [Generations -> {"none", "reading", "polling", "done"}]
    /\ ack \in [Generations -> {"none", "queued", "delivered"}]
    /\ session \in Generations \cup {None}
    /\ jit \in [Generations -> Session]
    /\ openURL \in [Generations -> {"none", "waiting", "accepted", "rejected"}]
    /\ expiry \in [Generations -> BOOLEAN]
    /\ debugged \in [Generations -> BOOLEAN]
    /\ foreground \in BOOLEAN
    /\ proc \in [Pids -> Process]
    /\ stray \subseteq {"SIGTERM", "SIGKILL", "SIGCONT", "waitpid"}

(* No SIGTERM, SIGKILL, SIGCONT or waitpid ever names a process other than the
   one it was issued for, although the kernel recycles pids and the kill comes
   a second after the Stop that ordered it (JuiceChildReaper.h:7-10). *)
NoStraySignal == stray = {}

(* "Keep the PID reserved until the kill fence ends" (main.m:73-75): while a
   termination block is scheduled its leader is unreaped, no other block and
   neither owner variable names the same pid. *)
FencesReservePids ==
    /\ \A f \in fences : /\ proc[f.pid].st # "free" /\ OurChild(f.pid)
                          /\ Is(f.pid, f.role, f.gen)
                          /\ f.pid \notin Owned
    /\ \A f1, f2 \in fences : f1.pid = f2.pid => f1 = f2

(* Every unreaped process of ours has a party that will signal or reap it: an
   owner variable, or a scheduled fence (never both, by FencesReservePids).
   main.m:73-75: the fence is "the sole reaper after Stop". *)
EveryProcessHasAnOwner ==
    \A p \in Pids : OurChild(p) => p \in Owned \/ \E f \in fences : f.pid = p

(* The parts that make the three invariants above inductive: what the owner
   variables name, what a launch turn may still own, and which child the poll of
   the current launch waits for. *)
OwnersNameTheirProcess ==
    /\ child # None => Is(child, "child", launchGeneration)
    /\ server # None => proc[server].role = "server"

LaunchTurnOwnsNoChild ==
    /\ main \in {"prepare", "spawn"} => child = None
    /\ main = "prepare" => server = None

CurrentPollNamesChild ==
    \A g \in Generations :
        /\ reader[g] # "none" => g <= launchGeneration
        /\ reader[g] \in {"reading", "polling"} /\ g = launchGeneration =>
              child # None /\ child = pidOf[g]

FreeHasNoRole == \A p \in Pids : proc[p].st = "free" <=> proc[p].role = "none"

Ownership ==
    /\ NoStraySignal /\ FencesReservePids /\ EveryProcessHasAnOwner
    /\ OwnersNameTheirProcess /\ LaunchTurnOwnsNoChild
    /\ CurrentPollNamesChild /\ FreeHasNoRole

(* Readiness takes all three observations of the session's own launch: URL
   accepted, debugger seen, nonce-matched acknowledgement
   (JuiceJITState.h:49-52), in whatever order they arrived. *)
ReadyNeedsAllThree ==
    \A g \in Generations : jit[g].phase = "Ready" =>
        openURL[g] = "accepted" /\ debugged[g] /\ ack[g] = "delivered"

(* "Do not leave an externally suspended child without cleanup time"
   (JuiceStikDebugJIT.m:364): between main-queue turns a suspended child has a
   termination fence, or a pending session with its timer and background task. *)
SuspendedChildIsGuarded ==
    main = "idle" =>
      \A p \in Pids : proc[p].st = "suspended" =>
        \/ \E f \in fences : f.pid = p
        \/ /\ session # None /\ child = p /\ pidOf[session] = p
           /\ JITPending(jit[session]) /\ jit[session].armed

(* In the background the application keeps a child only for the one pending
   handoff it left the foreground for (JuiceStikDebugJIT.m:283-289). *)
BackgroundKeepsOnlyHandoff ==
    main = "idle" /\ ~foreground /\ child # None =>
        session # None /\ OwnsChild(session) /\ JITPending(jit[session])

(* The deadline bounds every handoff: a pending session always ends
   (JuiceStikDebugJIT.m:336, STIKDEBUG-LIFECYCLE.md:33-38). *)
HandoffEnds ==
    \A g \in Generations : JITPending(jit[g]) ~> ~JITPending(jit[g])

(* "then actually reap it" (main.m:74-78): whichever of the poll and the fence
   is responsible when a child of ours dies, it is reaped in the end, also when
   Stop moves the responsibility from one to the other. *)
DeadChildIsReaped ==
    \A g \in Generations :
        (\E p \in Pids : Is(p, "child", g) /\ proc[p].st = "zombie")
            ~> ~(\E p \in Pids : Is(p, "child", g))

(* Stop ends every process it was responsible for, suspended ones too. *)
StoppedProcessIsGone ==
    \A p \in Pids : (\E f \in fences : f.pid = p) ~> ~(\E f \in fences : f.pid = p)
=============================================================================
