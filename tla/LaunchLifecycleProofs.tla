----------------------- MODULE LaunchLifecycleProofs ------------------------
(***************************************************************************)
(* Proofs about LaunchLifecycle for every set of pids, every bound on the  *)
(* generation counter and every choice of launch kinds.                    *)
(***************************************************************************)
EXTENDS LaunchLifecycle, TLAPS

(* The state the ownership invariant reads. *)
coreVars == <<main, launchGeneration, child, server, fences, stray,
              pidOf, reader, proc>>

-----------------------------------------------------------------------------
(* The transition of JuiceJITState.h keeps a session record a session record,
   and orders SIGCONT or Stop only for a session that owns its child. *)
LEMMA TransitionTyped ==
    ASSUME NEW s \in Session, NEW e, NEW late \in BOOLEAN, NEW owns \in BOOLEAN,
           NEW fg \in BOOLEAN
    PROVE  /\ JITTransition(s, e, late, owns, fg).state \in Session
           /\ JITTransition(s, e, late, owns, fg).action # "NoAction" => owns
<1>1. Observe(s, e) \in Session
  <2>1. ObservedPhase(s.phase, e) \in Phases \cup {"none"}
    BY DEF ObservedPhase, Session, Phases, PendingPhases, TerminalPhases
  <2>2. QED
    BY <2>1 DEF Observe, Session
<1>2. ASSUME NEW t \in Session
      PROVE  Advance(t, fg).state \in Session
  BY DEF Advance, Outcome, Session, Phases, PendingPhases, TerminalPhases
<1>3. JITTransition(s, e, late, owns, fg).state \in Session
  BY <1>1, <1>2 DEF JITTransition, Outcome, Session, Phases, PendingPhases,
                    TerminalPhases
<1>4. JITTransition(s, e, late, owns, fg).action # "NoAction" => owns
  BY DEF JITTransition, Outcome
<1>5. QED
  BY <1>3, <1>4

(* The timer handler runs two transitions; together they obey the same rule. *)
LEMMA TimerTyped ==
    ASSUME TypeOK, NEW g \in Generations
    PROVE  /\ TimerResult(g).state \in Session
           /\ TimerResult(g).action # "NoAction" => OwnsChild(g)
<1> DEFINE tick == Transition(g, "Tick")
           seen == JITTransition(tick.state, "Debugged", jit[g].expired,
                                 OwnsChild(g), foreground)
<1>1. /\ jit[g] \in Session /\ jit[g].expired \in BOOLEAN
      /\ foreground \in BOOLEAN /\ OwnsChild(g) \in BOOLEAN
  BY DEF TypeOK, Session, OwnsChild
<1>2. tick.state \in Session /\ (tick.action # "NoAction" => OwnsChild(g))
  BY <1>1, TransitionTyped DEF Transition
<1>3. seen.state \in Session /\ (seen.action # "NoAction" => OwnsChild(g))
  <2> HIDE DEF tick
  <2>1. QED
    BY <1>1, <1>2, TransitionTyped
<1>4. \/ TimerResult(g) = tick
      \/ /\ OwnsChild(g)
         /\ TimerResult(g).state = seen.state
  BY DEF TimerResult, Outcome
<1>5. QED
  BY <1>2, <1>3, <1>4

(* Delivery of one event: the core is untouched, or Stop runs, or the child the
   controller owns is continued. *)
LEMMA EventOnCore ==
    ASSUME NEW g \in Generations, NEW r, JITEventReceived(g, r),
           r.action # "NoAction" => OwnsChild(g)
    PROVE  \/ UNCHANGED <<launchGeneration, child, server, fences, stray, proc>>
           \/ StopAllWineProcesses /\ UNCHANGED proc
           \/ /\ OwnsChild(g)
              /\ proc' = Continued(pidOf[g])
              /\ stray' = stray \cup {s \in {"SIGCONT"} : ~Is(pidOf[g], "child", g)}
              /\ UNCHANGED <<launchGeneration, child, server, fences>>
BY DEF JITEventReceived, Finish

-----------------------------------------------------------------------------
LEMMA CoreUnchanged == Ownership /\ UNCHANGED coreVars => Ownership'
BY DEF Ownership, coreVars, NoStraySignal, FencesReservePids, EveryProcessHasAnOwner,
       OwnersNameTheirProcess, LaunchTurnOwnsNoChild, CurrentPollNamesChild,
       FreeHasNoRole, Is, Owned, OurChild

(* Stop hands both leaders to fences in the turn in which it forgets them. *)
LEMMA StopPreserves ==
    ASSUME TypeOK, Ownership, StopAllWineProcesses, UNCHANGED <<proc, pidOf, reader>>
    PROVE  Ownership'
<1> USE DEF Ownership, TypeOK, StopAllWineProcesses, Is
<1>1. ~StopMisses
  BY DEF StopMisses, OwnersNameTheirProcess
<1>2. NoStraySignal'
  BY <1>1 DEF NoStraySignal
<1>3. \A p \in Owned : /\ p \in Pids
                       /\ proc[p].st # "free" /\ OurChild(p)
                       /\ \A f \in fences : f.pid # p
  BY DEF Owned, OwnersNameTheirProcess, FreeHasNoRole, FencesReservePids, OurChild
<1> DEFINE FenceOf(p) == [pid |-> p, role |-> proc[p].role,
                          gen |-> proc[p].gen, killed |-> FALSE]
<1>a. fences' = fences \cup {FenceOf(p) : p \in Owned}
  BY DEF StopFences
<1>b. /\ proc' = proc /\ Owned' = {}
  BY DEF Owned
<1>4. FencesReservePids'
  <2>1. \A f \in fences' : f \in fences \/ (\E p \in Owned : f = FenceOf(p))
    BY <1>a
  <2>2. ASSUME NEW f \in fences'
        PROVE  /\ proc[f.pid].st # "free" /\ Is(f.pid, f.role, f.gen)
               /\ f.pid \notin Owned' /\ OurChild(f.pid)
    <3>1. CASE f \in fences
      BY <3>1, <1>b DEF FencesReservePids
    <3>2. CASE \E p \in Owned : f = FenceOf(p)
      BY <3>2, <1>3, <1>b
    <3>3. QED
      BY <2>1, <3>1, <3>2
  <2>3. ASSUME NEW f1 \in fences', NEW f2 \in fences', f1.pid = f2.pid
        PROVE  f1 = f2
    <3> HIDE DEF TypeOK, StopAllWineProcesses, Is
    <3>1. CASE f1 \in fences /\ f2 \in fences
      BY <3>1, <2>3 DEF FencesReservePids
    <3>2. ASSUME NEW p \in Owned, f1 = FenceOf(p)
          PROVE  f1 = f2
      <4>1. f2 \notin fences
        BY <3>2, <2>3, <1>3
      <4>2. PICK q \in Owned : f2 = FenceOf(q)
        BY <2>1, <4>1
      <4>3. QED
        BY <3>2, <4>2, <2>3
    <3>3. ASSUME NEW p \in Owned, f2 = FenceOf(p)
          PROVE  f1 = f2
      <4>1. f1 \notin fences
        BY <3>3, <2>3, <1>3
      <4>2. PICK q \in Owned : f1 = FenceOf(q)
        BY <2>1, <4>1
      <4>3. QED
        BY <3>3, <4>2, <2>3
    <3>4. QED
      BY <2>1, <3>1, <3>2, <3>3
  <2>4. QED
    <3> HIDE DEF TypeOK, Ownership, StopAllWineProcesses, Is
    <3>1. \A f \in fences' : Is(f.pid, f.role, f.gen)'
      BY <2>2, <1>b DEF Is
    <3>2. \A f \in fences' : /\ proc'[f.pid].st # "free" /\ f.pid \notin Owned'
                              /\ OurChild(f.pid)'
      BY <2>2, <1>b DEF OurChild
    <3>3. QED
      BY <2>3, <3>1, <3>2 DEF FencesReservePids
<1>5. EveryProcessHasAnOwner'
  <2>1. ASSUME NEW p \in Owned
        PROVE  \E f \in fences' : f.pid = p
    <3>1. FenceOf(p) \in fences' /\ FenceOf(p).pid = p
      BY <1>a
    <3>2. QED
      BY <3>1
  <2>2. ASSUME NEW p \in Pids, OurChild(p)
        PROVE  \E f \in fences' : f.pid = p
    BY <2>1, <2>2, <1>a DEF EveryProcessHasAnOwner
  <2>3. QED
    BY <2>2, <1>b DEF EveryProcessHasAnOwner, OurChild
<1>6. OwnersNameTheirProcess' /\ LaunchTurnOwnsNoChild'
  BY DEF OwnersNameTheirProcess, LaunchTurnOwnsNoChild
<1>7. CurrentPollNamesChild'
  BY DEF CurrentPollNamesChild, Generations
<1>8. FreeHasNoRole'
  BY DEF FreeHasNoRole
<1>9. QED
  BY <1>2, <1>4, <1>5, <1>6, <1>7, <1>8

LEMMA HardenedStopPreserves ==
    ASSUME TypeOK, Ownership, NEW reason, HardenedStop(reason),
           UNCHANGED <<proc, pidOf, reader>>,
           main' = main \/ (child' = None /\ server' = None)
    PROVE  Ownership'
<1>1. CASE UNCHANGED ownerVars
  BY <1>1 DEF Ownership, ownerVars, NoStraySignal, FencesReservePids,
       EveryProcessHasAnOwner, OwnersNameTheirProcess, LaunchTurnOwnsNoChild,
       CurrentPollNamesChild, FreeHasNoRole, Is, Owned, OurChild
<1>2. CASE StopAllWineProcesses
  BY <1>2, StopPreserves
<1>3. QED
  BY <1>1, <1>2 DEF HardenedStop

(* A step that lets processes run, stop or die, but reaps and spawns none. *)
LEMMA SchedulingPreserves ==
    ASSUME TypeOK, Ownership, TypeOK',
           \A p \in Pids : /\ proc'[p].role = proc[p].role
                           /\ proc'[p].gen = proc[p].gen
                           /\ proc'[p].st = "free" <=> proc[p].st = "free",
           stray' = {},
           \A f \in fences' : \E h \in fences : /\ f.pid = h.pid /\ f.role = h.role
                                                /\ f.gen = h.gen,
           \A h \in fences : \E f \in fences' : f.pid = h.pid,
           \A f1, f2 \in fences' : f1.pid = f2.pid => f1 = f2,
           UNCHANGED <<main, launchGeneration, child, server, pidOf, reader>>
    PROVE  Ownership'
<1>1. Owned' = Owned /\ Owned \subseteq Pids
  BY DEF Owned, TypeOK
<1>2. FencesReservePids'
  <2>1. ASSUME NEW f \in fences'
        PROVE  /\ proc'[f.pid].st # "free" /\ Is(f.pid, f.role, f.gen)'
               /\ f.pid \notin Owned' /\ OurChild(f.pid)'
    <3>1. PICK h \in fences : f.pid = h.pid /\ f.role = h.role /\ f.gen = h.gen
      OBVIOUS
    <3>2. /\ proc[h.pid].st # "free" /\ Is(h.pid, h.role, h.gen) /\ h.pid \notin Owned
          /\ h.pid \in Pids /\ OurChild(h.pid)
      BY DEF Ownership, FencesReservePids, TypeOK, Fence
    <3>3. QED
      BY <3>1, <3>2, <1>1 DEF Is, OurChild
  <2>2. QED
    BY <2>1 DEF FencesReservePids
<1>3. EveryProcessHasAnOwner'
  BY <1>1 DEF Ownership, EveryProcessHasAnOwner, OurChild
<1>4. OwnersNameTheirProcess' /\ FreeHasNoRole'
  BY DEF Ownership, OwnersNameTheirProcess, FreeHasNoRole, Is, TypeOK
<1>5. LaunchTurnOwnsNoChild' /\ CurrentPollNamesChild' /\ NoStraySignal'
  BY DEF Ownership, LaunchTurnOwnsNoChild, CurrentPollNamesChild, NoStraySignal
<1>6. QED
  BY <1>2, <1>3, <1>4, <1>5 DEF Ownership

(* A free pid is nobody's: no owner variable and no fence names it. *)
LEMMA FreePidUnnamed ==
    ASSUME TypeOK, Ownership, NEW p \in FreePids
    PROVE  p \in Pids /\ p \notin Owned /\ (\A f \in fences : f.pid # p)
BY DEF Ownership, FreePids, FreeHasNoRole, OwnersNameTheirProcess, FencesReservePids,
       Owned, Is, TypeOK

LEMMA SpawnServerPreserves ==
    ASSUME TypeOK, Ownership, SpawnServer
    PROVE  Ownership'
<1>1. PICK p \in FreePids :
        /\ proc' = [proc EXCEPT ![p] =
                       Spawned("server", launchGeneration + 1, "running")]
        /\ server' = p
  BY DEF SpawnServer
<1>2. /\ p \in Pids /\ p \notin Owned /\ (\A f \in fences : f.pid # p)
      /\ child = None /\ server = None
  BY FreePidUnnamed DEF Ownership, LaunchTurnOwnsNoChild, SpawnServer
<1>3. /\ proc'[p] = Spawned("server", launchGeneration + 1, "running")
      /\ \A q \in Pids : q # p => proc'[q] = proc[q]
      /\ Owned = {} /\ Owned' = {p} /\ p # None
      /\ \A f \in fences : f.pid \in Pids
      /\ UNCHANGED <<launchGeneration, child, fences, stray, pidOf, reader>>
  BY <1>1, <1>2, NoneAssumption
     DEF TypeOK, Owned, SpawnServer, readerVars, Fence
<1>4. FencesReservePids'
  BY <1>2, <1>3 DEF Ownership, FencesReservePids, Is, OurChild
<1>5. EveryProcessHasAnOwner'
  BY <1>3 DEF Ownership, EveryProcessHasAnOwner, OurChild
<1>6. OwnersNameTheirProcess' /\ FreeHasNoRole'
  BY <1>1, <1>2, <1>3 DEF Ownership, OwnersNameTheirProcess, FreeHasNoRole, Spawned
<1>7. LaunchTurnOwnsNoChild' /\ CurrentPollNamesChild' /\ NoStraySignal'
  BY <1>2, <1>3 DEF Ownership, LaunchTurnOwnsNoChild, CurrentPollNamesChild,
                    NoStraySignal, SpawnServer
<1>8. QED
  BY <1>4, <1>5, <1>6, <1>7 DEF Ownership

LEMMA AdoptPreserves ==
    ASSUME TypeOK, Ownership, main = "spawn", launchGeneration < MaxGeneration,
           NEW p \in FreePids, NEW st \in {"running", "suspended"},
           AdoptChild(p, launchGeneration + 1, st), main' \in {"idle", "adopt"}
    PROVE  Ownership'
<1> DEFINE g == launchGeneration + 1
<1>1. /\ p \in Pids /\ p \notin Owned /\ (\A f \in fences : f.pid # p)
      /\ child = None /\ g \in Generations
  BY FreePidUnnamed, MaxGenerationAssumption
     DEF Ownership, LaunchTurnOwnsNoChild, TypeOK, Generations
<1>2. /\ proc'[p] = Spawned("child", g, st)
      /\ \A q \in Pids : q # p => proc'[q] = proc[q]
      /\ Owned' = Owned \cup {p} /\ p # None
      /\ \A f \in fences : f.pid \in Pids
      /\ child' = p /\ launchGeneration' = g
      /\ UNCHANGED <<server, fences, stray>>
  BY <1>1, NoneAssumption DEF TypeOK, Owned, AdoptChild, Fence
<1>3. FencesReservePids'
  BY <1>1, <1>2 DEF Ownership, FencesReservePids, Is, OurChild
<1>4. EveryProcessHasAnOwner'
  BY <1>2 DEF Ownership, EveryProcessHasAnOwner, OurChild
<1>5. OwnersNameTheirProcess'
  <2>1. server # None => server # p /\ server \in Pids
    BY <1>1 DEF Owned, TypeOK
  <2>2. QED
    BY <1>1, <1>2, <2>1 DEF Ownership, OwnersNameTheirProcess, Is, Spawned
<1>6. FreeHasNoRole'
  BY <1>2 DEF Ownership, FreeHasNoRole, Spawned
<1>7. LaunchTurnOwnsNoChild' /\ NoStraySignal'
  BY <1>2 DEF Ownership, LaunchTurnOwnsNoChild, NoStraySignal
<1>8. CurrentPollNamesChild'
  <2>1. \A h \in Generations : h # g => reader'[h] = reader[h]
    BY DEF AdoptChild, TypeOK
  <2>2. pidOf'[g] = p
    BY <1>1 DEF AdoptChild, TypeOK
  <2>3. \A h \in Generations : reader[h] # "none" => h <= launchGeneration
    BY DEF Ownership, CurrentPollNamesChild
  <2>4. QED
    BY <1>2, <2>1, <2>2, <2>3 DEF CurrentPollNamesChild, TypeOK, Generations
<1>9. QED
  BY <1>3, <1>4, <1>5, <1>6, <1>7, <1>8 DEF Ownership

(***************************************************************************)
(* Type correctness.                                                       *)
(***************************************************************************)
ownerType ==
    /\ launchGeneration \in 0..MaxGeneration
    /\ child \in Pids \cup {None} /\ server \in Pids \cup {None}
    /\ childInput \in Generations \cup {None}
    /\ fences \subseteq Fence
    /\ stray \subseteq {"SIGTERM", "SIGKILL", "SIGCONT", "waitpid"}

jitType ==
    /\ session \in Generations \cup {None}
    /\ jit \in [Generations -> Session]

LEMMA StopTyped ==
    ASSUME TypeOK, StopAllWineProcesses
    PROVE  ownerType'
<1>1. launchGeneration' \in 0..MaxGeneration
  BY MaxGenerationAssumption DEF TypeOK, StopAllWineProcesses
<1>2. StopFences \subseteq Fence
  <2>1. \A p \in Owned : p \in Pids /\ proc[p] \in Process
    BY DEF TypeOK, Owned
  <2>2. ASSUME NEW p \in Owned
        PROVE  [pid |-> p, role |-> proc[p].role, gen |-> proc[p].gen,
                killed |-> FALSE] \in Fence
    BY <2>1 DEF Fence, Process
  <2>3. QED
    BY <2>2 DEF StopFences
<1>3. QED
  BY <1>1, <1>2 DEF TypeOK, StopAllWineProcesses, ownerType

LEMMA DisposedTyped ==
    ASSUME NEW s \in Session
    PROVE  Disposed(s) \in Session /\ [s EXCEPT !.phase = "Failed"] \in Session
BY DEF Disposed, NoSession, Session, Phases, PendingPhases, TerminalPhases

LEMMA EventResultTyped ==
    ASSUME TypeOK, NEW g \in Generations, NEW e
    PROVE  /\ Transition(g, e).state \in Session
           /\ Transition(g, e).action # "NoAction" => OwnsChild(g)
<1>1. /\ jit[g] \in Session /\ jit[g].expired \in BOOLEAN
      /\ foreground \in BOOLEAN /\ OwnsChild(g) \in BOOLEAN
  BY DEF TypeOK, Session, OwnsChild
<1>2. QED
  BY <1>1, TransitionTyped DEF Transition

LEMMA CancelTyped ==
    ASSUME TypeOK, NEW g \in Generations, CancelSession(g)
    PROVE  jitType'
BY EventResultTyped, DisposedTyped DEF CancelSession, jitType, TypeOK

LEMMA HardenedStopTyped ==
    ASSUME TypeOK, NEW reason, HardenedStop(reason)
    PROVE  ownerType' /\ jitType'
<1>1. CASE UNCHANGED <<ownerVars, jitVars>>
  BY <1>1 DEF TypeOK, ownerType, jitType, ownerVars, jitVars
<1>2. CASE CancelAnySession /\ StopAllWineProcesses
  <2>1. jitType'
    BY <1>2, CancelTyped DEF CancelAnySession, jitVars, jitType, TypeOK
  <2>2. QED
    BY <1>2, <2>1, StopTyped
<1>3. QED
  BY <1>1, <1>2 DEF HardenedStop

LEMMA ContinuedTyped ==
    ASSUME TypeOK, NEW p
    PROVE  Continued(p) \in [Pids -> Process]
BY DEF TypeOK, Continued, Process

LEMMA EventTyped ==
    ASSUME TypeOK, NEW g \in Generations, NEW r, r.state \in Session,
           JITEventReceived(g, r)
    PROVE  ownerType' /\ jitType' /\ proc' \in [Pids -> Process]
<1>1. ASSUME NEW s \in Session, NEW stop, Finish(g, s, stop)
      PROVE  ownerType' /\ jitType'
  <2>1. jitType'
    BY <1>1, DisposedTyped DEF Finish, jitType, TypeOK
  <2>2. ownerType'
    BY <1>1, StopTyped DEF Finish, ownerType, TypeOK
  <2>3. QED
    BY <2>1, <2>2
<1>2. CASE r.action # "Resume"
  BY <1>1, <1>2 DEF JITEventReceived, TypeOK
<1>3. CASE r.action = "Resume"
  <2>1. PICK failed \in SigcontFails(g) :
          \/ /\ failed
             /\ Finish(g, [r.state EXCEPT !.phase = "Failed"], TRUE)
             /\ UNCHANGED proc
          \/ /\ ~failed
             /\ jit' = [jit EXCEPT ![g] = r.state]
             /\ proc' = Continued(pidOf[g])
             /\ stray' = stray \cup {s \in {"SIGCONT"} : ~Is(pidOf[g], "child", g)}
             /\ UNCHANGED <<session, launchGeneration, child, server,
                            childInput, fences>>
    BY <1>3 DEF JITEventReceived
  <2>2. CASE Finish(g, [r.state EXCEPT !.phase = "Failed"], TRUE) /\ UNCHANGED proc
    BY <2>2, <1>1, DisposedTyped DEF TypeOK
  <2>3. CASE /\ jit' = [jit EXCEPT ![g] = r.state]
             /\ proc' = Continued(pidOf[g])
             /\ stray' = stray \cup {s \in {"SIGCONT"} : ~Is(pidOf[g], "child", g)}
             /\ UNCHANGED <<session, launchGeneration, child, server,
                            childInput, fences>>
    BY <2>3, ContinuedTyped DEF TypeOK, ownerType, jitType
  <2>4. QED
    BY <2>1, <2>2, <2>3
<1>4. QED
  BY <1>2, <1>3

LEMMA TypeStep == TypeOK /\ [Next]_vars => TypeOK'
<1> SUFFICES ASSUME TypeOK, [Next]_vars PROVE TypeOK'
  OBVIOUS
<1> USE DEF readerVars, handoffVars
<1>1. CASE LaunchTapped \/ LaunchFailAfterServer \/ StopTapped
           \/ ApplicationWillResignActive
  <2>1. ownerType' /\ jitType'
    BY <1>1, HardenedStopTyped
       DEF LaunchTapped, LaunchFailAfterServer, StopTapped, ApplicationWillResignActive
  <2>2. QED
    BY <1>1, <2>1 DEF LaunchTapped, LaunchFailAfterServer, StopTapped,
       ApplicationWillResignActive, TypeOK, ownerType, jitType
<1>2. CASE LaunchReject \/ DidBecomeActive
  BY <1>2 DEF LaunchReject, DidBecomeActive, TypeOK, jitVars, ownerVars
<1>3. CASE SpawnServer
  <2>1. PICK p \in Pids :
          /\ proc' = [proc EXCEPT ![p] =
                         Spawned("server", launchGeneration + 1, "running")]
          /\ server' = p
    BY <1>3 DEF SpawnServer, FreePids
  <2>2. main = "prepare" /\ launchGeneration + 1 \in 0..MaxGeneration
    BY <1>3, MaxGenerationAssumption DEF SpawnServer, TypeOK
  <2>3. QED
    BY <1>3, <2>1, <2>2 DEF SpawnServer, TypeOK, jitVars, Spawned, Process, Roles
<1>4. CASE LaunchPlain \/ LaunchSuspended
  <2> DEFINE g == launchGeneration + 1
  <2>1. g \in Generations /\ g \in 0..MaxGeneration
    BY <1>4, MaxGenerationAssumption DEF LaunchPlain, LaunchSuspended, TypeOK, Generations
  <2>2. PICK p \in Pids : \E st \in {"running", "suspended"} : AdoptChild(p, g, st)
    BY <1>4 DEF LaunchPlain, LaunchSuspended, FreePids
  <2>3. NewSession \in Session
    BY DEF NewSession, NoSession, Session, Phases, PendingPhases
  <2>4. jitType' /\ main' \in {"idle", "adopt"}
    BY <1>4, <2>1, <2>3 DEF LaunchPlain, LaunchSuspended, jitType, jitVars, TypeOK
  <2>5. PICK st \in {"running", "suspended"} : AdoptChild(p, g, st)
    BY <2>2
  <2>6. Spawned("child", g, st) \in Process
    BY <2>1 DEF Spawned, Process, Roles
  <2> HIDE DEF g
  <2>7. QED
    BY <2>1, <2>4, <2>5, <2>6 DEF AdoptChild, TypeOK, jitType
<1>5. CASE AdoptLaunch
  <2>1. session \in Generations
    BY <1>5 DEF AdoptLaunch, TypeOK
  <2>2. CASE /\ jit' = [jit EXCEPT ![session].armed = TRUE]
             /\ openURL' = [openURL EXCEPT ![session] = "waiting"]
             /\ UNCHANGED <<ownerVars, session, proc>>
    <3>1. [jit[session] EXCEPT !.armed = TRUE] \in Session
      <4>1. jit[session] \in Session
        BY <2>1 DEF TypeOK
      <4>2. QED
        BY <4>1 DEF Session
    <3>2. jit' \in [Generations -> Session]
      BY <2>1, <2>2, <3>1 DEF TypeOK
    <3>3. QED
      BY <1>5, <2>1, <2>2, <3>2 DEF AdoptLaunch, TypeOK, ownerVars
  <2>3. CASE /\ JITEventReceived(session, Transition(session, "OpenRejected"))
             /\ UNCHANGED openURL
    <3>1. ownerType' /\ jitType' /\ proc' \in [Pids -> Process]
      BY <2>1, <2>3, EventTyped, EventResultTyped
    <3>2. QED
      BY <1>5, <2>3, <3>1 DEF AdoptLaunch, TypeOK, ownerType, jitType
  <2>4. QED
    BY <1>5, <2>2, <2>3 DEF AdoptLaunch
<1>6. ASSUME NEW g \in Generations, SessionBlock(g)
      PROVE  TypeOK'
  <2>1. CASE TimerFires(g)
    <3>1. ownerType' /\ jitType' /\ proc' \in [Pids -> Process]
      BY <2>1, TimerTyped, EventTyped DEF TimerFires
    <3>2. QED
      BY <2>1, <3>1 DEF TimerFires, TypeOK, ownerType, jitType
  <2>2. ASSUME NEW ok \in BOOLEAN, OpenURLCompleted(g, ok)
        PROVE  TypeOK'
    <3>1. ownerType' /\ jitType' /\ proc' \in [Pids -> Process]
      BY <2>2, EventResultTyped, EventTyped DEF OpenURLCompleted
    <3>2. QED
      BY <2>2, <3>1 DEF OpenURLCompleted, TypeOK, ownerType, jitType
  <2>3. CASE BackgroundTaskExpired(g)
    <3>1. ownerType' /\ jitType' /\ proc' \in [Pids -> Process]
      BY <2>3, EventResultTyped, EventTyped DEF BackgroundTaskExpired
    <3>2. QED
      BY <2>3, <3>1 DEF BackgroundTaskExpired, TypeOK, ownerType, jitType
  <2>4. CASE ObserveOutput(g)
    <3>1. ownerType' /\ jitType' /\ proc' \in [Pids -> Process]
      <4>1. CASE UNCHANGED <<ownerVars, jitVars, proc>>
        BY <4>1 DEF TypeOK, ownerVars, jitVars, ownerType, jitType
      <4>2. CASE JITEventReceived(g, Transition(g, "RuntimeAck"))
        BY <4>2, EventResultTyped, EventTyped
      <4>3. QED
        BY <2>4, <4>1, <4>2 DEF ObserveOutput
    <3>2. QED
      BY <2>4, <3>1 DEF ObserveOutput, TypeOK, ownerType, jitType
  <2>5. QED
    BY <1>6, <2>1, <2>2, <2>3, <2>4 DEF SessionBlock
<1>7. ASSUME NEW g \in Generations, Poll(g) \/ Reader(g)
      PROVE  TypeOK'
  <2>1. CASE PollStale(g) \/ RuntimeReports(g) \/ ReaderEnds(g)
    BY <2>1 DEF PollStale, RuntimeReports, ReaderEnds, PollEnds, TypeOK, ownerVars, jitVars
  <2>2. CASE PollReaps(g)
    <3>1. jitType'
      BY <2>2, CancelTyped DEF PollReaps, jitType, jitVars, TypeOK
    <3>2. FreeProcess \in Process
      BY MaxGenerationAssumption DEF FreeProcess, Process, Roles
    <3>3. proc' \in [Pids -> Process]
      BY <2>2, <3>2 DEF PollReaps, TypeOK
    <3>4. QED
      BY <2>2, <3>1, <3>3 DEF PollReaps, PollEnds, TypeOK, jitType
  <2>3. QED
    BY <1>7, <2>1, <2>2 DEF Poll, Reader
<1>8. ASSUME NEW f \in fences, FenceBlock(f)
      PROVE  TypeOK'
  <2>1. f \in Fence /\ [f EXCEPT !.killed = TRUE] \in Fence
    BY DEF TypeOK, Fence
  <2>2. Killed(f.pid) \in [Pids -> Process]
    BY DEF Killed, TypeOK, Process
  <2>3. FreeProcess \in Process
    BY MaxGenerationAssumption DEF FreeProcess, Process, Roles
  <2>4. CASE FenceKills(f)
    BY <2>1, <2>2, <2>4 DEF FenceKills, TypeOK, jitVars
  <2>5. CASE FenceReaps(f)
    BY <2>3, <2>5 DEF FenceReaps, TypeOK, jitVars
  <2>6. QED
    BY <1>8, <2>4, <2>5 DEF FenceBlock
<1>9. CASE Environment
  <2>1. ASSUME NEW p \in Pids, Exit(p) \/ ForeignSpawn(p) \/ DebuggerResumes(p)
        PROVE  TypeOK'
    <3>1. FreeProcess \in Process /\ ForeignProcess \in Process
      BY MaxGenerationAssumption DEF FreeProcess, ForeignProcess, Process, Roles
    <3>2. [proc[p] EXCEPT !.st = "zombie"] \in Process
      BY DEF TypeOK, Process
    <3>3. proc' \in [Pids -> Process]
      BY <2>1, <3>1, <3>2, ContinuedTyped DEF Exit, ForeignSpawn, DebuggerResumes, TypeOK
    <3>4. QED
      BY <2>1, <3>3 DEF Exit, ForeignSpawn, DebuggerResumes, TypeOK, ownerVars, jitVars
  <2>2. ASSUME NEW g \in Generations,
               DebuggerAttaches(g) \/ DeadlinePasses(g) \/ BackgroundTimeRunsOut(g)
        PROVE  TypeOK'
    <3>1. [jit[g] EXCEPT !.expired = TRUE] \in Session
      <4>1. jit[g] \in Session
        BY DEF TypeOK
      <4>2. QED
        BY <4>1 DEF Session
    <3>2. jit' \in [Generations -> Session]
      BY <2>2, <3>1
         DEF DebuggerAttaches, DeadlinePasses, BackgroundTimeRunsOut, TypeOK, jitVars
    <3>3. QED
      BY <2>2, <3>2 DEF DebuggerAttaches, DeadlinePasses, BackgroundTimeRunsOut,
         TypeOK, ownerVars, jitVars
  <2>3. QED
    BY <1>9, <2>1, <2>2 DEF Environment
<1>10. CASE UNCHANGED vars
  BY <1>10 DEF vars, TypeOK, ownerVars, jitVars
<1>11. QED
  BY <1>1, <1>2, <1>3, <1>4, <1>5, <1>6, <1>7, <1>8, <1>9, <1>10
     DEF Next, LaunchTurn, UserActs

(* Reaping by either party: the pid leaves its last name and becomes free in one
   step, so nothing names it when the kernel hands it on. *)
LEMMA PollReapsPreserves ==
    ASSUME TypeOK, Ownership, NEW g \in Generations, PollReaps(g)
    PROVE  Ownership'
<1> DEFINE p == pidOf[g]
<1>1. /\ launchGeneration = g /\ child # None /\ child = p /\ p \in Pids
      /\ Is(p, "child", g) /\ OurChild(p) /\ p # server
      /\ \A f \in fences : f.pid # p /\ f.pid \in Pids
  BY DEF PollReaps, PollEnabled, Ownership, CurrentPollNamesChild, TypeOK, Is,
         OwnersNameTheirProcess, OurChild, FencesReservePids, Owned, Fence
<1>2. /\ proc'[p] = FreeProcess
      /\ \A q \in Pids : q # p => proc'[q] = proc[q]
      /\ child' = None /\ Owned' = Owned \ {p}
      /\ stray' = stray
      /\ UNCHANGED <<main, launchGeneration, server, fences>>
  BY <1>1 DEF PollReaps, TypeOK, Owned
<1>3. FencesReservePids'
  BY <1>1, <1>2 DEF Ownership, FencesReservePids, Is, OurChild
<1>4. EveryProcessHasAnOwner'
  BY <1>1, <1>2 DEF Ownership, EveryProcessHasAnOwner, OurChild, FreeProcess
<1>5. OwnersNameTheirProcess' /\ FreeHasNoRole'
  BY <1>1, <1>2 DEF Ownership, OwnersNameTheirProcess, FreeHasNoRole, FreeProcess,
                    TypeOK
<1>6. LaunchTurnOwnsNoChild' /\ NoStraySignal'
  BY <1>2 DEF Ownership, LaunchTurnOwnsNoChild, NoStraySignal
<1>7. CurrentPollNamesChild'
  <2>1. /\ reader'[g] = "done"
        /\ \A h \in Generations : h # g => reader'[h] = reader[h] /\ pidOf'[h] = pidOf[h]
    BY DEF PollReaps, PollEnds, TypeOK
  <2>2. QED
    BY <1>1, <1>2, <2>1 DEF Ownership, CurrentPollNamesChild, Generations
<1>8. QED
  BY <1>3, <1>4, <1>5, <1>6, <1>7 DEF Ownership

LEMMA FenceReapsPreserves ==
    ASSUME TypeOK, Ownership, NEW f \in fences, FenceReaps(f)
    PROVE  Ownership'
<1> DEFINE p == f.pid
<1>1. /\ p \in Pids /\ Is(p, f.role, f.gen) /\ p \notin Owned /\ proc[p].st # "free"
      /\ \A h \in fences : h.pid \in Pids /\ (h # f => h.pid # p)
  BY DEF Ownership, FencesReservePids, TypeOK, Fence
<1>2. /\ proc'[p] = IF OurChild(p) THEN FreeProcess ELSE proc[p]
      /\ \A q \in Pids : q # p => proc'[q] = proc[q]
      /\ fences' = fences \ {f} /\ stray' = stray /\ Owned' = Owned
      /\ UNCHANGED <<main, launchGeneration, child, server, pidOf, reader>>
  BY <1>1 DEF FenceReaps, TypeOK, Owned, readerVars
<1>3. FencesReservePids'
  BY <1>1, <1>2 DEF Ownership, FencesReservePids, Is, OurChild
<1>4. EveryProcessHasAnOwner'
  BY <1>1, <1>2 DEF Ownership, EveryProcessHasAnOwner, OurChild, FreeProcess
<1>5. OwnersNameTheirProcess'
  BY <1>1, <1>2 DEF Ownership, OwnersNameTheirProcess, Owned, Is, TypeOK
<1>6. FreeHasNoRole'
  BY <1>1, <1>2 DEF Ownership, FreeHasNoRole, FreeProcess
<1>7. LaunchTurnOwnsNoChild' /\ CurrentPollNamesChild' /\ NoStraySignal'
  BY <1>2 DEF Ownership, LaunchTurnOwnsNoChild, CurrentPollNamesChild, NoStraySignal
<1>8. QED
  BY <1>3, <1>4, <1>5, <1>6, <1>7 DEF Ownership

LEMMA FenceKillsPreserves ==
    ASSUME TypeOK, TypeOK', Ownership, NEW f \in fences, FenceKills(f)
    PROVE  Ownership'
<1> DEFINE k == [f EXCEPT !.killed = TRUE]
<1>1. /\ f \in Fence /\ f.pid \in Pids /\ Is(f.pid, f.role, f.gen)
      /\ \A h \in fences : h # f => h.pid # f.pid
  BY DEF Ownership, FencesReservePids, TypeOK, Fence
<1>2. k.pid = f.pid /\ k.role = f.role /\ k.gen = f.gen
  BY <1>1 DEF Fence
<1>3. fences' = (fences \ {f}) \cup {k} /\ stray' = stray
  BY <1>1 DEF FenceKills
<1>4. \A p \in Pids : /\ proc'[p].role = proc[p].role /\ proc'[p].gen = proc[p].gen
                      /\ proc'[p].st = "free" <=> proc[p].st = "free"
  BY DEF FenceKills, Killed, TypeOK, Process
<1>5. stray' = {} /\ UNCHANGED <<main, launchGeneration, child, server, pidOf, reader>>
  BY <1>3 DEF FenceKills, readerVars, Ownership, NoStraySignal
<1>6. \A h \in fences' : \E o \in fences : h.pid = o.pid /\ h.role = o.role /\ h.gen = o.gen
  BY <1>2, <1>3
<1>7. \A o \in fences : \E h \in fences' : h.pid = o.pid
  BY <1>2, <1>3
<1>8. \A f1, f2 \in fences' : f1.pid = f2.pid => f1 = f2
  <2> HIDE DEF k
  <2>1. QED
    BY <1>1, <1>2, <1>3 DEF Ownership, FencesReservePids
<1>9. QED
  BY <1>4, <1>5, <1>6, <1>7, <1>8, SchedulingPreserves

(* Delivering an event of the handoff preserves ownership: SIGCONT goes to the
   child the controller owns, because the transition asked for it only then. *)
LEMMA EventPreserves ==
    ASSUME TypeOK, TypeOK', Ownership, NEW g \in Generations, NEW r,
           JITEventReceived(g, r), r.action # "NoAction" => OwnsChild(g),
           UNCHANGED <<pidOf, reader>>, main' \in {main, "idle"}
    PROVE  Ownership'
<1>1. CASE UNCHANGED <<launchGeneration, child, server, fences, stray, proc>>
  BY <1>1 DEF Ownership, NoStraySignal, FencesReservePids, EveryProcessHasAnOwner,
       OwnersNameTheirProcess, LaunchTurnOwnsNoChild, CurrentPollNamesChild,
       FreeHasNoRole, Is, Owned, OurChild
<1>2. CASE StopAllWineProcesses /\ UNCHANGED proc
  BY <1>2, StopPreserves
<1>3. CASE /\ OwnsChild(g)
           /\ proc' = Continued(pidOf[g])
           /\ stray' = stray \cup {s \in {"SIGCONT"} : ~Is(pidOf[g], "child", g)}
           /\ UNCHANGED <<launchGeneration, child, server, fences>>
  <2>1. Is(pidOf[g], "child", g)
    BY <1>3 DEF OwnsChild, Ownership, OwnersNameTheirProcess
  <2>2. stray' = {}
    BY <1>3, <2>1 DEF Ownership, NoStraySignal
  <2>3. \A p \in Pids : /\ proc'[p].role = proc[p].role /\ proc'[p].gen = proc[p].gen
                        /\ proc'[p].st = "free" <=> proc[p].st = "free"
    BY <1>3 DEF Continued, TypeOK, Process
  <2>4. Owned' = Owned
    BY <1>3 DEF Owned
  <2>5. FencesReservePids'
    BY <1>3, <2>3, <2>4 DEF Ownership, FencesReservePids, Is, OurChild, TypeOK, Fence
  <2>6. EveryProcessHasAnOwner'
    BY <1>3, <2>3, <2>4 DEF Ownership, EveryProcessHasAnOwner, OurChild
  <2>7. OwnersNameTheirProcess' /\ FreeHasNoRole'
    BY <1>3, <2>3 DEF Ownership, OwnersNameTheirProcess, FreeHasNoRole, Is, TypeOK
  <2>8. LaunchTurnOwnsNoChild' /\ CurrentPollNamesChild' /\ NoStraySignal'
    BY <1>3, <2>2 DEF Ownership, LaunchTurnOwnsNoChild, CurrentPollNamesChild,
                      NoStraySignal
  <2>9. QED
    BY <2>5, <2>6, <2>7, <2>8 DEF Ownership
<1>4. QED
  BY <1>1, <1>2, <1>3, EventOnCore

LEMMA InitOwnership == Init => TypeOK /\ Ownership
<1> SUFFICES ASSUME Init PROVE TypeOK /\ Ownership
  OBVIOUS
<1>1. TypeOK
  <2>1. FreeProcess \in Process
    BY MaxGenerationAssumption DEF FreeProcess, Process, Roles
  <2>2. NoSession \in Session
    BY DEF NoSession, Session
  <2>3. QED
    BY <2>1, <2>2, MaxGenerationAssumption DEF Init, TypeOK
<1>2. Ownership
  BY DEF Init, Ownership, NoStraySignal, FencesReservePids, EveryProcessHasAnOwner,
     OwnersNameTheirProcess, LaunchTurnOwnsNoChild, CurrentPollNamesChild,
     FreeHasNoRole, OurChild, FreeProcess
<1>3. QED
  BY <1>1, <1>2

LEMMA OwnershipStep == TypeOK /\ Ownership /\ [Next]_vars => Ownership'
<1> SUFFICES ASSUME TypeOK, Ownership, [Next]_vars PROVE Ownership'
  OBVIOUS
<1>0. TypeOK'
  BY TypeStep
<1> USE DEF readerVars, handoffVars
<1>1. CASE LaunchTapped \/ LaunchFailAfterServer \/ StopTapped
           \/ ApplicationWillResignActive
  <2>1. /\ UNCHANGED <<proc, pidOf, reader>>
        /\ \/ HardenedStop("new-launch") \/ HardenedStop("launch-setup-failed")
           \/ HardenedStop("user-stop") \/ HardenedStop("application-will-resign-active")
    BY <1>1 DEF LaunchTapped, LaunchFailAfterServer, StopTapped,
                ApplicationWillResignActive
  <2>2. main' = main \/ (child' = None /\ server' = None)
    <3>1. CASE LaunchTapped
      BY <3>1 DEF LaunchTapped, HardenedStop, Suppressed, StopAllWineProcesses
    <3>2. CASE LaunchFailAfterServer
      BY <3>2 DEF LaunchFailAfterServer, HardenedStop, Suppressed, StopAllWineProcesses
    <3>3. CASE StopTapped \/ ApplicationWillResignActive
      BY <3>3 DEF StopTapped, ApplicationWillResignActive
    <3>4. QED
      BY <1>1, <3>1, <3>2, <3>3
  <2>3. QED
    <3> HIDE DEF readerVars, handoffVars
    <3>1. ASSUME NEW reason, HardenedStop(reason)
          PROVE  Ownership'
      BY <2>1, <2>2, <3>1, HardenedStopPreserves
    <3>2. QED
      BY <2>1, <3>1
<1>2. CASE LaunchReject
  BY <1>2 DEF LaunchReject, Ownership, NoStraySignal, FencesReservePids,
     EveryProcessHasAnOwner, OwnersNameTheirProcess, LaunchTurnOwnsNoChild,
     CurrentPollNamesChild, FreeHasNoRole, Is, Owned, OurChild
<1>3. CASE SpawnServer
  BY <1>3, SpawnServerPreserves
<1>4. CASE LaunchPlain \/ LaunchSuspended
  <2>1. /\ main = "spawn" /\ launchGeneration < MaxGeneration
        /\ main' \in {"idle", "adopt"}
    BY <1>4 DEF LaunchPlain, LaunchSuspended
  <2>2. PICK p \in FreePids : \E st \in {"running", "suspended"} :
          AdoptChild(p, launchGeneration + 1, st)
    BY <1>4 DEF LaunchPlain, LaunchSuspended
  <2>3. QED
    BY <2>1, <2>2, AdoptPreserves
<1>5. CASE AdoptLaunch
  <2>1. session \in Generations /\ main' \in {main, "idle"}
        /\ UNCHANGED <<pidOf, reader>>
    BY <1>5 DEF AdoptLaunch, TypeOK
  <2>2. CASE UNCHANGED <<ownerVars, proc>>
    BY <2>1, <2>2 DEF ownerVars, Ownership, NoStraySignal, FencesReservePids,
       EveryProcessHasAnOwner, OwnersNameTheirProcess, LaunchTurnOwnsNoChild,
       CurrentPollNamesChild, FreeHasNoRole, Is, Owned, OurChild
  <2>3. CASE JITEventReceived(session, Transition(session, "OpenRejected"))
    BY <1>0, <2>1, <2>3, EventResultTyped, EventPreserves
  <2>4. QED
    BY <1>5, <2>2, <2>3 DEF AdoptLaunch
<1>6. ASSUME NEW g \in Generations, SessionBlock(g)
      PROVE  Ownership'
  <2>1. CASE TimerFires(g)
    <3>1. UNCHANGED <<main, pidOf, reader>> /\ JITEventReceived(g, TimerResult(g))
      BY <2>1 DEF TimerFires
    <3>2. QED
      BY <1>0, <3>1, TimerTyped, EventPreserves
  <2>2. ASSUME NEW ok \in BOOLEAN, OpenURLCompleted(g, ok)
        PROVE  Ownership'
    <3>1. /\ UNCHANGED <<main, pidOf, reader>>
          /\ JITEventReceived(g, Transition(g, IF ok THEN "OpenAccepted"
                                                      ELSE "OpenRejected"))
      BY <2>2 DEF OpenURLCompleted
    <3>2. QED
      BY <1>0, <3>1, EventResultTyped, EventPreserves
  <2>3. CASE BackgroundTaskExpired(g)
    <3>1. /\ UNCHANGED <<main, pidOf, reader>>
          /\ JITEventReceived(g, Transition(g, "OpenRejected"))
      BY <2>3 DEF BackgroundTaskExpired
    <3>2. QED
      BY <1>0, <3>1, EventResultTyped, EventPreserves
  <2>4. CASE ObserveOutput(g)
    <3>1. UNCHANGED <<main, pidOf, reader>>
      BY <2>4 DEF ObserveOutput
    <3>2. CASE UNCHANGED <<ownerVars, jitVars, proc>>
      BY <3>1, <3>2, CoreUnchanged DEF ownerVars, coreVars
    <3>3. CASE JITEventReceived(g, Transition(g, "RuntimeAck"))
      BY <1>0, <3>1, <3>3, EventResultTyped, EventPreserves
    <3>4. QED
      BY <2>4, <3>2, <3>3 DEF ObserveOutput
  <2>5. QED
    BY <1>6, <2>1, <2>2, <2>3, <2>4 DEF SessionBlock
<1>7. ASSUME NEW g \in Generations, Poll(g) \/ Reader(g)
      PROVE  Ownership'
  <2>1. CASE PollStale(g)
    <3>1. /\ launchGeneration # g
          /\ UNCHANGED <<main, launchGeneration, child, server, fences, stray, proc>>
          /\ \A h \in Generations : h # g => reader'[h] = reader[h] /\ pidOf'[h] = pidOf[h]
          /\ reader[g] # "none"
      BY <2>1 DEF PollStale, PollEnabled, PollEnds, TypeOK, ownerVars
    <3>2. CurrentPollNamesChild'
      BY <3>1 DEF Ownership, CurrentPollNamesChild
    <3>3. QED
      BY <3>1, <3>2 DEF Ownership, NoStraySignal, FencesReservePids,
         EveryProcessHasAnOwner, OwnersNameTheirProcess, LaunchTurnOwnsNoChild,
         FreeHasNoRole, Is, Owned, OurChild
  <2>2. CASE PollReaps(g)
    BY <2>2, PollReapsPreserves
  <2>3. CASE RuntimeReports(g)
    BY <2>3, CoreUnchanged DEF RuntimeReports, ownerVars, coreVars
  <2>4. CASE ReaderEnds(g)
    <3>1. /\ UNCHANGED <<main, launchGeneration, child, server, fences, stray, proc, pidOf>>
          /\ \A h \in Generations : h # g => reader'[h] = reader[h]
          /\ reader[g] = "reading"
      BY <2>4 DEF ReaderEnds, TypeOK, ownerVars
    <3>2. CurrentPollNamesChild'
      BY <3>1 DEF Ownership, CurrentPollNamesChild
    <3>3. QED
      BY <3>1, <3>2 DEF Ownership, NoStraySignal, FencesReservePids,
         EveryProcessHasAnOwner, OwnersNameTheirProcess, LaunchTurnOwnsNoChild,
         FreeHasNoRole, Is, Owned, OurChild
  <2>5. QED
    BY <1>7, <2>1, <2>2, <2>3, <2>4 DEF Poll, Reader
<1>8. ASSUME NEW f \in fences, FenceBlock(f)
      PROVE  Ownership'
  BY <1>0, <1>8, FenceKillsPreserves, FenceReapsPreserves DEF FenceBlock
<1>9. CASE Environment
  <2>1. ASSUME NEW p \in Pids, Exit(p) \/ ForeignSpawn(p) \/ DebuggerResumes(p)
        PROVE  Ownership'
    <3>1. /\ UNCHANGED <<main, launchGeneration, child, server, fences, stray, pidOf, reader>>
          /\ \A q \in Pids : q # p => proc'[q] = proc[q]
      BY <2>1 DEF Exit, ForeignSpawn, DebuggerResumes, Continued, TypeOK, ownerVars
    <3>2. CASE OurChild(p)
      <4>1. \A q \in Pids : /\ proc'[q].role = proc[q].role /\ proc'[q].gen = proc[q].gen
                            /\ proc'[q].st = "free" <=> proc[q].st = "free"
        BY <2>1, <3>1, <3>2 DEF Exit, ForeignSpawn, DebuggerResumes, Continued, TypeOK,
           Process, OurChild, Ownership, FreeHasNoRole
      <4>2. stray' = {} /\ \A f1, f2 \in fences : f1.pid = f2.pid => f1 = f2
        BY <3>1 DEF Ownership, NoStraySignal, FencesReservePids
      <4>3. QED
        BY <1>0, <3>1, <4>1, <4>2, SchedulingPreserves
    <3>3. CASE ~OurChild(p)
      <4>1. /\ p \notin Owned /\ \A f \in fences : f.pid \in Pids /\ f.pid # p
        BY <3>3 DEF Ownership, OwnersNameTheirProcess, FencesReservePids, Owned, Is,
                    OurChild, TypeOK, Fence
      <4>2. /\ proc'[p].role \notin {"child", "server"}
            /\ proc'[p].st = "free" <=> proc'[p].role = "none"
        BY <2>1, <3>3 DEF Exit, ForeignSpawn, DebuggerResumes, Continued, OurChild,
           FreeProcess, ForeignProcess, TypeOK, Process, Ownership, FreeHasNoRole
      <4>3. FencesReservePids'
        BY <3>1, <4>1 DEF Ownership, FencesReservePids, Is, Owned, OurChild
      <4>4. EveryProcessHasAnOwner'
        BY <3>1, <4>1, <4>2 DEF Ownership, EveryProcessHasAnOwner, Owned, OurChild
      <4>5. OwnersNameTheirProcess'
        BY <3>1, <4>1 DEF Ownership, OwnersNameTheirProcess, Is, Owned, TypeOK
      <4>6. /\ LaunchTurnOwnsNoChild' /\ CurrentPollNamesChild' /\ NoStraySignal'
            /\ FreeHasNoRole'
        BY <3>1, <4>2 DEF Ownership, LaunchTurnOwnsNoChild, CurrentPollNamesChild,
           NoStraySignal, FreeHasNoRole
      <4>7. QED
        BY <4>3, <4>4, <4>5, <4>6 DEF Ownership
    <3>4. QED
      BY <3>2, <3>3
  <2>2. ASSUME NEW g \in Generations,
               DebuggerAttaches(g) \/ DeadlinePasses(g) \/ BackgroundTimeRunsOut(g)
        PROVE  Ownership'
    BY <2>2, CoreUnchanged
       DEF DebuggerAttaches, DeadlinePasses, BackgroundTimeRunsOut, ownerVars, coreVars
  <2>3. QED
    BY <1>9, <2>1, <2>2 DEF Environment
<1>10. CASE UNCHANGED vars \/ DidBecomeActive
  BY <1>10, CoreUnchanged DEF vars, ownerVars, coreVars, DidBecomeActive
<1>11. QED
  BY <1>1, <1>2, <1>3, <1>4, <1>5, <1>6, <1>7, <1>8, <1>9, <1>10
     DEF Next, LaunchTurn, UserActs

-----------------------------------------------------------------------------
(* Every variable keeps its type under every interleaving. *)
THEOREM TypeCorrect == Spec => []TypeOK
<1>1. Init => TypeOK
  BY InitOwnership
<1>2. QED
  BY <1>1, TypeStep, PTL DEF Spec

(* The inductive invariant: what every pid the application holds stands for. *)
THEOREM OwnershipInvariant == Spec => []Ownership
<1>1. Init => TypeOK /\ Ownership
  BY InitOwnership
<1>2. (TypeOK /\ Ownership) /\ [Next]_vars => (TypeOK /\ Ownership)'
  BY TypeStep, OwnershipStep
<1>3. QED
  BY <1>1, <1>2, PTL DEF Spec

(* No signal and no waitpid reaches a process it was not issued for. *)
THEOREM NoSignalGoesAstray == Spec => []NoStraySignal
<1>1. Ownership => NoStraySignal
  BY DEF Ownership
<1>2. QED
  BY <1>1, OwnershipInvariant, PTL

(* A pid stays reserved, for one fence alone, until that fence has reaped it. *)
THEOREM FencesReserve == Spec => []FencesReservePids
<1>1. Ownership => FencesReservePids
  BY DEF Ownership
<1>2. QED
  BY <1>1, OwnershipInvariant, PTL

(* No process of ours is ever left without a party that will reap it. *)
THEOREM NoProcessIsLost == Spec => []EveryProcessHasAnOwner
<1>1. Ownership => EveryProcessHasAnOwner
  BY DEF Ownership
<1>2. QED
  BY <1>1, OwnershipInvariant, PTL

-----------------------------------------------------------------------------
(* The StikDebug handoff.  Which phases have seen the URL accepted, and which the
   debugger. *)
URLSeen == {"Attaching", "Authorized", "Starting", "Ready"}
DebuggerSeen == {"OpeningAuthorized", "Authorized", "Starting", "Ready"}

(* What a phase has seen has happened to the session's own launch. *)
ObservedOK(g) ==
    /\ jit[g].phase \in URLSeen => openURL[g] = "accepted"
    /\ jit[g].phase \in DebuggerSeen => debugged[g]
    /\ jit[g].runtimeAcknowledged \/ jit[g].phase = "Ready" => ack[g] = "delivered"

(* The associated session owns its child and is pending, and once the launch turn is
   over it is armed; its child has run before it can acknowledge. *)
SessionOK ==
    session # None =>
        /\ OwnsChild(session) /\ JITPending(jit[session])
        /\ main = "adopt" => jit[session].phase = "Opening"
        /\ main # "adopt" => jit[session].armed
        /\ ack[session] # "none" => proc[child].st # "suspended"

ArmedOK == \A g \in Generations : jit[g].armed => session = g

(* Stop moves the generation on, so a fence never is for the child in use, and no
   later launch has been heard of. *)
GenerationsOK ==
    /\ \A f \in fences : f.role = "child" => f.gen < launchGeneration
    /\ \A g \in Generations : ack[g] # "none" => g <= launchGeneration

SuspendedOK ==
    \A p \in Pids : proc[p].st = "suspended" =>
        (\E f \in fences : f.pid = p) \/ (child = p /\ session # None)

BackgroundOK == ~foreground => main = "idle" /\ (child # None => session # None)

HandoffOK ==
    /\ \A g \in Generations : ObservedOK(g)
    /\ SessionOK /\ ArmedOK /\ GenerationsOK /\ SuspendedOK /\ BackgroundOK

(* What the result of a transition may be, given whether the event reported that the
   URL was accepted (url), that the child is debugged (dbg) or the marker (acked). *)
GoodResult(old, new, action, owns, fg, url, dbg, acked) ==
    /\ new \in Session /\ new.armed = old.armed
    /\ action # "NoAction" => owns
    /\ JITPending(new) => owns /\ JITPending(old)
    /\ action = "Stop" => ~JITPending(new)
    /\ action = "Resume" => JITPending(new)
    /\ JITPending(old) /\ owns /\ action # "Stop" /\ ~JITPending(new) =>
          fg /\ new.runtimeAcknowledged
    /\ new.phase \in URLSeen => old.phase \in URLSeen \/ url
    /\ new.phase \in DebuggerSeen => old.phase \in DebuggerSeen \/ dbg
    /\ new.runtimeAcknowledged => old.runtimeAcknowledged \/ acked
    /\ new.phase = "Ready" => old.phase = "Ready" \/ new.runtimeAcknowledged

(* Every event but Cancel gives such a result (JuiceJITTransition). *)
LEMMA TransitionGood ==
    ASSUME NEW s \in Session, NEW e \in Events \ {"Cancel"}, NEW late \in BOOLEAN,
           NEW owns \in BOOLEAN, NEW fg \in BOOLEAN
    PROVE  LET r == JITTransition(s, e, late, owns, fg) IN
           /\ GoodResult(s, r.state, r.action, owns, fg,
                         e = "OpenAccepted", e = "Debugged", e = "RuntimeAck")
           /\ r.action = "Resume" => /\ ~late /\ fg /\ ~r.state.runtimeAcknowledged
                                     /\ r.state.phase = "Starting"
<1> DEFINE r == JITTransition(s, e, late, owns, fg)
           o == Observe(s, e)
<1>0. /\ s.phase \in Phases \cup {"none"} /\ s.runtimeAcknowledged \in BOOLEAN
      /\ s.armed \in BOOLEAN
  BY DEF Session
<1>1. r.state \in Session /\ (r.action # "NoAction" => owns)
  BY TransitionTyped
<1>2. CASE s.phase \in TerminalPhases
  <2>1. r.state = s /\ r.action = "NoAction"
    BY <1>2 DEF JITTransition, Outcome
  <2> HIDE DEF r
  <2>2. ~JITPending(s)
    BY <1>2 DEF JITPending, PendingPhases, TerminalPhases
  <2>3. QED
    BY <1>1, <2>1, <2>2 DEF GoodResult, r
<1>3. CASE s.phase \notin TerminalPhases /\ ~owns
  <2>1. r.state = [s EXCEPT !.phase = "Cancelled"] /\ r.action = "NoAction"
    BY <1>3 DEF JITTransition, Outcome
  <2>2. /\ r.state.phase = "Cancelled" /\ r.state.armed = s.armed
        /\ r.state.runtimeAcknowledged = s.runtimeAcknowledged
    BY <2>1 DEF Session
  <2> HIDE DEF r
  <2>3. QED
    BY <1>1, <1>3, <2>1, <2>2 DEF GoodResult, JITPending, PendingPhases, URLSeen,
       DebuggerSeen, r
<1>4. CASE s.phase \notin TerminalPhases /\ owns /\ (late \/ e = "OpenRejected")
  <2>1. r.state = [s EXCEPT !.phase = "Failed"] /\ r.action = "Stop"
    BY <1>4 DEF JITTransition, Outcome
  <2>2. /\ r.state.phase = "Failed" /\ r.state.armed = s.armed
        /\ r.state.runtimeAcknowledged = s.runtimeAcknowledged
    BY <2>1 DEF Session
  <2> HIDE DEF r
  <2>3. QED
    BY <1>1, <1>4, <2>1, <2>2 DEF GoodResult, JITPending, PendingPhases, URLSeen,
       DebuggerSeen, r
<1>5. CASE s.phase \notin TerminalPhases /\ owns /\ ~late /\ e # "OpenRejected"
  <2>1. r = Advance(o, fg)
    BY <1>5 DEF JITTransition
  <2>2. /\ o \in Session /\ o.phase = ObservedPhase(s.phase, e) /\ o.armed = s.armed
        /\ o.runtimeAcknowledged = (s.runtimeAcknowledged \/ e = "RuntimeAck")
    <3>1. ObservedPhase(s.phase, e) \in Phases \cup {"none"}
      BY <1>0 DEF ObservedPhase, Phases, PendingPhases, TerminalPhases
    <3>2. QED
      BY <1>0, <3>1 DEF Observe, Session
  <2>3. /\ o.phase \notin TerminalPhases /\ (JITPending(s) <=> JITPending(o))
        /\ o.phase \in URLSeen => s.phase \in URLSeen \/ e = "OpenAccepted"
        /\ o.phase \in DebuggerSeen => s.phase \in DebuggerSeen \/ e = "Debugged"
    BY <1>0, <1>5, <2>2 DEF ObservedPhase, Phases, PendingPhases, TerminalPhases,
       JITPending, URLSeen, DebuggerSeen
  <2> HIDE DEF o
  <2>4. CASE ~fg \/ o.phase \notin {"Authorized", "Starting"}
    <3>1. r.state = o /\ r.action = "NoAction"
      BY <2>1, <2>4 DEF Advance, Outcome
    <3> HIDE DEF r
    <3>2. o.phase # "Ready"
      BY <2>3 DEF TerminalPhases
    <3>3. QED
      BY <1>1, <1>5, <2>2, <2>3, <3>1, <3>2 DEF GoodResult, r
  <2>5. CASE fg /\ o.phase \in {"Authorized", "Starting"} /\ o.runtimeAcknowledged
    <3>1. r.state = [o EXCEPT !.phase = "Ready"] /\ r.action = "NoAction"
      BY <2>1, <2>5 DEF Advance, Outcome
    <3>2. /\ r.state.phase = "Ready" /\ r.state.armed = o.armed
          /\ r.state.runtimeAcknowledged
      BY <2>2, <2>5, <3>1 DEF Session
    <3> HIDE DEF r
    <3>3. o.phase \in URLSeen /\ o.phase \in DebuggerSeen /\ ~JITPending(r.state)
      BY <2>5, <3>2 DEF URLSeen, DebuggerSeen, JITPending, PendingPhases
    <3>4. QED
      BY <1>1, <1>5, <2>2, <2>3, <2>5, <3>1, <3>2, <3>3 DEF GoodResult, r
  <2>6. CASE fg /\ o.phase \in {"Authorized", "Starting"} /\ ~o.runtimeAcknowledged
    <3>1. /\ r.state = [o EXCEPT !.phase = "Starting"]
          /\ r.action = IF o.phase = "Authorized" THEN "Resume" ELSE "NoAction"
      BY <2>1, <2>6 DEF Advance, Outcome
    <3>2. /\ r.state.phase = "Starting" /\ r.state.armed = o.armed
          /\ r.state.runtimeAcknowledged = o.runtimeAcknowledged
      BY <2>2, <3>1 DEF Session
    <3>3. r.action \in {"Resume", "NoAction"}
      BY <3>1
    <3> HIDE DEF r
    <3>4. /\ o.phase \in URLSeen /\ o.phase \in DebuggerSeen /\ JITPending(r.state)
          /\ JITPending(o)
      BY <2>6, <3>2 DEF URLSeen, DebuggerSeen, JITPending, PendingPhases
    <3>5. QED
      BY <1>1, <1>5, <2>2, <2>3, <2>6, <3>2, <3>3, <3>4 DEF GoodResult, r
  <2>7. QED
    BY <1>0, <2>2, <2>4, <2>5, <2>6
<1>6. QED
  BY <1>2, <1>3, <1>4, <1>5

(* The result of one event of a launch. *)
Good(g, r, url, dbg, acked) ==
    GoodResult(jit[g], r.state, r.action, OwnsChild(g), foreground, url, dbg, acked)

LEMMA EventGood ==
    ASSUME TypeOK, NEW g \in Generations, NEW e \in Events \ {"Cancel"}
    PROVE  Good(g, Transition(g, e), e = "OpenAccepted", e = "Debugged", e = "RuntimeAck")
<1>1. /\ jit[g] \in Session /\ jit[g].expired \in BOOLEAN
      /\ foreground \in BOOLEAN /\ OwnsChild(g) \in BOOLEAN
  BY DEF TypeOK, Session, OwnsChild
<1>2. QED
  BY <1>1, TransitionGood DEF Transition, Good

(* The two transitions of the timer make one good result; it has seen the debugger only
   if the kernel reports one. *)
LEMMA TimerGood ==
    ASSUME TypeOK, NEW g \in Generations
    PROVE  Good(g, TimerResult(g), FALSE, debugged[g], FALSE)
<1> DEFINE tick == Transition(g, "Tick")
           seen == JITTransition(tick.state, "Debugged", jit[g].expired,
                                 OwnsChild(g), foreground)
           owns == OwnsChild(g)
<1>1. /\ jit[g] \in Session /\ jit[g].expired \in BOOLEAN
      /\ foreground \in BOOLEAN /\ owns \in BOOLEAN
  BY DEF TypeOK, Session, OwnsChild
<1>2. "Tick" \in Events \ {"Cancel"} /\ "Debugged" \in Events \ {"Cancel"}
  BY DEF Events
<1>3. /\ GoodResult(jit[g], tick.state, tick.action, owns, foreground, FALSE, FALSE, FALSE)
      /\ tick.action = "Resume" => /\ ~jit[g].expired /\ foreground
                                   /\ ~tick.state.runtimeAcknowledged
                                   /\ tick.state.phase = "Starting"
  <2>1. /\ GoodResult(jit[g], tick.state, tick.action, owns, foreground,
                      "Tick" = "OpenAccepted", "Tick" = "Debugged", "Tick" = "RuntimeAck")
        /\ tick.action = "Resume" => /\ ~jit[g].expired /\ foreground
                                     /\ ~tick.state.runtimeAcknowledged
                                     /\ tick.state.phase = "Starting"
    BY <1>1, <1>2, TransitionGood DEF Transition
  <2> HIDE DEF tick, owns
  <2>2. QED
    BY <2>1 DEF GoodResult
<1>4. tick.state \in Session
  BY <1>3 DEF GoodResult
<1>5. CASE owns /\ JITPending(tick.state) /\ debugged[g] /\ proc[pidOf[g]].st # "zombie"
  <2>1. /\ TimerResult(g).state = seen.state
        /\ TimerResult(g).action = IF tick.action = "Resume" THEN "Resume" ELSE seen.action
    BY <1>5 DEF TimerResult, Outcome
  <2>a. ASSUME tick.action = "Resume" PROVE seen.state.phase = "Starting"
    <3>1. /\ tick.state.phase = "Starting" /\ ~tick.state.runtimeAcknowledged
          /\ ~jit[g].expired /\ foreground
      BY <1>3, <2>a
    <3> DEFINE x == tick.state
               o == Observe(x, "Debugged")
    <3>2. o \in Session /\ o.phase = "Starting" /\ ~o.runtimeAcknowledged
      <4> HIDE DEF tick
      <4>1. ObservedPhase(x.phase, "Debugged") = "Starting"
        BY <3>1 DEF ObservedPhase
      <4>2. "Starting" \in Phases \cup {"none"}
        BY DEF Phases, PendingPhases
      <4>3. QED
        BY <1>4, <3>1, <4>1, <4>2 DEF Observe, Session
    <3> HIDE DEF tick
    <3>3. seen = Advance(o, foreground)
      BY <1>5, <3>1 DEF JITTransition, TerminalPhases
    <3> HIDE DEF o, seen
    <3>4. seen.state = [o EXCEPT !.phase = "Starting"]
      <4>1. Advance(o, foreground) = Outcome([o EXCEPT !.phase = "Starting"], "NoAction")
        BY <3>1, <3>2 DEF Advance
      <4>2. QED
        BY <3>3, <4>1 DEF Outcome
    <3>5. \A y \in Session : [y EXCEPT !.phase = "Starting"].phase = "Starting"
      BY DEF Session
    <3>6. QED
      BY <3>2, <3>4, <3>5
  <2> HIDE DEF tick
  <2>2. GoodResult(tick.state, seen.state, seen.action, owns, foreground, FALSE, TRUE, FALSE)
    <3>1. GoodResult(tick.state, seen.state, seen.action, owns, foreground,
             "Debugged" = "OpenAccepted", "Debugged" = "Debugged", "Debugged" = "RuntimeAck")
      BY <1>1, <1>2, <1>4, TransitionGood
    <3> HIDE DEF seen, owns
    <3>2. QED
      BY <3>1 DEF GoodResult
  <2> HIDE DEF seen, owns
  <2>3. tick.action # "Stop"
    BY <1>3, <1>5 DEF GoodResult
  <2>4. seen.state.phase = "Starting" => JITPending(seen.state)
    BY DEF JITPending, PendingPhases
  <2>5. JITPending(jit[g])
    BY <1>3, <1>5 DEF GoodResult
  <2>9. tick.state.phase # "Ready"
    BY <1>5 DEF JITPending, PendingPhases
  <2> DEFINE a == TimerResult(g).action
  <2>6. CASE tick.action = "Resume"
    <3>1. a = "Resume" /\ JITPending(seen.state) /\ TimerResult(g).state = seen.state
      BY <2>1, <2>4, <2>6, <2>a
    <3> HIDE DEF a
    <3>2. GoodResult(jit[g], seen.state, a, owns, foreground, FALSE, debugged[g], FALSE)
      BY <1>3, <1>5, <2>2, <2>5, <2>9, <3>1 DEF GoodResult
    <3>3. QED
      BY <3>1, <3>2 DEF Good, a, owns
  <2>7. CASE tick.action # "Resume"
    <3>1. a = seen.action /\ TimerResult(g).state = seen.state
      BY <2>1, <2>7
    <3> HIDE DEF a
    <3>2. GoodResult(jit[g], seen.state, a, owns, foreground, FALSE, debugged[g], FALSE)
      BY <1>3, <1>5, <2>2, <2>5, <2>9, <3>1 DEF GoodResult
    <3>3. QED
      BY <3>1, <3>2 DEF Good, a, owns
  <2>8. QED
    BY <2>6, <2>7
<1>6. CASE ~(owns /\ JITPending(tick.state) /\ debugged[g] /\ proc[pidOf[g]].st # "zombie")
  <2>1. TimerResult(g) = tick
    BY <1>6 DEF TimerResult
  <2> HIDE DEF tick
  <2>2. QED
    BY <1>3, <2>1 DEF GoodResult, Good
<1>7. QED
  BY <1>5, <1>6

(* The session's record after an event: kept, or disposed of with its last phase. *)
LEMMA DisposedFields ==
    ASSUME NEW s \in Session
    PROVE  /\ Disposed(s).phase = s.phase /\ Disposed(s).armed = FALSE
           /\ Disposed(s).runtimeAcknowledged = FALSE
           /\ Disposed([s EXCEPT !.phase = "Failed"]).phase = "Failed"
           /\ ~JITPending([s EXCEPT !.phase = "Failed"])
BY DEF Disposed, NoSession, Session, JITPending, PendingPhases

(* The three ways an event ends: the handoff goes on, it ends without a Stop, it ends
   with one. *)
LEMMA EventCases ==
    ASSUME TypeOK, NEW g \in Generations, NEW r, NEW url, NEW dbg, NEW acked,
           JITEventReceived(g, r), Good(g, r, url, dbg, acked)
    PROVE  \/ /\ JITPending(r.state) /\ OwnsChild(g)
              /\ jit' = [jit EXCEPT ![g] = r.state] /\ session' = session
              /\ proc' = proc \/ proc' = Continued(pidOf[g])
              /\ UNCHANGED <<launchGeneration, child, server, fences>>
           \/ /\ ~JITPending(r.state) /\ r.action # "Stop"
              /\ jit' = [jit EXCEPT ![g] = Disposed(r.state)]
              /\ session' = IF session = g THEN None ELSE session
              /\ UNCHANGED <<proc, launchGeneration, child, server, fences>>
           \/ /\ OwnsChild(g) /\ session' = None /\ StopAllWineProcesses /\ UNCHANGED proc
              /\ \/ jit' = [jit EXCEPT ![g] = Disposed(r.state)]
                 \/ jit' = [jit EXCEPT ![g] = Disposed([r.state EXCEPT !.phase = "Failed"])]
<1>1. /\ r.state \in Session /\ (r.action # "NoAction" => OwnsChild(g))
      /\ JITPending(r.state) => OwnsChild(g)
      /\ r.action = "Stop" => ~JITPending(r.state)
      /\ r.action = "Resume" => JITPending(r.state)
  BY DEF Good, GoodResult
<1>2. OwnsChild(g) => session = g
  BY DEF OwnsChild
<1>3. CASE r.action # "Resume"
  <2>1. Finish(g, r.state, r.action = "Stop") /\ UNCHANGED proc
    BY <1>3 DEF JITEventReceived
  <2>2. QED
    BY <1>1, <1>2, <2>1 DEF Finish
<1>4. CASE r.action = "Resume"
  <2>1. CASE Finish(g, [r.state EXCEPT !.phase = "Failed"], TRUE) /\ UNCHANGED proc
    <3>1. ~JITPending([r.state EXCEPT !.phase = "Failed"])
      BY <1>1, DisposedFields
    <3>2. QED
      BY <1>1, <1>2, <1>4, <2>1, <3>1 DEF Finish
  <2>2. CASE /\ jit' = [jit EXCEPT ![g] = r.state] /\ proc' = Continued(pidOf[g])
             /\ UNCHANGED <<session, launchGeneration, child, server, fences>>
    BY <1>1, <1>4, <2>2
  <2>3. QED
    BY <1>4, <2>1, <2>2 DEF JITEventReceived
<1>5. QED
  BY <1>3, <1>4

(* An event leaves behind only what has been observed. *)
LEMMA EventObserved ==
    ASSUME TypeOK, \A h \in Generations : ObservedOK(h), NEW g \in Generations, NEW r,
           NEW url, NEW dbg, NEW acked,
           JITEventReceived(g, r), Good(g, r, url, dbg, acked), UNCHANGED debugged,
           url => openURL'[g] = "accepted", dbg => debugged[g],
           acked => ack'[g] = "delivered",
           openURL[g] = "accepted" => openURL'[g] = "accepted",
           ack[g] = "delivered" => ack'[g] = "delivered",
           \A h \in Generations : h # g => openURL'[h] = openURL[h] /\ ack'[h] = ack[h]
    PROVE  /\ \A h \in Generations : ObservedOK(h)'
           /\ r.state.runtimeAcknowledged => ack'[g] = "delivered"
<1>1. /\ r.state \in Session
      /\ r.state.phase \in URLSeen => openURL'[g] = "accepted"
      /\ r.state.phase \in DebuggerSeen => debugged[g]
      /\ r.state.runtimeAcknowledged => ack'[g] = "delivered"
      /\ r.state.phase = "Ready" => ack'[g] = "delivered"
  BY DEF Good, GoodResult, ObservedOK
<1>2. /\ jit'[g].phase \in {r.state.phase, "Failed"}
      /\ jit'[g].runtimeAcknowledged => r.state.runtimeAcknowledged
      /\ \A h \in Generations : h # g => jit'[h] = jit[h]
  <2>1. jit \in [Generations -> Session]
    BY DEF TypeOK
  <2>2. \/ jit' = [jit EXCEPT ![g] = r.state]
        \/ jit' = [jit EXCEPT ![g] = Disposed(r.state)]
        \/ jit' = [jit EXCEPT ![g] = Disposed([r.state EXCEPT !.phase = "Failed"])]
    BY EventCases
  <2>3. /\ Disposed(r.state).phase = r.state.phase
        /\ Disposed(r.state).runtimeAcknowledged = FALSE
        /\ Disposed([r.state EXCEPT !.phase = "Failed"]).phase = "Failed"
        /\ Disposed([r.state EXCEPT !.phase = "Failed"]).runtimeAcknowledged = FALSE
    BY <1>1, DisposedFields, DisposedTyped
  <2>4. QED
    BY <2>1, <2>2, <2>3
<1>3. ASSUME NEW h \in Generations PROVE ObservedOK(h)'
  <2>1. CASE h = g
    BY <1>1, <1>2, <2>1 DEF ObservedOK, URLSeen, DebuggerSeen
  <2>2. CASE h # g
    BY <1>2, <2>2 DEF ObservedOK
  <2>3. QED
    BY <2>1, <2>2
<1>4. QED
  BY <1>1, <1>3

(* Stop hands a suspended child to a fence of its own, older, generation. *)
LEMMA StopHandoff ==
    ASSUME TypeOK, Ownership, HandoffOK, StopAllWineProcesses, session' = None,
           UNCHANGED proc, \A g \in Generations : ack'[g] # "none" => ack[g] # "none",
           ~foreground' => main' = "idle"
    PROVE  SessionOK' /\ GenerationsOK' /\ SuspendedOK' /\ BackgroundOK'
<1>1. /\ launchGeneration' = launchGeneration + 1 /\ child' = None
      /\ fences' = fences \cup StopFences /\ launchGeneration \in Nat
  BY MaxGenerationAssumption DEF StopAllWineProcesses, TypeOK
<1>2. SessionOK' /\ BackgroundOK'
  BY <1>1 DEF SessionOK, BackgroundOK
<1>3. GenerationsOK'
  <2>1. ASSUME NEW f \in fences', f.role = "child" PROVE f.gen < launchGeneration'
    <3>1. CASE f \in fences
      <4>1. f.gen \in Nat /\ f.gen < launchGeneration
        BY <2>1, <3>1, MaxGenerationAssumption DEF HandoffOK, GenerationsOK, TypeOK, Fence
      <4>2. QED
        BY <1>1, <4>1
    <3>2. CASE f \in StopFences
      <4>1. PICK p \in Owned : f = [pid |-> p, role |-> proc[p].role, gen |-> proc[p].gen,
                                    killed |-> FALSE]
        BY <3>2 DEF StopFences
      <4>2. proc[p].role = "child"
        BY <2>1, <4>1
      <4>3. p = child /\ child # None
        BY <4>2 DEF Owned, Ownership, OwnersNameTheirProcess
      <4>4. f.gen = launchGeneration
        BY <4>1, <4>3 DEF Ownership, OwnersNameTheirProcess, Is
      <4>5. QED
        BY <1>1, <4>4
    <3>3. QED
      BY <1>1, <3>1, <3>2
  <2>2. \A g \in Generations : ack'[g] # "none" => g <= launchGeneration'
    BY <1>1 DEF HandoffOK, GenerationsOK, Generations
  <2>3. QED
    BY <2>1, <2>2 DEF GenerationsOK
<1>4. SuspendedOK'
  <2>1. ASSUME NEW p \in Pids, proc[p].st = "suspended" PROVE \E f \in fences' : f.pid = p
    <3>1. CASE \E f \in fences : f.pid = p
      BY <1>1, <3>1
    <3>2. CASE child = p
      <4> DEFINE f == [pid |-> p, role |-> proc[p].role, gen |-> proc[p].gen,
                       killed |-> FALSE]
      <4>1. p \in Owned
        BY <3>2, NoneAssumption DEF Owned
      <4>2. f \in StopFences /\ f.pid = p
        BY <4>1 DEF StopFences
      <4>3. QED
        BY <1>1, <4>2
    <3>3. QED
      BY <2>1, <3>1, <3>2 DEF HandoffOK, SuspendedOK
  <2>2. QED
    BY <2>1 DEF SuspendedOK
<1>5. QED
  BY <1>2, <1>3, <1>4

(* Delivering an event keeps the handoff in order. *)
LEMMA EventHandoff ==
    ASSUME TypeOK, Ownership, HandoffOK, NEW g \in Generations, NEW r, NEW url, NEW dbg,
           NEW acked, JITEventReceived(g, r), Good(g, r, url, dbg, acked),
           UNCHANGED <<debugged, foreground, pidOf>>,
           url => openURL'[g] = "accepted", dbg => debugged[g],
           acked => ack'[g] = "delivered",
           openURL[g] = "accepted" => openURL'[g] = "accepted",
           ack[g] = "delivered" => ack'[g] = "delivered",
           ack'[g] # "none" <=> ack[g] # "none",
           \A h \in Generations : h # g => openURL'[h] = openURL[h] /\ ack'[h] = ack[h],
           main' = "idle", main # "idle" => session = g /\ ~JITPending(r.state)
    PROVE  HandoffOK'
<1>1. \A h \in Generations : ObservedOK(h)'
  BY EventObserved DEF HandoffOK
<1>2. r.state.runtimeAcknowledged => ack'[g] = "delivered"
  BY EventObserved DEF HandoffOK
<1>3. /\ SessionOK /\ ArmedOK /\ GenerationsOK /\ SuspendedOK /\ BackgroundOK
      /\ jit \in [Generations -> Session] /\ session \in Generations \cup {None}
      /\ r.state \in Session /\ r.state.armed = jit[g].armed
      /\ JITPending(jit[g]) /\ OwnsChild(g) /\ r.action # "Stop" /\ ~JITPending(r.state) =>
            foreground /\ r.state.runtimeAcknowledged
  BY DEF HandoffOK, TypeOK, Good, GoodResult
<1>4. \A h \in Generations : ack'[h] # "none" <=> ack[h] # "none"
  OBVIOUS
<1>5. g # None
  BY NoneAssumption, MaxGenerationAssumption DEF Generations
<1>6. CASE /\ JITPending(r.state) /\ OwnsChild(g)
           /\ jit' = [jit EXCEPT ![g] = r.state] /\ session' = session
           /\ proc' = proc \/ proc' = Continued(pidOf[g])
           /\ UNCHANGED <<launchGeneration, child, server, fences>>
  <2>1. session = g /\ main = "idle" /\ child \in Pids /\ jit'[g] = r.state
    BY <1>3, <1>6, NoneAssumption DEF OwnsChild, TypeOK
  <2>2. \A p \in Pids : proc'[p].st = "suspended" => proc[p].st = "suspended"
    BY <1>6 DEF Continued, TypeOK, Process
  <2>3. SessionOK'
    <3>1. OwnsChild(g)' /\ JITPending(jit'[g]) /\ jit'[g].armed
      <4>1. jit[g].armed
        BY <1>3, <1>5, <2>1 DEF SessionOK
      <4>2. OwnsChild(g)'
        BY <1>6 DEF OwnsChild
      <4>3. QED
        BY <1>3, <1>6, <2>1, <4>1, <4>2
    <3>2. ack[g] # "none" => proc[child].st # "suspended"
      BY <1>3, <1>5, <2>1 DEF SessionOK
    <3>3. ack'[g] # "none" => proc'[child].st # "suspended"
      BY <1>4, <2>1, <2>2, <3>2
    <3>4. OwnsChild(session)' /\ JITPending(jit[session])'
      BY <1>6, <2>1, <3>1 DEF OwnsChild
    <3>5. QED
      BY <1>6, <2>1, <3>1, <3>3, <3>4 DEF SessionOK
  <2>4. ArmedOK'
    BY <1>3, <1>6, <2>1 DEF ArmedOK
  <2>5. GenerationsOK' /\ SuspendedOK' /\ BackgroundOK'
    BY <1>3, <1>4, <1>6, <2>2 DEF GenerationsOK, SuspendedOK, BackgroundOK
  <2>6. QED
    BY <1>1, <2>3, <2>4, <2>5 DEF HandoffOK
<1>7. CASE /\ ~JITPending(r.state) /\ r.action # "Stop"
           /\ jit' = [jit EXCEPT ![g] = Disposed(r.state)]
           /\ session' = IF session = g THEN None ELSE session
           /\ UNCHANGED <<proc, launchGeneration, child, server, fences>>
  <2>1. jit'[g].armed = FALSE /\ \A h \in Generations : h # g => jit'[h] = jit[h]
    BY <1>3, <1>7, DisposedFields
  <2>2. ArmedOK' /\ GenerationsOK'
    BY <1>3, <1>4, <1>7, <2>1 DEF ArmedOK, GenerationsOK
  <2>3. CASE session = g
    <3>1. /\ OwnsChild(g) /\ JITPending(jit[g])
          /\ ack[g] # "none" => proc[child].st # "suspended"
      BY <1>3, <1>5, <2>3 DEF SessionOK
    <3>2. foreground /\ proc[child].st # "suspended"
      BY <1>2, <1>3, <1>4, <1>7, <3>1
    <3>3. SessionOK' /\ SuspendedOK' /\ BackgroundOK'
      BY <1>3, <1>7, <2>3, <3>2 DEF SessionOK, SuspendedOK, BackgroundOK
    <3>4. QED
      BY <1>1, <2>2, <3>3 DEF HandoffOK
  <2>4. CASE session # g
    <3>1. main = "idle" /\ session' = session
      BY <1>7, <2>4
    <3>2. SuspendedOK' /\ BackgroundOK'
      BY <1>3, <1>7, <3>1 DEF SuspendedOK, BackgroundOK
    <3>3. SessionOK'
      <4>1. CASE session = None
        BY <3>1, <4>1 DEF SessionOK
      <4>2. CASE session # None
        <5>1. /\ session \in Generations /\ jit'[session] = jit[session]
              /\ ack'[session] = ack[session]
          BY <1>3, <2>1, <2>4, <4>2
        <5>2. OwnsChild(session)'
          BY <1>3, <1>7, <3>1, <4>2 DEF SessionOK, OwnsChild
        <5>3. QED
          BY <1>3, <1>7, <3>1, <4>2, <5>1, <5>2 DEF SessionOK
      <4>3. QED
        BY <4>1, <4>2
    <3>4. QED
      BY <1>1, <2>2, <3>2, <3>3 DEF HandoffOK
  <2>5. QED
    BY <2>3, <2>4
<1>8. CASE /\ OwnsChild(g) /\ session' = None /\ StopAllWineProcesses /\ UNCHANGED proc
           /\ \/ jit' = [jit EXCEPT ![g] = Disposed(r.state)]
              \/ jit' = [jit EXCEPT ![g] = Disposed([r.state EXCEPT !.phase = "Failed"])]
  <2>1. jit'[g].armed = FALSE /\ \A h \in Generations : h # g => jit'[h] = jit[h]
    <3>1. [r.state EXCEPT !.phase = "Failed"] \in Session
      BY <1>3, DisposedTyped
    <3>2. QED
      BY <1>3, <1>8, <3>1, DisposedFields
  <2>2. session = g
    BY <1>8 DEF OwnsChild
  <2>3. ArmedOK'
    BY <1>3, <2>1, <2>2 DEF ArmedOK
  <2>4. SessionOK' /\ GenerationsOK' /\ SuspendedOK' /\ BackgroundOK'
    BY <1>4, <1>8, StopHandoff
  <2>5. QED
    BY <1>1, <2>3, <2>4 DEF HandoffOK
<1>9. QED
  BY <1>6, <1>7, <1>8, EventCases

(* Cancel ends a session without a claim to anything it has not seen. *)
LEMMA CancelHandoff ==
    ASSUME TypeOK, HandoffOK, NEW g \in Generations, CancelSession(g), session = g,
           UNCHANGED <<openURL, ack, debugged>>
    PROVE  ArmedOK' /\ \A h \in Generations : ObservedOK(h)'
<1> DEFINE x == Transition(g, "Cancel").state
<1>1. /\ jit \in [Generations -> Session] /\ jit[g] \in Session
      /\ x \in Session
  BY EventResultTyped DEF TypeOK
<1>2. x = jit[g] \/ x.phase = "Cancelled"
  BY <1>1 DEF Transition, JITTransition, Outcome, Session
<1>3. /\ jit'[g].phase = x.phase /\ jit'[g].armed = FALSE
      /\ jit'[g].runtimeAcknowledged = FALSE
      /\ \A h \in Generations : h # g => jit'[h] = jit[h]
  BY <1>1, DisposedFields DEF CancelSession
<1> HIDE DEF x
<1>4. ArmedOK'
  BY <1>3 DEF HandoffOK, ArmedOK
<1>5. ASSUME NEW h \in Generations PROVE ObservedOK(h)'
  <2>1. CASE h = g
    BY <1>2, <1>3, <2>1 DEF HandoffOK, ObservedOK, URLSeen, DebuggerSeen
  <2>2. CASE h # g
    BY <1>3, <2>2 DEF HandoffOK, ObservedOK
  <2>3. QED
    BY <2>1, <2>2
<1>6. QED
  BY <1>4, <1>5

(* JuiceJITHardenedStop. *)
LEMMA HardenedStopHandoff ==
    ASSUME TypeOK, Ownership, HandoffOK, NEW reason, HardenedStop(reason),
           UNCHANGED <<openURL, ack, debugged, proc, pidOf>>,
           ~foreground' => main' = "idle",
           Suppressed(reason) => main' = main
    PROVE  HandoffOK'
<1>1. CASE Suppressed(reason) /\ UNCHANGED <<ownerVars, jitVars>>
  <2>1. session # None
    BY <1>1 DEF Suppressed
  <2>2. QED
    BY <1>1, <2>1 DEF HandoffOK, ObservedOK, SessionOK, ArmedOK, GenerationsOK, SuspendedOK,
       BackgroundOK, OwnsChild, ownerVars, jitVars
<1>2. CASE CancelAnySession /\ StopAllWineProcesses
  <2>1. session' = None
    BY <1>2 DEF CancelAnySession, CancelSession, jitVars
  <2>2. SessionOK' /\ GenerationsOK' /\ SuspendedOK' /\ BackgroundOK'
    BY <1>2, <2>1, StopHandoff
  <2>3. ArmedOK' /\ \A h \in Generations : ObservedOK(h)'
    <3>1. CASE session = None /\ UNCHANGED jitVars
      BY <3>1 DEF HandoffOK, ArmedOK, ObservedOK, jitVars
    <3>2. CASE session # None /\ CancelSession(session)
      BY <3>2, CancelHandoff DEF TypeOK
    <3>3. QED
      BY <1>2, <3>1, <3>2 DEF CancelAnySession
  <2>4. QED
    BY <2>2, <2>3 DEF HandoffOK
<1>3. QED
  BY <1>1, <1>2 DEF HardenedStop

(* A step that concerns the handoff only by letting processes run or end. *)
LEMMA QuietHandoff ==
    ASSUME TypeOK, HandoffOK,
           UNCHANGED <<launchGeneration, child, session, jit, pidOf, foreground, openURL,
                       ack, debugged>>,
           main' = main \/ (main \notin {"idle", "adopt"} /\ main' # "adopt"),
           \A p \in Pids : proc'[p].st = "suspended" =>
              /\ proc[p].st = "suspended"
              /\ (\E f \in fences : f.pid = p) => \E f \in fences' : f.pid = p,
           \A f \in fences' : \E h \in fences : f.role = h.role /\ f.gen = h.gen
    PROVE  HandoffOK'
<1>1. (\A g \in Generations : ObservedOK(g)') /\ ArmedOK'
  BY DEF HandoffOK, ObservedOK, ArmedOK
<1>2. SessionOK'
  <2>1. ASSUME session # None
        PROVE  /\ OwnsChild(session) /\ JITPending(jit[session]) /\ child \in Pids
               /\ main = "adopt" => jit[session].phase = "Opening"
               /\ main # "adopt" => jit[session].armed
               /\ ack[session] # "none" => proc[child].st # "suspended"
    BY <2>1, NoneAssumption DEF HandoffOK, SessionOK, OwnsChild, TypeOK
  <2>2. ASSUME session # None PROVE OwnsChild(session)'
    BY <2>1, <2>2 DEF OwnsChild
  <2>3. QED
    BY <2>1, <2>2 DEF SessionOK
<1>3. GenerationsOK'
  BY DEF HandoffOK, GenerationsOK
<1>4. SuspendedOK' /\ BackgroundOK'
  BY DEF HandoffOK, SuspendedOK, BackgroundOK
<1>5. QED
  BY <1>1, <1>2, <1>3, <1>4 DEF HandoffOK

(* A session is associated only while its child is the one in use. *)
LEMMA SessionHasChild ==
    ASSUME TypeOK, HandoffOK, session # None
    PROVE  /\ session \in Generations /\ launchGeneration = session
           /\ child = pidOf[session] /\ child \in Pids /\ child # None
BY NoneAssumption DEF HandoffOK, SessionOK, OwnsChild, TypeOK

(* A child is adopted, running or suspended under a new session. *)
LEMMA AdoptHandoff ==
    ASSUME TypeOK, Ownership, HandoffOK, LaunchPlain \/ LaunchSuspended
    PROVE  HandoffOK'
<1>0. main = "spawn" /\ child = None /\ session = None /\ foreground
  <2>1. main = "spawn"
    BY DEF LaunchPlain, LaunchSuspended
  <2>2. child = None /\ foreground
    BY <2>1 DEF Ownership, LaunchTurnOwnsNoChild, HandoffOK, BackgroundOK, TypeOK
  <2>3. QED
    BY <2>1, <2>2, SessionHasChild
<1>1. PICK g \in Generations : g = launchGeneration + 1
  BY MaxGenerationAssumption DEF LaunchPlain, LaunchSuspended, TypeOK, Generations
<1>2. PICK p \in FreePids, st \in {"running", "suspended"} :
        /\ AdoptChild(p, g, st)
        /\ \/ LaunchPlain /\ st = "running"
           \/ LaunchSuspended /\ st = "suspended"
  BY <1>1 DEF LaunchPlain, LaunchSuspended
<1>3. /\ p \in Pids /\ p # None /\ g # None /\ launchGeneration \in Nat
      /\ ack[g] = "none" /\ g > launchGeneration
  <2>1. launchGeneration \in Nat
    BY MaxGenerationAssumption DEF TypeOK
  <2>2. p \in Pids /\ p # None /\ g # None
    BY NoneAssumption, MaxGenerationAssumption DEF FreePids, Generations
  <2>3. g > launchGeneration
    BY <1>1, <2>1
  <2>4. ack[g] # "none" => g <= launchGeneration
    BY DEF HandoffOK, GenerationsOK
  <2>5. QED
    BY <1>1, <2>1, <2>2, <2>3, <2>4
<1>4. /\ child' = p /\ launchGeneration' = g /\ pidOf'[g] = p
      /\ UNCHANGED <<fences, ack, openURL, debugged, foreground>>
      /\ \A q \in Pids : q # p => proc'[q] = proc[q]
      /\ proc'[p].st = st
  BY <1>2, <1>3 DEF AdoptChild, TypeOK, handoffVars, Spawned
<1>5. GenerationsOK'
  <2>1. \A f \in fences : f.gen \in Nat
    BY MaxGenerationAssumption DEF TypeOK, Fence
  <2>2. QED
    BY <1>1, <1>3, <1>4, <2>1 DEF HandoffOK, GenerationsOK, Generations
<1>6. \A h \in Generations : ~jit[h].armed
  BY <1>0, NoneAssumption, MaxGenerationAssumption DEF HandoffOK, ArmedOK, Generations
<1>7. CASE LaunchPlain /\ st = "running"
  <2>1. UNCHANGED <<session, jit>> /\ main' = "idle"
    BY <1>7 DEF LaunchPlain, jitVars
  <2>2. (\A h \in Generations : ObservedOK(h)') /\ ArmedOK'
    BY <1>4, <2>1 DEF HandoffOK, ObservedOK, ArmedOK
  <2>3. SessionOK' /\ BackgroundOK'
    BY <1>0, <1>4, <2>1 DEF SessionOK, BackgroundOK
  <2>4. SuspendedOK'
    BY <1>0, <1>4, <1>7 DEF HandoffOK, SuspendedOK
  <2>5. QED
    BY <1>5, <2>2, <2>3, <2>4 DEF HandoffOK
<1>8. CASE LaunchSuspended /\ st = "suspended"
  <2>1. /\ session' = g /\ jit' = [jit EXCEPT ![g] = NewSession] /\ main' = "adopt"
    BY <1>1, <1>8 DEF LaunchSuspended
  <2>2. /\ jit'[g] = NewSession /\ \A h \in Generations : h # g => jit'[h] = jit[h]
    BY <2>1 DEF TypeOK
  <2>3. /\ NewSession.phase = "Opening" /\ NewSession.armed = FALSE
        /\ NewSession.runtimeAcknowledged = FALSE /\ JITPending(NewSession)
    BY DEF NewSession, NoSession, JITPending, PendingPhases
  <2>4. ArmedOK'
    BY <1>6, <2>2, <2>3 DEF ArmedOK
  <2>5. ASSUME NEW h \in Generations PROVE ObservedOK(h)'
    <3>1. CASE h = g
      BY <2>2, <2>3, <3>1 DEF ObservedOK, URLSeen, DebuggerSeen
    <3>2. CASE h # g
      BY <1>4, <2>2, <3>2 DEF HandoffOK, ObservedOK
    <3>3. QED
      BY <3>1, <3>2
  <2>6. SessionOK'
    <3>1. OwnsChild(session)'
      BY <1>3, <1>4, <2>1 DEF OwnsChild
    <3>2. QED
      BY <1>3, <1>4, <2>1, <2>2, <2>3, <3>1 DEF SessionOK
  <2>7. SuspendedOK' /\ BackgroundOK'
    BY <1>0, <1>3, <1>4, <2>1 DEF HandoffOK, SuspendedOK, BackgroundOK
  <2>8. QED
    BY <1>5, <2>4, <2>5, <2>6, <2>7 DEF HandoffOK
<1>9. QED
  BY <1>2, <1>7, <1>8

(* A rejected handoff is over. *)
LEMMA RejectedEnds ==
    ASSUME TypeOK, NEW g \in Generations
    PROVE  ~JITPending(Transition(g, "OpenRejected").state)
<1>1. jit[g] \in Session
  BY DEF TypeOK
<1>2. QED
  BY <1>1 DEF Transition, JITTransition, Outcome, JITPending, PendingPhases, TerminalPhases,
     Session

(* JuiceJITAdoptLaunch arms the session, or gives the launch up. *)
LEMMA AdoptLaunchHandoff ==
    ASSUME TypeOK, Ownership, HandoffOK, AdoptLaunch
    PROVE  HandoffOK'
<1>0. PICK g \in Generations : g = session
  BY DEF AdoptLaunch, TypeOK
<1>1. /\ main = "adopt" /\ main' = "idle" /\ session # None
      /\ UNCHANGED <<pidOf, reader, ack, debugged, foreground>>
  BY DEF AdoptLaunch, readerVars
<1>2. CASE /\ jit' = [jit EXCEPT ![session].armed = TRUE]
           /\ openURL' = [openURL EXCEPT ![session] = "waiting"]
           /\ UNCHANGED <<ownerVars, session, proc>>
  <2> DEFINE x == jit[g]
             y == [x EXCEPT !.armed = TRUE]
  <2>1. x \in Session /\ jit' = [jit EXCEPT ![g] = y]
    BY <1>0, <1>2 DEF TypeOK
  <2>2. y.armed = TRUE /\ y.phase = x.phase /\ y.runtimeAcknowledged = x.runtimeAcknowledged
    BY <2>1 DEF Session
  <2> HIDE DEF y
  <2>3. /\ jit'[g] = y /\ \A h \in Generations : h # g => jit'[h] = jit[h]
        /\ \A h \in Generations : h # g => openURL'[h] = openURL[h]
    BY <1>0, <1>2, <2>1 DEF TypeOK
  <2>4. /\ OwnsChild(g) /\ JITPending(x) /\ x.phase = "Opening"
        /\ ack[g] # "none" => proc[child].st # "suspended"
    BY <1>0, <1>1 DEF HandoffOK, SessionOK
  <2>5. ASSUME NEW h \in Generations PROVE ObservedOK(h)'
    <3>1. CASE h = g
      BY <1>1, <2>2, <2>3, <2>4, <3>1 DEF HandoffOK, ObservedOK, URLSeen, DebuggerSeen
    <3>2. CASE h # g
      BY <1>1, <2>3, <3>2 DEF HandoffOK, ObservedOK
    <3>3. QED
      BY <3>1, <3>2
  <2>6. SessionOK'
    <3>1. OwnsChild(session)'
      BY <1>0, <1>1, <1>2, <2>4 DEF OwnsChild, ownerVars
    <3>2. QED
      BY <1>0, <1>1, <1>2, <2>2, <2>3, <2>4, <3>1 DEF SessionOK, JITPending, ownerVars
  <2>7. ArmedOK'
    BY <1>0, <1>2, <2>3 DEF HandoffOK, ArmedOK
  <2>8. GenerationsOK' /\ SuspendedOK' /\ BackgroundOK'
    BY <1>1, <1>2 DEF HandoffOK, GenerationsOK, SuspendedOK, BackgroundOK, ownerVars
  <2>9. QED
    BY <2>5, <2>6, <2>7, <2>8 DEF HandoffOK
<1>3. CASE JITEventReceived(session, Transition(session, "OpenRejected")) /\ UNCHANGED openURL
  <2>1. "OpenRejected" \in Events \ {"Cancel"}
    BY DEF Events
  <2>2. Good(g, Transition(g, "OpenRejected"), FALSE, FALSE, FALSE)
    <3>1. Good(g, Transition(g, "OpenRejected"), "OpenRejected" = "OpenAccepted",
               "OpenRejected" = "Debugged", "OpenRejected" = "RuntimeAck")
      BY <2>1, EventGood
    <3>2. QED
      BY <3>1 DEF Good, GoodResult
  <2>3. JITEventReceived(g, Transition(g, "OpenRejected"))
    BY <1>0, <1>3
  <2>4. QED
    BY <1>0, <1>1, <1>3, <2>2, <2>3, RejectedEnds, EventHandoff
<1>4. QED
  BY <1>2, <1>3 DEF AdoptLaunch

(* The blocks of a session: timer, completion of openURL:, expiration, output. *)
LEMMA SessionBlockHandoff ==
    ASSUME TypeOK, Ownership, HandoffOK, NEW g \in Generations, SessionBlock(g)
    PROVE  HandoffOK'
<1>0. {"OpenAccepted", "OpenRejected", "RuntimeAck"} \subseteq Events \ {"Cancel"}
  BY DEF Events
<1>1. CASE TimerFires(g)
  <2>1. /\ main = "idle" /\ UNCHANGED <<main, pidOf, ack, openURL, debugged, foreground>>
        /\ JITEventReceived(g, TimerResult(g))
    BY <1>1 DEF TimerFires, readerVars, handoffVars
  <2>2. PICK r : r = TimerResult(g)
    OBVIOUS
  <2>3. PICK seen \in BOOLEAN : seen = debugged[g]
    BY DEF TypeOK
  <2>4. JITEventReceived(g, r) /\ Good(g, r, FALSE, seen, FALSE)
    <3>1. Good(g, TimerResult(g), FALSE, debugged[g], FALSE)
      BY TimerGood
    <3>2. QED
      BY <2>1, <2>2, <2>3, <3>1
  <2>5. /\ UNCHANGED <<debugged, foreground, pidOf>> /\ seen => debugged[g]
        /\ openURL' = openURL /\ ack' = ack /\ main' = "idle"
    BY <2>1, <2>3
  <2>6. QED
    BY <2>1, <2>4, <2>5, EventHandoff
<1>2. ASSUME NEW ok \in BOOLEAN, OpenURLCompleted(g, ok) PROVE HandoffOK'
  <2>1. /\ main = "idle" /\ UNCHANGED <<main, pidOf, ack, debugged, foreground>>
        /\ openURL[g] = "waiting"
        /\ openURL' = [openURL EXCEPT ![g] = IF ok THEN "accepted" ELSE "rejected"]
    BY <1>2 DEF OpenURLCompleted, readerVars
  <2>2. /\ openURL'[g] = IF ok THEN "accepted" ELSE "rejected"
        /\ \A h \in Generations : h # g => openURL'[h] = openURL[h]
    BY <2>1 DEF TypeOK
  <2>3. PICK e \in Events \ {"Cancel"} :
          /\ JITEventReceived(g, Transition(g, e))
          /\ e = IF ok THEN "OpenAccepted" ELSE "OpenRejected"
    BY <1>0, <1>2 DEF OpenURLCompleted
  <2>4. Good(g, Transition(g, e), ok, FALSE, FALSE)
    <3>1. Good(g, Transition(g, e), e = "OpenAccepted", e = "Debugged", e = "RuntimeAck")
      BY EventGood
    <3>2. (e = "OpenAccepted" => ok) /\ e # "Debugged" /\ e # "RuntimeAck"
      BY <2>3
    <3>3. QED
      BY <3>1, <3>2 DEF Good, GoodResult
  <2>5. QED
    BY <2>1, <2>2, <2>3, <2>4, EventHandoff
<1>3. CASE BackgroundTaskExpired(g)
  <2>1. /\ main = "idle" /\ UNCHANGED <<main, pidOf, ack, openURL, debugged, foreground>>
        /\ JITEventReceived(g, Transition(g, "OpenRejected"))
    BY <1>3 DEF BackgroundTaskExpired, readerVars
  <2>2. Good(g, Transition(g, "OpenRejected"), FALSE, FALSE, FALSE)
    <3>1. Good(g, Transition(g, "OpenRejected"), "OpenRejected" = "OpenAccepted",
               "OpenRejected" = "Debugged", "OpenRejected" = "RuntimeAck")
      BY <1>0, EventGood
    <3>2. QED
      BY <3>1 DEF Good, GoodResult
  <2>3. QED
    BY <2>1, <2>2, EventHandoff
<1>4. CASE ObserveOutput(g)
  <2>1. /\ main = "idle" /\ UNCHANGED <<main, pidOf, openURL, debugged, foreground>>
        /\ ack[g] = "queued" /\ ack' = [ack EXCEPT ![g] = "delivered"]
    BY <1>4 DEF ObserveOutput, handoffVars
  <2>2. /\ ack'[g] = "delivered" /\ \A h \in Generations : h # g => ack'[h] = ack[h]
    BY <2>1 DEF TypeOK
  <2>3. CASE JITEventReceived(g, Transition(g, "RuntimeAck"))
    <3>1. Good(g, Transition(g, "RuntimeAck"), FALSE, FALSE, TRUE)
      <4>1. Good(g, Transition(g, "RuntimeAck"), "RuntimeAck" = "OpenAccepted",
                 "RuntimeAck" = "Debugged", "RuntimeAck" = "RuntimeAck")
        BY <1>0, EventGood
      <4>2. QED
        BY <4>1 DEF Good, GoodResult
    <3>2. QED
      BY <2>1, <2>2, <2>3, <3>1, EventHandoff
  <2>4. CASE UNCHANGED <<ownerVars, jitVars, proc>>
    <3>1. UNCHANGED <<launchGeneration, child, fences, session, jit, proc>>
      BY <2>4 DEF ownerVars, jitVars
    <3>2. \A h \in Generations : (ack'[h] # "none" <=> ack[h] # "none")
                                 /\ (ack[h] = "delivered" => ack'[h] = "delivered")
      BY <2>1, <2>2
    <3>3. (\A h \in Generations : ObservedOK(h)') /\ ArmedOK'
      BY <2>1, <3>1, <3>2 DEF HandoffOK, ObservedOK, ArmedOK
    <3>4. GenerationsOK' /\ SuspendedOK' /\ BackgroundOK'
      BY <2>1, <3>1, <3>2 DEF HandoffOK, GenerationsOK, SuspendedOK, BackgroundOK
    <3>5. SessionOK'
      BY <2>1, <3>1, <3>2 DEF HandoffOK, SessionOK, OwnsChild, TypeOK
    <3>6. QED
      BY <3>3, <3>4, <3>5 DEF HandoffOK
  <2>5. QED
    BY <1>4, <2>3, <2>4 DEF ObserveOutput
<1>5. QED
  BY <1>1, <1>2, <1>3, <1>4 DEF SessionBlock

(* The poll of a child, and its reader. *)
LEMMA PollHandoff ==
    ASSUME TypeOK, Ownership, HandoffOK, NEW g \in Generations, Poll(g) \/ Reader(g)
    PROVE  HandoffOK'
<1>1. CASE PollStale(g)
  <2>1. /\ launchGeneration # g
        /\ UNCHANGED <<main, launchGeneration, child, fences, session, jit, proc, foreground,
                       openURL, ack, debugged>>
        /\ \A h \in Generations : h # g => pidOf'[h] = pidOf[h]
    BY <1>1 DEF PollStale, PollEnds, ownerVars, jitVars, handoffVars, TypeOK
  <2>2. (\A h \in Generations : ObservedOK(h)') /\ ArmedOK'
    BY <2>1 DEF HandoffOK, ObservedOK, ArmedOK
  <2>3. GenerationsOK' /\ SuspendedOK' /\ BackgroundOK'
    BY <2>1 DEF HandoffOK, GenerationsOK, SuspendedOK, BackgroundOK
  <2>4. SessionOK'
    <3>1. session # None => OwnsChild(session)'
      BY <2>1, SessionHasChild DEF OwnsChild
    <3>2. QED
      BY <2>1, <3>1 DEF HandoffOK, SessionOK
  <2>5. QED
    BY <2>2, <2>3, <2>4 DEF HandoffOK
<1>2. CASE PollReaps(g)
  <2> DEFINE p == pidOf[g]
  <2>1. /\ launchGeneration = g /\ child # None /\ child = p /\ p \in Pids /\ OurChild(p)
    BY <1>2 DEF PollReaps, PollEnabled, Ownership, CurrentPollNamesChild, TypeOK, Is,
       OwnersNameTheirProcess, OurChild
  <2>2. /\ child' = None /\ proc'[p] = FreeProcess
        /\ \A q \in Pids : q # p => proc'[q] = proc[q]
        /\ UNCHANGED <<main, launchGeneration, fences, ack, openURL, debugged, foreground>>
    BY <1>2, <2>1 DEF PollReaps, TypeOK, handoffVars
  <2>3. session # None => session = g
    BY <2>1, SessionHasChild
  <2>4. session' = None /\ ArmedOK' /\ \A h \in Generations : ObservedOK(h)'
    <3>1. CASE session = g /\ CancelSession(g)
      BY <2>2, <3>1, CancelHandoff DEF CancelSession
    <3>2. CASE session # g /\ UNCHANGED jitVars
      BY <2>2, <2>3, <3>2 DEF jitVars, HandoffOK, ArmedOK, ObservedOK
    <3>3. QED
      BY <1>2, <3>1, <3>2 DEF PollReaps
  <2>5. SessionOK' /\ GenerationsOK'
    BY <2>2, <2>4 DEF HandoffOK, SessionOK, GenerationsOK
  <2>6. BackgroundOK' /\ SuspendedOK'
    BY <2>1, <2>2 DEF HandoffOK, BackgroundOK, SuspendedOK, FreeProcess
  <2>7. QED
    BY <2>4, <2>5, <2>6 DEF HandoffOK
<1>3. CASE RuntimeReports(g)
  <2>1. /\ UNCHANGED <<main, launchGeneration, child, fences, session, jit, proc, foreground,
                       pidOf, openURL, debugged>>
        /\ ack[g] = "none" /\ reader[g] = "reading" /\ ack' = [ack EXCEPT ![g] = "queued"]
        /\ \E p \in Pids : Is(p, "child", g) /\ proc[p].st = "running"
    BY <1>3 DEF RuntimeReports, ownerVars, jitVars, handoffVars
  <2>2. /\ ack'[g] = "queued" /\ \A h \in Generations : h # g => ack'[h] = ack[h]
    BY <2>1 DEF TypeOK
  <2>3. g <= launchGeneration
    BY <2>1 DEF Ownership, CurrentPollNamesChild
  <2>4. ASSUME session = g PROVE proc[child].st # "suspended"
    <3>1. PICK p \in Pids : Is(p, "child", g) /\ proc[p].st = "running"
      BY <2>1
    <3>2. launchGeneration = g
      BY <2>4, SessionHasChild, NoneAssumption, MaxGenerationAssumption DEF Generations
    <3>3. \A f \in fences : f.pid # p
      <4>1. ASSUME NEW f \in fences, f.pid = p PROVE FALSE
        <5>1. f.role = "child" /\ f.gen = g
          BY <3>1, <4>1 DEF Ownership, FencesReservePids, Is
        <5>2. QED
          BY <3>2, <4>1, <5>1 DEF HandoffOK, GenerationsOK, Generations
      <4>2. QED
        BY <4>1
    <3>4. p \in Owned
      BY <3>1, <3>3 DEF Ownership, EveryProcessHasAnOwner, OurChild, Is
    <3>5. p = child
      BY <3>1, <3>4 DEF Owned, Ownership, OwnersNameTheirProcess, Is
    <3>6. QED
      BY <3>1, <3>5
  <2>5. (\A h \in Generations : ObservedOK(h)') /\ ArmedOK'
    BY <2>1, <2>2 DEF HandoffOK, ObservedOK, ArmedOK
  <2>6. GenerationsOK' /\ SuspendedOK' /\ BackgroundOK'
    BY <2>1, <2>2, <2>3 DEF HandoffOK, GenerationsOK, SuspendedOK, BackgroundOK
  <2>7. SessionOK'
    <3>1. session # None => OwnsChild(session)' /\ session \in Generations
      BY <2>1 DEF HandoffOK, SessionOK, OwnsChild, TypeOK
    <3>2. session # None /\ ack'[session] # "none" => proc[child].st # "suspended"
      BY <2>2, <2>4, <3>1 DEF HandoffOK, SessionOK
    <3>3. QED
      BY <2>1, <3>1, <3>2 DEF HandoffOK, SessionOK
  <2>8. QED
    BY <2>5, <2>6, <2>7 DEF HandoffOK
<1>4. CASE ReaderEnds(g)
  BY <1>4, QuietHandoff DEF ReaderEnds, ownerVars, jitVars, handoffVars
<1>5. QED
  BY <1>1, <1>2, <1>3, <1>4 DEF Poll, Reader

(* The fences. *)
LEMMA FenceHandoff ==
    ASSUME TypeOK, Ownership, HandoffOK, NEW f \in fences, FenceBlock(f)
    PROVE  HandoffOK'
<1>1. /\ f \in Fence /\ f.pid \in Pids /\ OurChild(f.pid)
      /\ \A h \in fences : h.pid = f.pid => h = f
  BY DEF TypeOK, Fence, Ownership, FencesReservePids
<1>2. CASE FenceKills(f)
  <2> DEFINE k == [f EXCEPT !.killed = TRUE]
  <2>1. /\ fences' = (fences \ {f}) \cup {k} /\ proc' = Killed(f.pid)
        /\ UNCHANGED <<main, launchGeneration, child, session, jit, pidOf, foreground,
                       openURL, ack, debugged>>
    BY <1>2 DEF FenceKills, readerVars, jitVars, handoffVars
  <2>2. k.pid = f.pid /\ k.role = f.role /\ k.gen = f.gen
    BY <1>1 DEF Fence
  <2> HIDE DEF k
  <2>3. \A p \in Pids : proc'[p].st = "suspended" => proc[p].st = "suspended"
    BY <2>1 DEF Killed, TypeOK, Process
  <2>4. \A h \in fences : \E o \in fences' : o.pid = h.pid
    BY <2>1, <2>2
  <2>5. \A o \in fences' : \E h \in fences : o.role = h.role /\ o.gen = h.gen
    BY <2>1, <2>2
  <2>6. QED
    <3>1. \A p \in Pids : proc'[p].st = "suspended" =>
            /\ proc[p].st = "suspended"
            /\ (\E h \in fences : h.pid = p) => \E h \in fences' : h.pid = p
      BY <2>3, <2>4
    <3>2. QED
      BY <2>1, <2>5, <3>1, QuietHandoff
<1>3. CASE FenceReaps(f)
  <2>1. /\ fences' = fences \ {f} /\ proc'[f.pid] = FreeProcess
        /\ \A p \in Pids : p # f.pid => proc'[p] = proc[p]
        /\ UNCHANGED <<main, launchGeneration, child, session, jit, pidOf, foreground,
                       openURL, ack, debugged>>
    BY <1>1, <1>3 DEF FenceReaps, readerVars, jitVars, handoffVars, TypeOK
  <2>2. ASSUME NEW p \in Pids, proc'[p].st = "suspended"
        PROVE  /\ proc[p].st = "suspended"
               /\ (\E h \in fences : h.pid = p) => \E h \in fences' : h.pid = p
    <3>1. p # f.pid
      BY <2>1, <2>2 DEF FreeProcess
    <3>2. QED
      BY <2>1, <2>2, <3>1
  <2>3. \A o \in fences' : \E h \in fences : o.role = h.role /\ o.gen = h.gen
    BY <2>1
  <2>4. QED
    BY <2>1, <2>2, <2>3, QuietHandoff
<1>4. QED
  BY <1>2, <1>3 DEF FenceBlock

(* Everything outside the application. *)
LEMMA EnvironmentHandoff ==
    ASSUME TypeOK, Ownership, HandoffOK, Environment
    PROVE  HandoffOK'
<1>1. ASSUME NEW p \in Pids, Exit(p) \/ ForeignSpawn(p) \/ DebuggerResumes(p)
      PROVE  HandoffOK'
  <2>1. UNCHANGED <<main, launchGeneration, child, fences, session, jit, pidOf, foreground,
                    openURL, ack, debugged>>
    BY <1>1 DEF Exit, ForeignSpawn, DebuggerResumes, ownerVars, readerVars, jitVars,
       handoffVars
  <2>2. proc[p] \in Process /\ \A q \in Pids : q # p => proc'[q] = proc[q]
    BY <1>1 DEF Exit, ForeignSpawn, DebuggerResumes, Continued, TypeOK
  <2>3. proc'[p].st = "suspended" => proc[p].st = "suspended"
    <3>1. CASE Exit(p)
      <4>1. proc'[p] = IF OurChild(p) THEN [proc[p] EXCEPT !.st = "zombie"] ELSE FreeProcess
        BY <3>1 DEF Exit, TypeOK
      <4>2. QED
        BY <2>2, <4>1 DEF Process, FreeProcess
    <3>2. CASE ForeignSpawn(p)
      <4>1. proc'[p] = ForeignProcess
        BY <3>2 DEF ForeignSpawn, TypeOK
      <4>2. QED
        BY <4>1 DEF ForeignProcess
    <3>3. CASE DebuggerResumes(p)
      BY <3>3 DEF DebuggerResumes
    <3>4. QED
      BY <1>1, <3>1, <3>2, <3>3
  <2>4. \A q \in Pids : proc'[q].st = "suspended" => proc[q].st = "suspended"
    BY <2>2, <2>3
  <2>5. QED
    BY <2>1, <2>4, QuietHandoff
<1>2. ASSUME NEW g \in Generations, DebuggerAttaches(g) PROVE HandoffOK'
  <2>1. /\ UNCHANGED <<main, launchGeneration, child, fences, session, jit, pidOf, foreground,
                       openURL, ack, proc>>
        /\ \A h \in Generations : debugged[h] => debugged'[h]
    BY <1>2 DEF DebuggerAttaches, ownerVars, readerVars, jitVars, TypeOK
  <2>2. (\A h \in Generations : ObservedOK(h)') /\ ArmedOK'
    BY <2>1 DEF HandoffOK, ObservedOK, ArmedOK
  <2>3. GenerationsOK' /\ SuspendedOK' /\ BackgroundOK'
    BY <2>1 DEF HandoffOK, GenerationsOK, SuspendedOK, BackgroundOK
  <2>4. SessionOK'
    BY <2>1 DEF HandoffOK, SessionOK, OwnsChild
  <2>5. QED
    BY <2>2, <2>3, <2>4 DEF HandoffOK
<1>3. ASSUME NEW g \in Generations, DeadlinePasses(g) PROVE HandoffOK'
  <2> DEFINE x == jit[g]
             y == [x EXCEPT !.expired = TRUE]
  <2>1. /\ UNCHANGED <<main, launchGeneration, child, fences, session, pidOf, foreground,
                       openURL, ack, debugged, proc>>
        /\ x \in Session /\ jit' = [jit EXCEPT ![g] = y]
    BY <1>3 DEF DeadlinePasses, ownerVars, readerVars, handoffVars, TypeOK
  <2>2. /\ y.phase = x.phase /\ y.armed = x.armed
        /\ y.runtimeAcknowledged = x.runtimeAcknowledged
    BY <2>1 DEF Session
  <2> HIDE DEF y
  <2>3. \A h \in Generations : /\ jit'[h].phase = jit[h].phase /\ jit'[h].armed = jit[h].armed
                               /\ jit'[h].runtimeAcknowledged = jit[h].runtimeAcknowledged
    BY <2>1, <2>2 DEF TypeOK
  <2>4. (\A h \in Generations : ObservedOK(h)') /\ ArmedOK'
    BY <2>1, <2>3 DEF HandoffOK, ObservedOK, ArmedOK
  <2>5. GenerationsOK' /\ SuspendedOK' /\ BackgroundOK'
    BY <2>1 DEF HandoffOK, GenerationsOK, SuspendedOK, BackgroundOK
  <2>6. SessionOK'
    <3>1. session # None => OwnsChild(session)' /\ session \in Generations
      BY <2>1, SessionHasChild DEF HandoffOK, SessionOK, OwnsChild
    <3>2. QED
      BY <2>1, <2>3, <3>1 DEF HandoffOK, SessionOK, JITPending
  <2>7. QED
    BY <2>4, <2>5, <2>6 DEF HandoffOK
<1>4. ASSUME NEW g \in Generations, BackgroundTimeRunsOut(g) PROVE HandoffOK'
  BY <1>4, QuietHandoff DEF BackgroundTimeRunsOut, ownerVars, readerVars, jitVars
<1>5. QED
  BY <1>1, <1>2, <1>3, <1>4 DEF Environment

LEMMA HandoffStep == TypeOK /\ Ownership /\ HandoffOK /\ [Next]_vars => HandoffOK'
<1> SUFFICES ASSUME TypeOK, Ownership, HandoffOK, [Next]_vars PROVE HandoffOK'
  OBVIOUS
<1>0. main # "idle" => foreground
  BY DEF HandoffOK, BackgroundOK
<1>1. CASE LaunchTapped \/ LaunchFailAfterServer \/ StopTapped
           \/ ApplicationWillResignActive
  <2>1. UNCHANGED <<openURL, ack, debugged, proc, pidOf>>
    BY <1>1 DEF LaunchTapped, LaunchFailAfterServer, StopTapped,
       ApplicationWillResignActive, readerVars, handoffVars
  <2>2. PICK reason \in {"new-launch", "launch-setup-failed", "user-stop",
                         "application-will-resign-active"} :
          /\ HardenedStop(reason)
          /\ ~foreground' => main' = "idle"
          /\ reason = "application-will-resign-active" => main' = main
    <3>1. CASE LaunchTapped
      BY <3>1 DEF LaunchTapped
    <3>2. CASE LaunchFailAfterServer
      BY <3>2 DEF LaunchFailAfterServer
    <3>3. CASE StopTapped
      BY <3>3 DEF StopTapped
    <3>4. CASE ApplicationWillResignActive
      BY <3>4 DEF ApplicationWillResignActive
    <3>5. QED
      BY <1>1, <3>1, <3>2, <3>3, <3>4
  <2>3. Suppressed(reason) => main' = main
    BY <2>2 DEF Suppressed
  <2>4. QED
    BY <2>1, <2>2, <2>3, HardenedStopHandoff
<1>2. CASE LaunchReject
  BY <1>2, QuietHandoff DEF LaunchReject, readerVars, jitVars, handoffVars
<1>3. CASE SpawnServer
  <2>1. PICK p \in FreePids :
          proc' = [proc EXCEPT ![p] = Spawned("server", launchGeneration + 1, "running")]
    BY <1>3 DEF SpawnServer
  <2>2. \A q \in Pids : proc'[q].st = "suspended" => proc[q].st = "suspended"
    BY <2>1 DEF Spawned, TypeOK
  <2>3. /\ UNCHANGED <<launchGeneration, child, fences, session, jit, pidOf, foreground,
                       openURL, ack, debugged>>
        /\ main = "prepare" /\ main' = "spawn"
    BY <1>3 DEF SpawnServer, readerVars, jitVars, handoffVars
  <2>4. QED
    BY <2>2, <2>3, QuietHandoff
<1>4. CASE DidBecomeActive
  <2>1. /\ UNCHANGED <<main, launchGeneration, child, fences, session, jit, pidOf, openURL,
                       ack, debugged, proc>>
        /\ foreground' = TRUE
    BY <1>4 DEF DidBecomeActive, ownerVars, readerVars, jitVars, handoffVars
  <2>2. QED
    BY <2>1 DEF HandoffOK, ObservedOK, SessionOK, ArmedOK, GenerationsOK, SuspendedOK,
       BackgroundOK, OwnsChild
<1>5. CASE UNCHANGED vars
  BY <1>5, QuietHandoff DEF vars, ownerVars, readerVars, jitVars, handoffVars
<1>6. QED
  BY <1>1, <1>2, <1>3, <1>4, <1>5, AdoptHandoff, AdoptLaunchHandoff, SessionBlockHandoff,
     PollHandoff, FenceHandoff, EnvironmentHandoff DEF Next, LaunchTurn, UserActs

LEMMA InitHandoff == Init => HandoffOK
<1> SUFFICES ASSUME Init PROVE HandoffOK
  OBVIOUS
<1>1. \A g \in Generations : /\ jit[g].phase = "none" /\ jit[g].armed = FALSE
                             /\ jit[g].runtimeAcknowledged = FALSE /\ ack[g] = "none"
  BY DEF Init, NoSession
<1>2. \A p \in Pids : proc[p].st = "free"
  BY DEF Init, FreeProcess
<1>3. QED
  BY <1>1, <1>2 DEF Init, HandoffOK, ObservedOK, URLSeen, DebuggerSeen, SessionOK, ArmedOK,
     GenerationsOK, SuspendedOK, BackgroundOK

LEMMA HandoffAlways == Spec => [](TypeOK /\ HandoffOK)
<1>1. Init => TypeOK /\ Ownership /\ HandoffOK
  BY InitOwnership, InitHandoff
<1>2. (TypeOK /\ Ownership /\ HandoffOK) /\ [Next]_vars => (TypeOK /\ Ownership /\ HandoffOK)'
  BY TypeStep, OwnershipStep, HandoffStep
<1>3. QED
  BY <1>1, <1>2, PTL DEF Spec

(* Readiness takes the accepted URL, the debugger and the acknowledgement of the
   session's own launch, in whatever order they arrive (JuiceJITState.h). *)
THEOREM ReadinessIsEarned == Spec => []ReadyNeedsAllThree
<1>1. HandoffOK => ReadyNeedsAllThree
  BY DEF HandoffOK, ObservedOK, URLSeen, DebuggerSeen, ReadyNeedsAllThree
<1>2. QED
  BY <1>1, HandoffAlways, PTL

(* A suspended child always has an armed session or a termination fence. *)
THEOREM SuspendedChildHasAGuard == Spec => []SuspendedChildIsGuarded
<1>1. TypeOK /\ HandoffOK => SuspendedChildIsGuarded
  BY DEF HandoffOK, SuspendedOK, SessionOK, OwnsChild, SuspendedChildIsGuarded
<1>2. QED
  BY <1>1, HandoffAlways, PTL

(* In the background a child is kept only for the handoff the user left for. *)
THEOREM BackgroundIsForTheHandoff == Spec => []BackgroundKeepsOnlyHandoff
<1>1. HandoffOK => BackgroundKeepsOnlyHandoff
  BY DEF HandoffOK, BackgroundOK, SessionOK, BackgroundKeepsOnlyHandoff
<1>2. QED
  BY <1>1, HandoffAlways, PTL
=============================================================================
