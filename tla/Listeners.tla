----------------------------- MODULE Listeners ------------------------------
(***************************************************************************)
(* The host's two listening sockets (app/JuiceSocketHardening.m) and what  *)
(* the application's lifecycle does with them                              *)
(* (app/JuiceLifecycleHardening.m): starting, repairing on the way back to *)
(* the foreground, retrying, serving in an accept loop per generation and  *)
(* ending for good.                                                        *)
(*                                                                         *)
(* JuiceStartListener holds the controller's lock from end to end, but the *)
(* accept loops test whether they are current without it and by descriptor *)
(* number, so its steps are separate.  A listening socket is named by its  *)
(* kind and the generation that made it.  Both sockets always use the same *)
(* two paths.                                                              *)
(***************************************************************************)
EXTENDS Integers, FiniteSetsExt

CONSTANTS
    Kinds,      \* the display and the control socket
    Numbers,    \* descriptor numbers of the application
    MaxStarts,  \* bound on starts asked for from outside
    MaxFaults,  \* bound on failures of the system
    MaxLost,    \* bound on descriptors closed behind the application's back
    MaxClients, \* bound on the connections served
    None

ASSUME NumbersAssumption == Numbers \subseteq Nat
ASSUME BoundsAssumption == MaxStarts \in Nat /\ MaxFaults \in Nat /\ MaxLost \in Nat
                           /\ MaxClients \in Nat

VARIABLES
    fd,           \* listenFD, controlListenFD
    generation,   \* the listener generations
    path,         \* kind -> the generation whose socket is bound at the path, 0 if none
    table,        \* number -> what it stands for
    loop,         \* kind, generation -> its accept loop
    timer,        \* kind, generation -> its retry
    lock,         \* the start that holds the lock
    failure,      \* kind -> how the last start ended
    terminating,  \* "no", "flagged", "done"
    starts, faults, lost,
    served        \* history: <<kind, generation of the loop, socket accepted on>>

counters == <<starts, faults, lost>>
vars == <<fd, generation, path, table, loop, timer, lock, failure, terminating,
          counters, served>>

MaxGeneration == MaxStarts + MaxFaults + 1
Generations == 1..MaxGeneration
Listener == [is : {"listener"}, kind : Kinds, generation : Generations]
ClientOf == [is : {"client"}, from : Listener]
Loop == [pc : {"none", "check", "probe", "accept", "checkClient", "probeClient",
               "failed", "probeFailed", "ended", "done"},
         number : Numbers \cup {None}, client : Numbers \cup {None}]
InStart == [kind : Kinds, step : {"reset", "bind"}]
ASSUME NoneAssumption == None \notin Numbers \cup Listener \cup ClientOf \cup InStart

NoLoop == [pc |-> "none", number |-> None, client |-> None]

Init == /\ fd = [k \in Kinds |-> None]
        /\ generation = [k \in Kinds |-> 0]
        /\ path = [k \in Kinds |-> 0]
        /\ table = [n \in Numbers |-> None]
        /\ loop = [k \in Kinds |-> [g \in Generations |-> NoLoop]]
        /\ timer = [k \in Kinds |-> [g \in Generations |-> "none"]]
        /\ lock = None
        /\ failure = [k \in Kinds |-> "none"]
        /\ terminating = "no" /\ starts = 0 /\ faults = 0 /\ lost = 0 /\ served = {}

IsListener(n) == n # None /\ table[n] # None /\ table[n].is = "listener"

(* JuiceListenerFDMatchesPath and JuiceListenerOwnsFD ask the kernel. *)
MatchesPath(k, n) == IsListener(n) /\ table[n].kind = k

FreeNumbers == {n \in Numbers : table[n] = None}

-----------------------------------------------------------------------------
(* JuiceStartListener *)

Healthy(k) == MatchesPath(k, fd[k]) /\ path[k] # 0

StartKeepsOld(k) ==   \* mutant: the old listener is not closed
    /\ terminating = "no" /\ ~Healthy(k)
    /\ lock' = [kind |-> k, step |-> "reset"]
    /\ UNCHANGED table

StartClosed(k) ==
    /\ terminating = "no" /\ ~Healthy(k)
    /\ table' = IF MatchesPath(k, fd[k]) THEN [table EXCEPT ![fd[k]] = None] ELSE table
    /\ lock' = [kind |-> k, step |-> "reset"]

StartListener(k) ==
    /\ lock = None
    /\ \/ StartClosed(k)
       \/ (terminating # "no" \/ Healthy(k)) /\ UNCHANGED <<table, lock>>

(* viewDidLoad and JuiceEnteredForeground *)
Foreground(k) ==
    /\ starts < MaxStarts /\ starts' = starts + 1
    /\ StartListener(k)
    /\ UNCHANGED <<fd, generation, path, loop, timer, failure, terminating, faults, lost,
                   served>>

StartReset(k) ==
    /\ lock = [kind |-> k, step |-> "reset"]
    /\ lock' = [kind |-> k, step |-> "bind"]
    /\ fd' = [fd EXCEPT ![k] = None]
    /\ path' = [path EXCEPT ![k] = 0]
    /\ generation' = [generation EXCEPT ![k] = @ + 1]
    /\ UNCHANGED <<table, loop, timer, failure, terminating, counters, served>>

(* JuiceBindListener succeeds; the new accept loop is queued. *)
StartBinds(k) ==
    LET n == Min(FreeNumbers)
        g == generation[k] IN
    /\ lock = [kind |-> k, step |-> "bind"] /\ FreeNumbers # {}
    /\ lock' = None
    /\ fd' = [fd EXCEPT ![k] = n]
    /\ path' = [path EXCEPT ![k] = g]
    /\ table' = [table EXCEPT ![n] = [is |-> "listener", kind |-> k, generation |-> g]]
    /\ loop' = [loop EXCEPT ![k][g] = [NoLoop EXCEPT !.pc = "check", !.number = n]]
    /\ failure' = [failure EXCEPT ![k] = "none"]
    /\ UNCHANGED <<generation, timer, terminating, counters, served>>

RetryOfOldGeneration(k) ==   \* mutant: the retry is made for the previous generation
    timer' = [timer EXCEPT ![k] = [g \in Generations |->
                 IF g = generation[k] - 1 THEN "armed" ELSE @[g]]]

(* JuiceScheduleListenerRestart *)
ScheduleRestart(k) == timer' = [timer EXCEPT ![k][generation[k]] = "armed"]

StartFails(k) ==
    /\ lock = [kind |-> k, step |-> "bind"]
    /\ faults < MaxFaults /\ faults' = faults + 1
    /\ lock' = None
    /\ \/ /\ failure' = [failure EXCEPT ![k] = "transient"]
          /\ ScheduleRestart(k)
       \/ /\ failure' = [failure EXCEPT ![k] = "fatal"]
          /\ UNCHANGED timer
    /\ UNCHANGED <<fd, generation, path, table, loop, terminating, starts, lost, served>>

(* The retry's own test, without the lock... *)
TimerFires(k, g) ==
    /\ timer[k][g] = "armed"
    /\ timer' = [timer EXCEPT ![k][g] =
                    IF terminating = "no" /\ generation[k] = g /\ fd[k] = None
                    THEN "due" ELSE "none"]
    /\ UNCHANGED <<fd, generation, path, table, loop, lock, failure, terminating,
                   counters, served>>

(* ... and its start. *)
TimerStarts(k, g) ==
    /\ timer[k][g] = "due"
    /\ StartListener(k)
    /\ timer' = [timer EXCEPT ![k][g] = "none"]
    /\ UNCHANGED <<fd, generation, path, loop, failure, terminating, counters, served>>

-----------------------------------------------------------------------------
(* JuiceAcceptLoop.  JuiceListenerStillCurrent compares number and generation, then
   asks the kernel. *)

Goto(k, g, pc) == loop' = [loop EXCEPT ![k][g].pc = pc]
Current(k, g) == fd[k] = loop[k][g].number /\ generation[k] = g
App == <<fd, generation, path, timer, lock, failure, terminating, starts, lost>>

CheckCurrent(k, g) ==
    /\ loop[k][g].pc = "check"
    /\ Goto(k, g, IF Current(k, g) THEN "probe" ELSE "done")
    /\ UNCHANGED <<App, table, faults, served>>

ProbeCurrent(k, g) ==
    /\ loop[k][g].pc = "probe"
    /\ Goto(k, g, IF MatchesPath(k, loop[k][g].number) THEN "accept" ELSE "done")
    /\ UNCHANGED <<App, table, faults, served>>

(* accept() on whatever the number stands for by now. *)
Accepts(k, g) ==
    LET n == loop[k][g].number IN
    /\ loop[k][g].pc = "accept" /\ IsListener(n) /\ FreeNumbers # {}
    /\ Cardinality(served) < MaxClients
    /\ table' = [table EXCEPT ![Min(FreeNumbers)] = [is |-> "client", from |-> table[n]]]
    /\ loop' = [loop EXCEPT ![k][g].pc = "checkClient", ![k][g].client = Min(FreeNumbers)]
    /\ UNCHANGED <<App, faults, served>>

(* A transient error and its back-off; a descriptor that does not listen, or another
   error that is not transient. *)
AcceptFails(k, g) ==
    /\ loop[k][g].pc = "accept"
    /\ \/ ~IsListener(loop[k][g].number) /\ Goto(k, g, "failed") /\ UNCHANGED faults
       \/ /\ faults < MaxFaults /\ faults' = faults + 1
          /\ \E pc \in {"check", "failed"} : Goto(k, g, pc)
    /\ UNCHANGED <<App, table, served>>

CheckFailed(k, g) ==
    /\ loop[k][g].pc = "failed"
    /\ Goto(k, g, IF Current(k, g) THEN "probeFailed" ELSE "done")
    /\ UNCHANGED <<App, table, faults, served>>

ProbeFailed(k, g) ==
    /\ loop[k][g].pc = "probeFailed"
    /\ Goto(k, g, IF MatchesPath(k, loop[k][g].number) THEN "ended" ELSE "done")
    /\ UNCHANGED <<App, table, faults, served>>

CloseClient(k, g) ==
    /\ table' = [table EXCEPT ![loop[k][g].client] = None]
    /\ loop' = [loop EXCEPT ![k][g].pc = "done", ![k][g].client = None]

CheckClientNever(k, g) ==   \* mutant: the client is not tested against the generation
    /\ loop[k][g].pc = "checkClient"
    /\ Goto(k, g, "probeClient")
    /\ UNCHANGED <<App, table, faults, served>>

CheckClient(k, g) ==
    /\ loop[k][g].pc = "checkClient"
    /\ \/ Current(k, g) /\ Goto(k, g, "probeClient") /\ UNCHANGED table
       \/ ~Current(k, g) /\ CloseClient(k, g)
    /\ UNCHANGED <<App, faults, served>>

(* The client is registered and a reader starts. *)
ServeClient(k, g) ==
    LET l == loop[k][g] IN
    /\ l.pc = "probeClient"
    /\ \/ /\ MatchesPath(k, l.number)
          /\ served' = served \cup {<<k, g, table[l.client].from>>}
          /\ loop' = [loop EXCEPT ![k][g].pc = "check", ![k][g].client = None]
          /\ UNCHANGED table
       \/ ~MatchesPath(k, l.number) /\ CloseClient(k, g) /\ UNCHANGED served
    /\ UNCHANGED <<App, faults>>

EndedAnyGeneration(k, g) ==   \* mutant: the number alone says whose listener it is
    LET n == loop[k][g].number IN
    /\ loop[k][g].pc = "ended" /\ lock = None
    /\ \/ /\ fd[k] = n
          /\ table' = IF MatchesPath(k, n) THEN [table EXCEPT ![n] = None] ELSE table
          /\ fd' = [fd EXCEPT ![k] = None]
          /\ path' = [path EXCEPT ![k] = 0]
       \/ fd[k] # n /\ UNCHANGED <<table, fd, path>>
    /\ Goto(k, g, "done")
    /\ UNCHANGED <<generation, timer, lock, failure, terminating, counters, served>>

(* JuiceListenerEnded *)
ListenerEnded(k, g) ==
    LET n == loop[k][g].number IN
    /\ loop[k][g].pc = "ended" /\ lock = None
    /\ \/ /\ Current(k, g)
          /\ table' = IF MatchesPath(k, n) THEN [table EXCEPT ![n] = None] ELSE table
          /\ fd' = [fd EXCEPT ![k] = None]
          /\ path' = [path EXCEPT ![k] = 0]
       \/ ~Current(k, g) /\ UNCHANGED <<table, fd, path>>
    /\ Goto(k, g, "done")
    /\ UNCHANGED <<generation, timer, lock, failure, terminating, counters, served>>

-----------------------------------------------------------------------------
(* A connection that was served ends. *)
ClientGone(n) ==
    /\ table[n] # None /\ table[n].is = "client"
    /\ \A k \in Kinds, g \in Generations : loop[k][g].client # n
    /\ table' = [table EXCEPT ![n] = None]
    /\ UNCHANGED <<fd, generation, path, loop, timer, lock, failure, terminating,
                   counters, served>>

(* The temporary directory is cleaned up. *)
PathRemoved(k) ==
    /\ path[k] # 0 /\ faults < MaxFaults /\ faults' = faults + 1
    /\ path' = [path EXCEPT ![k] = 0]
    /\ UNCHANGED <<fd, generation, table, loop, timer, lock, failure, terminating,
                   starts, lost, served>>

(* The listener's descriptor is closed behind the application's back, and the number
   may be given out again ("reused_fd"). *)
NumberLost(n) ==
    /\ IsListener(n) /\ lost < MaxLost /\ lost' = lost + 1
    /\ table' = [table EXCEPT ![n] = None]
    /\ UNCHANGED <<fd, generation, path, loop, timer, lock, failure, terminating,
                   starts, faults, served>>

(* JuiceSocketWillTerminate *)
WillTerminate ==
    /\ lock = None /\ terminating = "no"
    /\ terminating' = "flagged"
    /\ generation' = [k \in Kinds |-> generation[k] + 1]
    /\ UNCHANGED <<fd, path, table, loop, timer, lock, failure, counters, served>>

(* JuiceWillTerminate *)
Terminated ==
    /\ lock = None /\ terminating = "flagged"
    /\ terminating' = "done"
    /\ table' = [n \in Numbers |->
                   IF \E k \in Kinds : fd[k] = n /\ MatchesPath(k, n) THEN None ELSE table[n]]
    /\ fd' = [k \in Kinds |-> None]
    /\ path' = [k \in Kinds |-> 0]
    /\ UNCHANGED <<generation, loop, timer, lock, failure, counters, served>>

-----------------------------------------------------------------------------
Start(k) == StartReset(k) \/ StartBinds(k) \/ StartFails(k)
Retry(k, g) == TimerFires(k, g) \/ TimerStarts(k, g)
AcceptLoop(k, g) == \/ CheckCurrent(k, g) \/ ProbeCurrent(k, g) \/ Accepts(k, g)
                    \/ AcceptFails(k, g) \/ CheckFailed(k, g) \/ ProbeFailed(k, g)
                    \/ CheckClient(k, g) \/ ServeClient(k, g) \/ ListenerEnded(k, g)

Next == \/ \E k \in Kinds : Foreground(k) \/ Start(k) \/ PathRemoved(k)
        \/ \E k \in Kinds, g \in Generations : Retry(k, g) \/ AcceptLoop(k, g)
        \/ \E n \in Numbers : ClientGone(n) \/ NumberLost(n)
        \/ WillTerminate \/ Terminated

Spec == Init /\ [][Next]_vars

(* A start runs to its end, and dispatch_after fires. *)
FairSpec == /\ Spec
            /\ \A k \in Kinds : WF_vars(Start(k))
            /\ \A k \in Kinds, g \in Generations : WF_vars(Retry(k, g))
            /\ \A n \in Numbers : WF_vars(ClientGone(n))
            /\ \A k \in Kinds, g \in Generations :
                  WF_vars(CheckClient(k, g)) /\ WF_vars(ServeClient(k, g))

-----------------------------------------------------------------------------
TypeOK ==
    /\ fd \in [Kinds -> Numbers \cup {None}]
    /\ generation \in [Kinds -> 0..MaxGeneration + 1]
    /\ path \in [Kinds -> 0..MaxGeneration]
    /\ table \in [Numbers -> Listener \cup ClientOf \cup {None}]
    /\ loop \in [Kinds -> [Generations -> Loop]]
    /\ timer \in [Kinds -> [Generations -> {"none", "armed", "due"}]]
    /\ lock \in InStart \cup {None}
    /\ failure \in [Kinds -> {"none", "transient", "fatal"}]
    /\ terminating \in {"no", "flagged", "done"}
    /\ starts \in 0..MaxStarts /\ faults \in 0..MaxFaults /\ lost \in 0..MaxLost
    /\ served \subseteq Kinds \X Generations \X Listener

(* No listening socket is left behind by restarts, retries, accept loops that end late
   or a termination ("retries_cancelled=1", JuiceSocketHardening.m:271): one that is open
   is the one the controller names, and it has an accept loop that will serve it,
   whatever older loops with the same number do. *)
OpenListenerIsServed ==
    lock = None =>
        \A n \in Numbers : IsListener(n) =>
            LET k == table[n].kind IN
            /\ fd[k] = n /\ terminating # "done"
            /\ terminating = "no" =>
                  /\ generation[k] = table[n].generation
                  /\ loop[k][generation[k]].pc \notin {"none", "done"}

(* An accept loop that ends late does not tear down the listener that replaced its own
   under the same number (JuiceListenerEnded compares the generation). *)
StaleLoopSparesNewListener ==
    [][\A n \in Numbers :
          IsListener(n) /\ table'[n] = None /\ lock' = lock /\ lost' = lost
          /\ terminating' = terminating
          => loop[table[n].kind][table[n].generation].pc = "ended"]_vars

(* A loop hands a connection on only if it came in on the loop's own listener: a loop
   that has met a new listener under its old number serves nobody from it.  (Once a
   descriptor has been closed behind the application's back, a number can change hands
   between the two halves of JuiceListenerStillCurrent.) *)
ServedOnOwnListener ==
    lost = 0 => \A s \in served : s[3].kind = s[1] /\ s[3].generation = s[2]

(* A start that failed for want of resources is tried again until it succeeds, fails
   for good, or the application terminates; a retry that is overtaken by another start
   does not end the chain. *)
TransientFailureHeals ==
    \A k \in Kinds :
        failure[k] = "transient" ~> failure[k] # "transient" \/ terminating # "no"
=============================================================================
