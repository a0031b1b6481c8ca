--------------------------- MODULE RecoveryProofs ---------------------------
(***************************************************************************)
(* Proofs about how the application recovers what breaks.  Listeners, for  *)
(* any set of kinds, descriptor numbers and bounds: no listener is left    *)
(* behind, no loop serves another's listener, and no loop that ends late   *)
(* closes the listener that replaced its own.  ReconnectGrace, for any     *)
(* number of processes and windows: what the timer that prunes detached    *)
(* windows never removes.                                                  *)
(***************************************************************************)
EXTENDS Listeners, ReconnectGrace, FiniteSetTheorems, WellFoundedInduction, TLAPS

(* An open listener is the one the controller names; no start is under way for
   its kind; until the application terminates its own loop is at work. *)
ListenerOK(n, k, g) ==
    /\ fd[k] = n /\ terminating # "done" /\ (lock # None => lock.kind # k)
    /\ loop[k][g].number = n
    /\ terminating = "no" => generation[k] = g /\ loop[k][g].pc \notin {"none", "done"}

ListenersOK ==
    \A n \in Numbers : IsListener(n) => ListenerOK(n, table[n].kind, table[n].generation)

(* Only the generations so far have loops; a termination is a generation of its
   own and has none. *)
LoopsOK ==
    \A k \in Kinds, g \in Generations : loop[k][g].pc # "none" =>
        /\ loop[k][g].number # None /\ g <= generation[k]
        /\ terminating # "no" => g < generation[k]

(* The number of a connection that a loop has accepted belongs to the loop. *)
ClientsOK ==
    \A k \in Kinds, g \in Generations :
        /\ loop[k][g].client # None <=> loop[k][g].pc \in {"checkClient", "probeClient"}
        /\ loop[k][g].client # None =>
             /\ table[loop[k][g].client] \in ClientOf
             /\ \A j \in Kinds, h \in Generations :
                   loop[j][h].client = loop[k][g].client => j = k /\ h = g

Own(k, g) == [is |-> "listener", kind |-> k, generation |-> g]
Resetting(k) == [kind |-> k, step |-> "reset"]

(* As long as no descriptor is closed behind the application's back, the number of
   a current loop is its own listener (closed already while a start is under way),
   and a connection that passed the loop's test came in on it. *)
NumbersOK ==
    lost = 0 =>
      \A k \in Kinds, g \in Generations :
        /\ loop[k][g].pc # "none" /\ Current(k, g) =>
             IF lock = Resetting(k) THEN ~IsListener(loop[k][g].number)
                                    ELSE table[loop[k][g].number] = Own(k, g)
        /\ loop[k][g].pc = "probeClient" \/ (loop[k][g].pc = "checkClient" /\ Current(k, g)) =>
             table[loop[k][g].client].from = Own(k, g)

(* What the bounds leave: each generation was begun by a start from outside or by
   the retry of a failure, and each pending retry stands for a failure. *)
Pending(k) == {g \in Generations : timer[k][g] # "none"}
Held(k) == IF lock = Resetting(k) THEN 1 ELSE 0

BudgetOK ==
    /\ lock # None => terminating = "no"
    /\ \A k \in Kinds : lock = [kind |-> k, step |-> "bind"] => generation[k] >= 1 /\ fd[k] = None
    /\ terminating = "no" =>
         \A k \in Kinds : generation[k] + Held(k) + Cardinality(Pending(k)) <= starts + faults

(* The inductive invariant. *)
SocketsOK == /\ TypeOK /\ BudgetOK /\ ListenersOK /\ LoopsOK /\ ClientsOK /\ NumbersOK
             /\ ServedOnOwnListener

-----------------------------------------------------------------------------
(* Helpers.  The kernel's lowest free number is one of the free numbers. *)
LEMMA SmallestNumber ==
    ASSUME NEW S, S \subseteq Nat, S # {}
    PROVE  Min(S) \in S
<1>1. PICK R : R = {ss \in Nat \X Nat : ss[1] < ss[2]}
  OBVIOUS
<1>2. IsWellFoundedOn(R, Nat)
  <2>1. OpToRel(<, Nat) = {ss \in Nat \X Nat : ss[1] < ss[2]}
    BY DEF OpToRel
  <2>2. IsWellFoundedOn(OpToRel(<, Nat), Nat)
    BY NatLessThanWellFounded
  <2>3. QED
    BY <1>1, <2>1, <2>2
<1>3. PICK x \in S : \A y \in S : ~(<<y, x>> \in R)
  BY <1>2, WFMin
<1>4. \A y \in S : x <= y
  <2> SUFFICES ASSUME NEW y \in S, ~(x <= y) PROVE FALSE
    OBVIOUS
  <2>1. x \in Nat /\ y \in Nat /\ y < x
    OBVIOUS
  <2>2. PICK p : p = <<y, x>>
    OBVIOUS
  <2>3. p \in Nat \X Nat /\ p[1] < p[2]
    BY <2>1, <2>2
  <2>4. QED
    BY <1>1, <1>3, <2>2, <2>3
<1>5. QED
  BY <1>4 DEF Min

LEMMA LowestFreeNumber ==
    ASSUME FreeNumbers # {}
    PROVE  Min(FreeNumbers) \in Numbers /\ table[Min(FreeNumbers)] = None
<1>1. FreeNumbers \subseteq Nat
  BY NumbersAssumption DEF FreeNumbers
<1>2. Min(FreeNumbers) \in FreeNumbers
  BY <1>1, SmallestNumber
<1>3. QED
  BY <1>2 DEF FreeNumbers

(* An entry of the table is a listener, a connection or nothing. *)
LEMMA Entries ==
    ASSUME TypeOK, NEW n \in Numbers
    PROVE  /\ n # None
           /\ IsListener(n) <=> table[n] \in Listener
           /\ table[n] \in ClientOf => ~IsListener(n)
           /\ table[n] # None /\ table[n].is = "client" => table[n] \in ClientOf
           /\ table[n] \in Listener => table[n] = Own(table[n].kind, table[n].generation)
           /\ \A k \in Kinds : MatchesPath(k, n) <=> table[n] \in Listener /\ table[n].kind = k
<1>1. table[n] \in Listener \cup ClientOf \cup {None} /\ None \notin Listener \cup ClientOf
      /\ n # None
  BY NoneAssumption DEF TypeOK
<1>2. \A e \in Listener : e.is = "listener" /\ e = Own(e.kind, e.generation)
  BY DEF Listener, Own
<1>3. \A e \in ClientOf : e.is = "client"
  BY DEF ClientOf
<1>4. QED
  BY <1>1, <1>2, <1>3 DEF IsListener, MatchesPath

LEMMA OwnListener ==
    ASSUME NEW k \in Kinds, NEW g \in Generations
    PROVE  Own(k, g) \in Listener /\ Own(k, g).kind = k /\ Own(k, g).generation = g
           /\ Own(k, g).is = "listener"
BY DEF Own, Listener

(* One loop has changed. *)
LoopBecomes(k, g, y) ==
    /\ loop' \in [Kinds -> [Generations -> Loop]] /\ loop'[k][g] = y
    /\ \A j \in Kinds, h \in Generations : (j # k \/ h # g) => loop'[j][h] = loop[j][h]

LEMMA LoopSet ==
    ASSUME TypeOK, NEW k \in Kinds, NEW g \in Generations, NEW y \in Loop,
           loop' = [loop EXCEPT ![k][g] = y]
    PROVE  LoopBecomes(k, g, y)
BY DEF TypeOK, LoopBecomes

LoopPc == {"none", "check", "probe", "accept", "checkClient", "probeClient",
           "failed", "probeFailed", "ended", "done"}

LEMMA LoopGoto ==
    ASSUME TypeOK, NEW k \in Kinds, NEW g \in Generations, NEW pc \in LoopPc, Goto(k, g, pc)
    PROVE  \E y \in Loop : /\ LoopBecomes(k, g, y) /\ y.pc = pc
                           /\ y.number = loop[k][g].number /\ y.client = loop[k][g].client
<1>1. PICK x \in Loop : x = loop[k][g]
  BY DEF TypeOK
<1>2. PICK y : y = [x EXCEPT !.pc = pc]
  OBVIOUS
<1>3. y \in Loop /\ y.pc = pc /\ y.number = x.number /\ y.client = x.client
  BY <1>2 DEF Loop, LoopPc
<1>4. loop' = [loop EXCEPT ![k][g] = y]
  BY <1>1, <1>2 DEF Goto
<1>5. QED
  BY <1>1, <1>3, <1>4, LoopSet

PcAndClient(k, g, pc, n) == loop' = [loop EXCEPT ![k][g].pc = pc, ![k][g].client = n]

LEMMA LoopPcAndClient ==
    ASSUME TypeOK, NEW k \in Kinds, NEW g \in Generations, NEW pc \in LoopPc,
           NEW n \in Numbers \cup {None},
           PcAndClient(k, g, pc, n)
    PROVE  \E y \in Loop : /\ LoopBecomes(k, g, y) /\ y.pc = pc
                           /\ y.number = loop[k][g].number /\ y.client = n
<1>1. PICK x \in Loop : x = loop[k][g]
  BY DEF TypeOK
<1>2. PICK y : y = [x EXCEPT !.pc = pc, !.client = n]
  OBVIOUS
<1>3. y \in Loop /\ y.pc = pc /\ y.number = x.number /\ y.client = n
  BY <1>2 DEF Loop, LoopPc
<1>4. loop' = [loop EXCEPT ![k][g] = y]
  BY <1>1, <1>2 DEF TypeOK, PcAndClient
<1>5. QED
  BY <1>1, <1>3, <1>4, LoopSet

(* The listener of a generation is current until the application terminates. *)
LEMMA OwnIsCurrent ==
    ASSUME TypeOK, ListenersOK, terminating = "no", NEW n \in Numbers, IsListener(n),
           NEW k, NEW g, k = table[n].kind, g = table[n].generation
    PROVE  /\ k \in Kinds /\ g \in Generations /\ Current(k, g) /\ loop[k][g].number = n
           /\ MatchesPath(k, loop[k][g].number)
<1>1. table[n] \in Listener
  BY Entries
<1>2. k \in Kinds /\ g \in Generations
  BY <1>1 DEF Listener
<1>3. fd[k] = n /\ loop[k][g].number = n /\ generation[k] = g
  BY DEF ListenersOK, ListenerOK
<1>4. QED
  BY <1>1, <1>2, <1>3, Entries DEF Current

(* The budget, from the variables it speaks of. *)
LEMMA BudgetKeeps ==
    ASSUME TypeOK, BudgetOK, UNCHANGED <<lock, terminating, generation, timer, starts>>,
           \A k \in Kinds : lock = [kind |-> k, step |-> "bind"] => fd'[k] = fd[k],
           faults' \in Nat, faults <= faults'
    PROVE  BudgetOK'
<1>1. \A k \in Kinds : Pending(k)' = Pending(k) /\ Held(k)' = Held(k)
  BY DEF Pending, Held
<1>2. ASSUME terminating' = "no", NEW k \in Kinds
      PROVE  generation'[k] + Held(k)' + Cardinality(Pending(k)') <= starts' + faults'
  <2>1. PICK x : x = generation[k] + Held(k) + Cardinality(Pending(k))
    OBVIOUS
  <2>2. x \in Int
    <3>1. IsFiniteSet(Generations)
      BY FS_Interval, BoundsAssumption DEF Generations, MaxGeneration
    <3>2. IsFiniteSet(Pending(k))
      BY <3>1, FS_Subset DEF Pending
    <3>3. Cardinality(Pending(k)) \in Nat
      BY <3>2, FS_CardinalityType
    <3>4. generation[k] \in Int /\ Held(k) \in Int
      BY BoundsAssumption DEF TypeOK, Held, MaxGeneration
    <3>5. QED
      BY <2>1, <3>3, <3>4
  <2>3. x <= starts + faults
    BY <1>2, <2>1 DEF BudgetOK
  <2>4. starts \in Nat /\ faults \in Nat
    BY BoundsAssumption DEF TypeOK
  <2>5. x <= starts + faults'
    <3>1. \A i \in Int : \A a, b, c \in Nat : i <= a + b /\ b <= c => i <= a + c
      OBVIOUS
    <3>2. QED
      BY <2>2, <2>3, <2>4, <3>1, Zenon
  <2>6. generation'[k] + Held(k)' + Cardinality(Pending(k)') = x
    <3>1. Pending(k)' = Pending(k) /\ Held(k)' = Held(k) /\ generation' = generation
      BY <1>1
    <3> HIDE DEF Pending, Held
    <3>2. QED
      BY <2>1, <3>1
  <2>7. QED
    BY <2>5, <2>6
<1>3. QED
  BY <1>2 DEF BudgetOK

(* A loop moves; the table and the application stay. *)
LEMMA MoveKeeps ==
    ASSUME SocketsOK, NEW k \in Kinds, NEW g \in Generations, NEW y \in Loop,
           LoopBecomes(k, g, y), y.number = loop[k][g].number, y.client = loop[k][g].client,
           loop[k][g].pc # "none", y.pc # "none",
           UNCHANGED <<App, table, served>>, faults' \in 0..MaxFaults, faults <= faults',
           loop[k][g].pc \in {"checkClient", "probeClient"} <=>
              y.pc \in {"checkClient", "probeClient"},
           y.pc = "done" =>
              ~(terminating = "no" /\ Current(k, g) /\ MatchesPath(k, loop[k][g].number)),
           y.pc = "checkClient" => loop[k][g].pc = "checkClient",
           y.pc = "probeClient" => loop[k][g].pc = "checkClient" /\ Current(k, g)
    PROVE  SocketsOK'
<1> USE DEF App
<1>1. /\ TypeOK /\ BudgetOK /\ ListenersOK /\ LoopsOK /\ ClientsOK /\ NumbersOK
      /\ ServedOnOwnListener
  BY DEF SocketsOK
<1>2. /\ \A j \in Kinds, h \in Generations :
           /\ loop'[j][h].number = loop[j][h].number /\ loop'[j][h].client = loop[j][h].client
           /\ loop'[j][h].pc # "none" <=> loop[j][h].pc # "none"
           /\ loop'[j][h].pc \in {"checkClient", "probeClient"} <=>
                 loop[j][h].pc \in {"checkClient", "probeClient"}
           /\ loop'[j][h].pc = "checkClient" => loop[j][h].pc = "checkClient"
           /\ loop'[j][h].pc = "probeClient" =>
                 loop[j][h].pc = "probeClient"
                 \/ (loop[j][h].pc = "checkClient" /\ Current(j, h))
           /\ Current(j, h)' <=> Current(j, h)
  BY DEF LoopBecomes, Current
<1>3. TypeOK'
  BY <1>1 DEF TypeOK, LoopBecomes
<1>4. BudgetOK'
  <2>1. faults' \in Nat
    BY BoundsAssumption
  <2>2. QED
    BY <1>1, <2>1, BudgetKeeps
<1>5. ListenersOK'
  <2> SUFFICES ASSUME NEW n \in Numbers, IsListener(n),
                      NEW j, NEW h, j = table[n].kind, h = table[n].generation
               PROVE  ListenerOK(n, j, h)'
    BY DEF ListenersOK, IsListener
  <2>1. j \in Kinds /\ h \in Generations
    BY <1>1, Entries DEF Listener
  <2>2. /\ fd[j] = n /\ terminating # "done" /\ (lock # None => lock.kind # j)
        /\ loop[j][h].number = n
        /\ terminating = "no" => generation[j] = h /\ loop[j][h].pc \notin {"none", "done"}
    BY <1>1 DEF ListenersOK, ListenerOK
  <2>3. terminating = "no" /\ j = k /\ h = g => y.pc # "done"
    BY <1>1, OwnIsCurrent
  <2>4. QED
    BY <1>2, <2>1, <2>2, <2>3 DEF LoopBecomes, ListenerOK
<1>6. LoopsOK'
  BY <1>1, <1>2 DEF LoopsOK
<1>7. ClientsOK'
  BY <1>1, <1>2 DEF ClientsOK
<1>8. NumbersOK'
  BY <1>1, <1>2 DEF NumbersOK, IsListener
<1>9. QED
  BY <1>1, <1>3, <1>4, <1>5, <1>6, <1>7, <1>8 DEF SocketsOK, ServedOnOwnListener

(* The tests of a loop, and an accept that fails. *)
LEMMA TestsKeep ==
    ASSUME SocketsOK, NEW k \in Kinds, NEW g \in Generations,
           \/ CheckCurrent(k, g) \/ ProbeCurrent(k, g) \/ AcceptFails(k, g)
           \/ CheckFailed(k, g) \/ ProbeFailed(k, g)
           \/ CheckClient(k, g) /\ Current(k, g)
    PROVE  SocketsOK'
<1>1. PICK pc \in {"probe", "accept", "check", "failed", "probeFailed", "ended", "done",
                   "probeClient"} :
        /\ Goto(k, g, pc) /\ UNCHANGED <<App, table, served>>
        /\ faults' = faults \/ (faults < MaxFaults /\ faults' = faults + 1)
        /\ loop[k][g].pc # "none"
        /\ loop[k][g].pc \in {"checkClient", "probeClient"} <=>
              pc \in {"checkClient", "probeClient"}
        /\ pc = "done" =>
              ~(Current(k, g) /\ MatchesPath(k, loop[k][g].number))
        /\ pc = "probeClient" => loop[k][g].pc = "checkClient" /\ Current(k, g)
  <2>1. CASE CheckCurrent(k, g)
    BY <2>1 DEF CheckCurrent
  <2>2. CASE ProbeCurrent(k, g)
    BY <2>2 DEF ProbeCurrent
  <2>3. CASE AcceptFails(k, g)
    BY <2>3 DEF AcceptFails
  <2>4. CASE CheckFailed(k, g)
    BY <2>4 DEF CheckFailed
  <2>5. CASE ProbeFailed(k, g)
    BY <2>5 DEF ProbeFailed
  <2>6. CASE CheckClient(k, g) /\ Current(k, g)
    BY <2>6 DEF CheckClient
  <2>7. QED
    BY <2>1, <2>2, <2>3, <2>4, <2>5, <2>6
<1>2. PICK y \in Loop : /\ LoopBecomes(k, g, y) /\ y.pc = pc
                        /\ y.number = loop[k][g].number /\ y.client = loop[k][g].client
  <2>1. pc \in LoopPc
    BY DEF LoopPc
  <2>2. QED
    BY <1>1, <2>1, LoopGoto DEF SocketsOK
<1>3. faults' \in 0..MaxFaults /\ faults <= faults'
  BY <1>1, BoundsAssumption DEF SocketsOK, TypeOK
<1>4. QED
  BY <1>1, <1>2, <1>3, MoveKeeps

(* A connection is accepted: it has a number of its own, and if the loop is current
   it came in on the loop's listener. *)
LEMMA AcceptsKeeps ==
    ASSUME SocketsOK, NEW k \in Kinds, NEW g \in Generations, Accepts(k, g)
    PROVE  SocketsOK'
<1> USE DEF App
<1>1. /\ TypeOK /\ BudgetOK /\ ListenersOK /\ LoopsOK /\ ClientsOK /\ NumbersOK
      /\ ServedOnOwnListener
  BY DEF SocketsOK
<1>2. PICK m : m = Min(FreeNumbers)
  OBVIOUS
<1>3. PICK n : n = loop[k][g].number
  OBVIOUS
<1>4. PICK e : e = [is |-> "client", from |-> table[n]]
  OBVIOUS
<1>5. /\ m \in Numbers /\ table[m] = None /\ m # None
  BY <1>1, <1>2, LowestFreeNumber, Entries DEF Accepts
<1>6. /\ loop[k][g].pc = "accept" /\ IsListener(n)
      /\ table' = [table EXCEPT ![m] = e]
      /\ PcAndClient(k, g, "checkClient", m)
      /\ UNCHANGED <<fd, generation, path, timer, lock, failure, terminating, starts, lost>>
      /\ UNCHANGED <<faults, served>>
  BY <1>2, <1>3, <1>4 DEF Accepts, PcAndClient
<1>7. PICK y \in Loop : /\ LoopBecomes(k, g, y) /\ y.pc = "checkClient"
                        /\ y.number = n /\ y.client = m
  <2>1. "checkClient" \in LoopPc
    BY DEF LoopPc
  <2>2. m \in Numbers \cup {None}
    BY <1>5
  <2>3. \E y \in Loop : /\ LoopBecomes(k, g, y) /\ y.pc = "checkClient"
                        /\ y.number = loop[k][g].number /\ y.client = m
    BY <1>1, <1>6, <2>1, <2>2, LoopPcAndClient
  <2>4. QED
    BY <1>3, <2>3
<1>8. n \in Numbers /\ table[n] \in Listener /\ e \in ClientOf /\ e.from = table[n]
  <2>1. n \in Numbers
    BY <1>1, <1>3, <1>6 DEF TypeOK, Loop, IsListener
  <2>2. table[n] \in Listener
    BY <1>1, <1>6, <2>1, Entries
  <2>3. QED
    BY <1>4, <2>1, <2>2 DEF ClientOf
<1>9. \A i \in Numbers : table'[i] = IF i = m THEN e ELSE table[i]
  BY <1>1, <1>6 DEF TypeOK
<1>10. TypeOK'
  BY <1>1, <1>5, <1>6, <1>7, <1>8 DEF TypeOK, LoopBecomes
<1>11. \A i \in Numbers : /\ IsListener(i)' <=> IsListener(i)
                          /\ IsListener(i) => table'[i] = table[i] /\ i # m
  <2>1. ~IsListener(m) /\ ~IsListener(m)'
    BY <1>5, <1>8, <1>9 DEF IsListener, ClientOf
  <2>2. QED
    BY <1>9, <2>1 DEF IsListener
<1>12. \A j \in Kinds, h \in Generations :
         /\ loop'[j][h].number = loop[j][h].number
         /\ loop'[j][h].pc # "none" <=> loop[j][h].pc # "none"
         /\ loop'[j][h].pc = "done" <=> loop[j][h].pc = "done"
         /\ (j # k \/ h # g) => loop'[j][h] = loop[j][h]
         /\ Current(j, h)' <=> Current(j, h)
  BY <1>3, <1>6, <1>7 DEF LoopBecomes, Current
<1>13. BudgetOK'
  <2>1. faults' \in Nat /\ faults <= faults'
    BY <1>1, <1>6, BoundsAssumption DEF TypeOK
  <2>2. QED
    BY <1>1, <1>6, <2>1, BudgetKeeps
<1>14. ListenersOK'
  <2> SUFFICES ASSUME NEW i \in Numbers, IsListener(i),
                      NEW j, NEW h, j = table[i].kind, h = table[i].generation
               PROVE  ListenerOK(i, j, h)'
    BY <1>11 DEF ListenersOK
  <2>1. IsListener(i) /\ j = table[i].kind /\ h = table[i].generation
    OBVIOUS
  <2>2. j \in Kinds /\ h \in Generations
    BY <1>1, <2>1, Entries DEF Listener
  <2>3. /\ fd[j] = i /\ terminating # "done" /\ (lock # None => lock.kind # j)
        /\ loop[j][h].number = i
        /\ terminating = "no" => generation[j] = h /\ loop[j][h].pc \notin {"none", "done"}
    BY <1>1, <2>1 DEF ListenersOK, ListenerOK
  <2>4. QED
    BY <1>6, <1>12, <2>2, <2>3 DEF ListenerOK
<1>15. LoopsOK'
  <2>1. generation' = generation /\ terminating' = terminating
    BY <1>6
  <2>2. QED
    BY <1>1, <1>12, <2>1 DEF LoopsOK
<1>16. \A j \in Kinds, h \in Generations :
          loop[j][h].client # m /\ loop[j][h].client \in Numbers \cup {None}
  <2>1. \A j \in Kinds, h \in Generations : loop[j][h].client \in Numbers \cup {None}
    BY <1>1 DEF TypeOK, Loop
  <2>2. \A j \in Kinds, h \in Generations : loop[j][h].client = m => FALSE
    BY <1>1, <1>5, NoneAssumption DEF ClientsOK
  <2>3. QED
    BY <2>1, <2>2
<1>17. ClientsOK'
  <2> SUFFICES ASSUME NEW j \in Kinds, NEW h \in Generations
               PROVE  /\ loop'[j][h].client # None <=>
                           loop'[j][h].pc \in {"checkClient", "probeClient"}
                      /\ loop'[j][h].client # None =>
                           /\ table'[loop'[j][h].client] \in ClientOf
                           /\ \A i \in Kinds, f \in Generations :
                                loop'[i][f].client = loop'[j][h].client => i = j /\ f = h
    BY DEF ClientsOK
  <2>1. CASE j = k /\ h = g
    BY <1>5, <1>7, <1>8, <1>9, <1>12, <1>16, <2>1 DEF LoopBecomes
  <2>2. CASE j # k \/ h # g
    <3>1. loop'[j][h] = loop[j][h] /\ loop[j][h].client # m
      BY <1>12, <1>16, <2>2
    <3>2. /\ loop[j][h].client # None <=> loop[j][h].pc \in {"checkClient", "probeClient"}
          /\ loop[j][h].client # None =>
                /\ table[loop[j][h].client] \in ClientOf /\ loop[j][h].client \in Numbers
                /\ \A i \in Kinds, f \in Generations :
                      loop[i][f].client = loop[j][h].client => i = j /\ f = h
      BY <1>1, <1>16 DEF ClientsOK
    <3>3. ASSUME NEW i \in Kinds, NEW f \in Generations, loop'[i][f].client = loop[j][h].client,
                 loop[j][h].client # None
          PROVE  i = j /\ f = h
      <4>1. ~(i = k /\ f = g)
        BY <1>7, <3>1, <3>3 DEF LoopBecomes
      <4>2. QED
        BY <1>12, <3>2, <3>3, <4>1
    <3>4. QED
      BY <1>9, <3>1, <3>2, <3>3
  <2>3. QED
    BY <2>1, <2>2
<1>18. NumbersOK'
  <2> SUFFICES ASSUME lost = 0, NEW j \in Kinds, NEW h \in Generations
               PROVE  /\ loop'[j][h].pc # "none" /\ Current(j, h) =>
                           IF lock = Resetting(j) THEN ~IsListener(loop[j][h].number)'
                           ELSE table'[loop'[j][h].number] = Own(j, h)
                      /\ loop'[j][h].pc = "probeClient"
                         \/ (loop'[j][h].pc = "checkClient" /\ Current(j, h)) =>
                            table'[loop'[j][h].client].from = Own(j, h)
    <3>1. lost' = lost /\ lock' = lock
      BY <1>6
    <3>2. QED
      BY <1>12, <3>1 DEF NumbersOK, Resetting
  <2>1. ASSUME loop[j][h].pc # "none", Current(j, h)
        PROVE  IF lock = Resetting(j) THEN ~IsListener(loop[j][h].number)'
               ELSE table'[loop'[j][h].number] = Own(j, h)
    <3>1. loop[j][h].number \in Numbers
      BY <1>1, <2>1 DEF LoopsOK, TypeOK, Loop
    <3>2. IF lock = Resetting(j) THEN ~IsListener(loop[j][h].number)
          ELSE table[loop[j][h].number] = Own(j, h)
      BY <1>1, <2>1 DEF NumbersOK
    <3>3. table[loop[j][h].number] = Own(j, h) => IsListener(loop[j][h].number)
      BY <1>1, <3>1, Entries, OwnListener
    <3>4. QED
      BY <1>11, <1>12, <3>1, <3>2, <3>3
  <2>2. CASE j = k /\ h = g
    <3>1. Current(k, g) => table[n] = Own(k, g)
      BY <1>1, <1>3, <1>6 DEF NumbersOK
    <3>2. table'[m].from = table[n]
      BY <1>5, <1>8, <1>9
    <3>3. QED
      BY <1>7, <1>12, <2>1, <2>2, <3>1, <3>2 DEF LoopBecomes
  <2>3. CASE j # k \/ h # g
    <3>1. loop'[j][h] = loop[j][h] /\ loop[j][h].client # m
      BY <1>12, <1>16, <2>3
    <3>2. loop[j][h].pc \in {"checkClient", "probeClient"} => loop[j][h].client \in Numbers
      BY <1>1, <1>16 DEF ClientsOK
    <3>3. loop[j][h].pc = "probeClient" \/ (loop[j][h].pc = "checkClient" /\ Current(j, h)) =>
             table[loop[j][h].client].from = Own(j, h)
      BY <1>1 DEF NumbersOK
    <3>4. QED
      BY <1>9, <2>1, <3>1, <3>2, <3>3
  <2>4. QED
    BY <2>2, <2>3
<1>19. QED
  BY <1>1, <1>6, <1>10, <1>13, <1>14, <1>15, <1>17, <1>18 DEF SocketsOK, ServedOnOwnListener

(* A loop parts with the connection it accepted: closed, or handed on. *)
LEMMA PartsKeeps ==
    ASSUME SocketsOK, NEW k \in Kinds, NEW g \in Generations,
           loop[k][g].pc \in {"checkClient", "probeClient"}, NEW pc \in {"check", "done"},
           PcAndClient(k, g, pc, None),
           table' = table \/ table' = [table EXCEPT ![loop[k][g].client] = None],
           pc = "done" => ~(Current(k, g) /\ MatchesPath(k, loop[k][g].number)),
           UNCHANGED <<App, faults>>, ServedOnOwnListener',
           served' \subseteq Kinds \X Generations \X Listener
    PROVE  SocketsOK'
<1>1. /\ TypeOK /\ BudgetOK /\ ListenersOK /\ LoopsOK /\ ClientsOK /\ NumbersOK
  BY DEF SocketsOK
<1>2. UNCHANGED <<fd, generation, path, timer, lock, failure, terminating, starts, lost, faults>>
  BY DEF App
<1>3. PICK m : m = loop[k][g].client
  OBVIOUS
<1>4. /\ m \in Numbers /\ m # None /\ table[m] \in ClientOf /\ ~IsListener(m)
      /\ \A j \in Kinds, h \in Generations : (j # k \/ h # g) => loop[j][h].client # m
  <2>1. m # None /\ table[m] \in ClientOf
        /\ \A j \in Kinds, h \in Generations : loop[j][h].client = m => j = k /\ h = g
    BY <1>1, <1>3 DEF ClientsOK
  <2>2. m \in Numbers
    BY <1>1, <1>3, <2>1 DEF TypeOK, Loop
  <2>3. QED
    BY <1>1, <2>1, <2>2, Entries
<1>5. PICK y \in Loop : /\ LoopBecomes(k, g, y) /\ y.pc = pc
                        /\ y.number = loop[k][g].number /\ y.client = None
  <2>1. pc \in LoopPc /\ None \in Numbers \cup {None}
    BY DEF LoopPc
  <2>2. QED
    BY <1>1, <2>1, LoopPcAndClient
<1>6. /\ \A i \in Numbers : i # m => table'[i] = table[i]
      /\ table'[m] = table[m] \/ table'[m] = None
      /\ table' \in [Numbers -> Listener \cup ClientOf \cup {None}]
  BY <1>1, <1>3, <1>4 DEF TypeOK
<1>7. \A i \in Numbers : /\ IsListener(i)' <=> IsListener(i)
                         /\ IsListener(i) => table'[i] = table[i] /\ i # m
  <2>1. ~IsListener(m)'
    BY <1>4, <1>6 DEF IsListener, ClientOf
  <2>2. QED
    BY <1>4, <1>6, <2>1 DEF IsListener
<1>8. \A j \in Kinds, h \in Generations :
         /\ loop'[j][h].number = loop[j][h].number
         /\ loop'[j][h].pc # "none" <=> loop[j][h].pc # "none"
         /\ (j # k \/ h # g) => loop'[j][h] = loop[j][h]
         /\ Current(j, h)' <=> Current(j, h)
  BY <1>2, <1>5 DEF LoopBecomes, Current
<1>9. TypeOK'
  BY <1>1, <1>2, <1>5, <1>6 DEF TypeOK, LoopBecomes
<1>10. BudgetOK'
  <2>1. faults' \in Nat /\ faults <= faults'
    BY <1>1, <1>2, BoundsAssumption DEF TypeOK
  <2>2. QED
    BY <1>1, <1>2, <2>1, BudgetKeeps
<1>11. ListenersOK'
  <2> SUFFICES ASSUME NEW i \in Numbers, IsListener(i),
                      NEW j, NEW h, j = table[i].kind, h = table[i].generation
               PROVE  ListenerOK(i, j, h)'
    BY <1>7 DEF ListenersOK
  <2>1. j \in Kinds /\ h \in Generations
    BY <1>1, Entries DEF Listener
  <2>2. /\ fd[j] = i /\ terminating # "done" /\ (lock # None => lock.kind # j)
        /\ loop[j][h].number = i
        /\ terminating = "no" => generation[j] = h /\ loop[j][h].pc \notin {"none", "done"}
    BY <1>1 DEF ListenersOK, ListenerOK
  <2>3. terminating = "no" /\ j = k /\ h = g => y.pc \notin {"none", "done"}
    BY <1>1, <1>5, OwnIsCurrent
  <2>4. QED
    BY <1>2, <1>5, <1>8, <2>1, <2>2, <2>3 DEF ListenerOK, LoopBecomes
<1>12. LoopsOK'
  BY <1>1, <1>2, <1>8 DEF LoopsOK
<1>13. ClientsOK'
  <2> SUFFICES ASSUME NEW j \in Kinds, NEW h \in Generations
               PROVE  /\ loop'[j][h].client # None <=>
                           loop'[j][h].pc \in {"checkClient", "probeClient"}
                      /\ loop'[j][h].client # None =>
                           /\ table'[loop'[j][h].client] \in ClientOf
                           /\ \A i \in Kinds, f \in Generations :
                                loop'[i][f].client = loop'[j][h].client => i = j /\ f = h
    BY DEF ClientsOK
  <2>1. CASE j = k /\ h = g
    BY <1>5, <2>1 DEF LoopBecomes
  <2>2. CASE j # k \/ h # g
    <3>1. loop'[j][h] = loop[j][h] /\ loop[j][h].client # m
      BY <1>4, <1>8, <2>2
    <3>2. /\ loop[j][h].client # None <=> loop[j][h].pc \in {"checkClient", "probeClient"}
          /\ loop[j][h].client # None =>
                /\ table[loop[j][h].client] \in ClientOf /\ loop[j][h].client \in Numbers
                /\ \A i \in Kinds, f \in Generations :
                      loop[i][f].client = loop[j][h].client => i = j /\ f = h
      BY <1>1 DEF ClientsOK, TypeOK, Loop
    <3>3. ASSUME NEW i \in Kinds, NEW f \in Generations, loop'[i][f].client = loop[j][h].client,
                 loop[j][h].client # None
          PROVE  i = j /\ f = h
      <4>1. ~(i = k /\ f = g)
        BY <1>5, <3>3 DEF LoopBecomes
      <4>2. QED
        BY <1>8, <3>2, <3>3, <4>1
    <3>4. QED
      BY <1>6, <3>1, <3>2, <3>3
  <2>3. QED
    BY <2>1, <2>2
<1>14. NumbersOK'
  <2> SUFFICES ASSUME lost = 0, NEW j \in Kinds, NEW h \in Generations
               PROVE  /\ loop'[j][h].pc # "none" /\ Current(j, h) =>
                           IF lock = Resetting(j) THEN ~IsListener(loop[j][h].number)'
                           ELSE table'[loop'[j][h].number] = Own(j, h)
                      /\ loop'[j][h].pc = "probeClient"
                         \/ (loop'[j][h].pc = "checkClient" /\ Current(j, h)) =>
                            table'[loop'[j][h].client].from = Own(j, h)
    <3>1. lost' = lost /\ lock' = lock
      BY <1>2
    <3>2. QED
      BY <1>8, <3>1 DEF NumbersOK, Resetting
  <2>1. ASSUME loop[j][h].pc # "none", Current(j, h)
        PROVE  IF lock = Resetting(j) THEN ~IsListener(loop[j][h].number)'
               ELSE table'[loop'[j][h].number] = Own(j, h)
    <3>1. loop[j][h].number \in Numbers
      BY <1>1, <2>1 DEF LoopsOK, TypeOK, Loop
    <3>2. IF lock = Resetting(j) THEN ~IsListener(loop[j][h].number)
          ELSE table[loop[j][h].number] = Own(j, h)
      BY <1>1, <2>1 DEF NumbersOK
    <3>3. table[loop[j][h].number] = Own(j, h) => IsListener(loop[j][h].number)
      BY <1>1, <3>1, Entries, OwnListener
    <3>4. QED
      BY <1>7, <1>8, <3>1, <3>2, <3>3
  <2>2. CASE j = k /\ h = g
    BY <1>5, <1>8, <2>1, <2>2 DEF LoopBecomes
  <2>3. CASE j # k \/ h # g
    <3>1. loop'[j][h] = loop[j][h] /\ loop[j][h].client # m
      BY <1>4, <1>8, <2>3
    <3>2. loop[j][h].pc \in {"checkClient", "probeClient"} => loop[j][h].client \in Numbers
      BY <1>1 DEF ClientsOK, TypeOK, Loop
    <3>3. loop[j][h].pc = "probeClient" \/ (loop[j][h].pc = "checkClient" /\ Current(j, h)) =>
             table[loop[j][h].client].from = Own(j, h)
      BY <1>1 DEF NumbersOK
    <3>4. QED
      BY <1>6, <2>1, <3>1, <3>2, <3>3
  <2>4. QED
    BY <2>2, <2>3
<1>15. QED
  BY <1>9, <1>10, <1>11, <1>12, <1>13, <1>14 DEF SocketsOK

(* The tests after an accept: what does not belong to the loop is closed, and what is
   handed on came in on the loop's own listener. *)
LEMMA ClientKeeps ==
    ASSUME SocketsOK, NEW k \in Kinds, NEW g \in Generations,
           (CheckClient(k, g) /\ ~Current(k, g)) \/ ServeClient(k, g)
    PROVE  SocketsOK'
<1>1. TypeOK /\ ClientsOK /\ NumbersOK /\ ServedOnOwnListener
  BY DEF SocketsOK
<1>2. served \subseteq Kinds \X Generations \X Listener
  BY <1>1 DEF TypeOK
<1>3. ASSUME loop[k][g].pc \in {"checkClient", "probeClient"}, CloseClient(k, g),
             ~Current(k, g) \/ ~MatchesPath(k, loop[k][g].number),
             UNCHANGED <<App, faults, served>>
      PROVE  SocketsOK'
  <2>1. PcAndClient(k, g, "done", None) /\ table' = [table EXCEPT ![loop[k][g].client] = None]
    BY <1>3 DEF CloseClient, PcAndClient
  <2>2. ServedOnOwnListener'
    BY <1>1, <1>3 DEF App, ServedOnOwnListener
  <2>3. QED
    BY <1>2, <1>3, <2>1, <2>2, PartsKeeps
<1>4. CASE CheckClient(k, g) /\ ~Current(k, g)
  BY <1>3, <1>4 DEF CheckClient
<1>5. CASE ServeClient(k, g) /\ ~MatchesPath(k, loop[k][g].number)
  BY <1>3, <1>5 DEF ServeClient
<1>6. CASE ServeClient(k, g) /\ MatchesPath(k, loop[k][g].number)
  <2>1. PICK f : f = table[loop[k][g].client].from
    OBVIOUS
  <2>2. /\ loop[k][g].pc = "probeClient" /\ served' = served \cup {<<k, g, f>>}
        /\ PcAndClient(k, g, "check", None) /\ table' = table /\ UNCHANGED <<App, faults>>
    BY <1>6, <2>1 DEF ServeClient, PcAndClient
  <2>3. f \in Listener
    BY <1>1, <2>1, <2>2 DEF ClientsOK, ClientOf
  <2>4. lost = 0 => f.kind = k /\ f.generation = g
    BY <1>1, <2>1, <2>2, OwnListener DEF NumbersOK
  <2>5. served' \subseteq Kinds \X Generations \X Listener
    BY <1>2, <2>2, <2>3
  <2>6. ServedOnOwnListener'
    BY <1>1, <2>2, <2>4 DEF App, ServedOnOwnListener
  <2>7. QED
    BY <2>2, <2>5, <2>6, PartsKeeps
<1>7. QED
  BY <1>4, <1>5, <1>6

-----------------------------------------------------------------------------
(* The loops stay, and of the table only listeners go. *)
ListenersGo ==
    /\ table' \in [Numbers -> Listener \cup ClientOf \cup {None}]
    /\ \A i \in Numbers : table'[i] = table[i] \/ (IsListener(i) /\ table'[i] = None)

LEMMA ClientsStay ==
    ASSUME TypeOK, ClientsOK, ListenersGo
    PROVE  /\ \A i \in Numbers : table[i] \in ClientOf => table'[i] = table[i]
           /\ \A i \in Numbers : IsListener(i)' => IsListener(i) /\ table'[i] = table[i]
           /\ \A k \in Kinds, g \in Generations :
                loop[k][g].pc \in {"checkClient", "probeClient"} =>
                   table'[loop[k][g].client] = table[loop[k][g].client]
           /\ loop' = loop => ClientsOK'
<1>1. \A i \in Numbers : table[i] \in ClientOf => table'[i] = table[i]
  BY Entries DEF ListenersGo
<1>2. \A i \in Numbers : IsListener(i)' => IsListener(i) /\ table'[i] = table[i]
  BY DEF ListenersGo, IsListener
<1>3. \A k \in Kinds, g \in Generations :
         loop[k][g].client # None => loop[k][g].client \in Numbers
  BY DEF TypeOK, Loop
<1>4. \A k \in Kinds, g \in Generations :
         loop[k][g].client # None => table'[loop[k][g].client] = table[loop[k][g].client]
  BY <1>1, <1>3 DEF ClientsOK
<1>5. loop' = loop => ClientsOK'
  BY <1>4 DEF ClientsOK
<1>6. QED
  BY <1>1, <1>2, <1>4, <1>5 DEF ClientsOK

(* JuiceListenerEnded, for the loop of the listener in use. *)
LEMMA EndedKeeps ==
    ASSUME SocketsOK, NEW k \in Kinds, NEW g \in Generations, ListenerEnded(k, g)
    PROVE  SocketsOK'
<1>1. /\ TypeOK /\ BudgetOK /\ ListenersOK /\ LoopsOK /\ ClientsOK /\ NumbersOK
      /\ ServedOnOwnListener
  BY DEF SocketsOK
<1>2. PICK y \in Loop : /\ LoopBecomes(k, g, y) /\ y.pc = "done"
                        /\ y.number = loop[k][g].number /\ y.client = loop[k][g].client
  <2>1. "done" \in LoopPc /\ Goto(k, g, "done")
    BY DEF LoopPc, ListenerEnded
  <2>2. QED
    BY <1>1, <2>1, LoopGoto
<1>3. /\ loop[k][g].pc = "ended" /\ lock = None
      /\ UNCHANGED <<generation, timer, lock, failure, terminating, starts, faults, lost, served>>
  BY DEF ListenerEnded, counters
<1>4. CASE ~Current(k, g)
  <2>1. UNCHANGED <<App, table, served>>
    BY <1>3, <1>4 DEF ListenerEnded, App
  <2>2. faults' \in 0..MaxFaults /\ faults <= faults'
    BY <1>1, <1>3, BoundsAssumption DEF TypeOK
  <2>3. QED
    BY <1>2, <1>3, <1>4, <2>1, <2>2, MoveKeeps
<1>5. CASE Current(k, g)
  <2>1. PICK n \in Numbers : n = loop[k][g].number /\ n = fd[k] /\ n # None
    BY <1>1, <1>3, <1>5 DEF LoopsOK, TypeOK, Loop, Current
  <2>2. /\ table' = IF MatchesPath(k, n) THEN [table EXCEPT ![n] = None] ELSE table
        /\ fd' = [fd EXCEPT ![k] = None] /\ path' = [path EXCEPT ![k] = 0]
    BY <1>5, <2>1 DEF ListenerEnded
  <2>3. ListenersGo
    BY <1>1, <2>1, <2>2, Entries DEF TypeOK, ListenersGo
  <2>4. /\ \A i \in Numbers : IsListener(i)' => IsListener(i) /\ table'[i] = table[i]
        /\ \A i \in Numbers : table[i] \in ClientOf => table'[i] = table[i]
        /\ \A j \in Kinds, h \in Generations :
                loop[j][h].pc \in {"checkClient", "probeClient"} =>
                   table'[loop[j][h].client] = table[loop[j][h].client]
    BY <1>1, <2>3, ClientsStay
  <2>5. \A j \in Kinds : fd'[j] = IF j = k THEN None ELSE fd[j]
    BY <1>1, <2>2 DEF TypeOK
  <2>6. \A j \in Kinds, h \in Generations :
          /\ loop'[j][h].number = loop[j][h].number /\ loop'[j][h].client = loop[j][h].client
          /\ loop'[j][h].pc # "none" <=> loop[j][h].pc # "none"
          /\ loop'[j][h].pc = "checkClient" <=> loop[j][h].pc = "checkClient"
          /\ loop'[j][h].pc = "probeClient" <=> loop[j][h].pc = "probeClient"
          /\ j # k => loop'[j][h] = loop[j][h]
          /\ loop[j][h].pc # "none" /\ Current(j, h)' => Current(j, h) /\ j # k
    <3>1. \A h \in Generations : loop[k][h].pc # "none" => loop[k][h].number # None
      BY <1>1 DEF LoopsOK
    <3>2. QED
      BY <1>2, <1>3, <2>5, <3>1 DEF LoopBecomes, Current
  <2>7. TypeOK'
    <3>1. 0 \in 0..MaxGeneration
      BY BoundsAssumption DEF MaxGeneration
    <3>2. QED
      BY <1>1, <1>2, <1>3, <2>2, <2>3, <3>1 DEF TypeOK, LoopBecomes, ListenersGo
  <2>8. BudgetOK'
    <3>1. faults' \in Nat /\ faults <= faults'
      BY <1>1, <1>3, BoundsAssumption DEF TypeOK
    <3>2. \A j \in Kinds : lock # [kind |-> j, step |-> "bind"]
      BY <1>3, NoneAssumption DEF InStart
    <3>3. QED
      BY <1>1, <1>3, <3>1, <3>2, BudgetKeeps
  <2>9. ListenersOK'
    <3> SUFFICES ASSUME NEW i \in Numbers, IsListener(i)', IsListener(i),
                        NEW j, NEW h, j = table[i].kind, h = table[i].generation,
                        table'[i] = table[i]
                 PROVE  ListenerOK(i, j, h)'
      BY <2>4 DEF ListenersOK
    <3>1. j \in Kinds /\ h \in Generations
      BY <1>1, Entries DEF Listener
    <3>2. /\ fd[j] = i /\ terminating # "done" /\ (lock # None => lock.kind # j)
          /\ loop[j][h].number = i
          /\ terminating = "no" => generation[j] = h /\ loop[j][h].pc \notin {"none", "done"}
      BY <1>1 DEF ListenersOK, ListenerOK
    <3>3. j # k
      <4>1. j = k => i = n /\ MatchesPath(k, n)
        <5>1. MatchesPath(j, i)
          BY <2>1, NoneAssumption DEF MatchesPath
        <5>2. QED
          BY <2>1, <3>2, <5>1
      <4>2. j = k => table'[n] = None
        BY <1>1, <2>1, <2>2, <4>1 DEF TypeOK
      <4>3. QED
        BY <4>1, <4>2 DEF IsListener
    <3>4. fd'[j] = fd[j] /\ loop'[j][h] = loop[j][h]
      BY <2>5, <2>6, <3>1, <3>3
    <3>5. QED
      BY <1>3, <3>2, <3>4 DEF ListenerOK
  <2>10. LoopsOK'
    BY <1>1, <1>3, <2>6 DEF LoopsOK
  <2>11. ClientsOK'
    BY <1>1, <2>4, <2>6 DEF ClientsOK
  <2>12. NumbersOK'
    <3> SUFFICES ASSUME lost = 0, NEW j \in Kinds, NEW h \in Generations
                 PROVE  /\ loop[j][h].pc # "none" /\ Current(j, h)' =>
                             table'[loop[j][h].number] = Own(j, h)
                        /\ loop[j][h].pc = "probeClient"
                           \/ (loop[j][h].pc = "checkClient" /\ Current(j, h)') =>
                              table'[loop[j][h].client].from = Own(j, h)
      <4>1. lost' = lost /\ \A j \in Kinds : lock' # Resetting(j)
        BY <1>3, NoneAssumption DEF InStart, Resetting
      <4>2. QED
        BY <2>6, <4>1 DEF NumbersOK, Resetting
    <3>1. ASSUME loop[j][h].pc # "none", Current(j, h)'
          PROVE  table'[loop[j][h].number] = Own(j, h)
      <4>1. Current(j, h) /\ j # k /\ lock # Resetting(j)
        BY <1>3, <2>6, <3>1, NoneAssumption DEF InStart, Resetting
      <4>2. table[loop[j][h].number] = Own(j, h)
        BY <1>1, <3>1, <4>1 DEF NumbersOK
      <4>3. loop[j][h].number = n => ~MatchesPath(k, n)
        BY <1>1, <2>1, <4>1, <4>2, OwnListener DEF MatchesPath
      <4>4. QED
        BY <1>1, <2>1, <2>2, <4>2, <4>3 DEF TypeOK
    <3>2. loop[j][h].pc = "probeClient" \/ (loop[j][h].pc = "checkClient" /\ Current(j, h)) =>
             table[loop[j][h].client].from = Own(j, h)
      BY <1>1 DEF NumbersOK
    <3>3. QED
      BY <2>4, <2>6, <3>1, <3>2
  <2>13. QED
    BY <1>1, <1>3, <2>7, <2>8, <2>9, <2>10, <2>11, <2>12 DEF SocketsOK, ServedOnOwnListener
<1>6. QED
  BY <1>4, <1>5

(* Connections end, a path goes, a descriptor is lost. *)
LEMMA OutsideKeeps ==
    ASSUME SocketsOK,
           \/ \E n \in Numbers : ClientGone(n) \/ NumberLost(n)
           \/ \E k \in Kinds : PathRemoved(k)
    PROVE  SocketsOK'
<1>1. /\ TypeOK /\ BudgetOK /\ ListenersOK /\ LoopsOK /\ ClientsOK /\ NumbersOK
      /\ ServedOnOwnListener
  BY DEF SocketsOK
<1>2. ASSUME NEW n \in Numbers, ClientGone(n) PROVE SocketsOK'
  <2>1. /\ table[n] \in ClientOf /\ ~IsListener(n)
        /\ \A k \in Kinds, g \in Generations : loop[k][g].client # n
        /\ table' = [table EXCEPT ![n] = None]
        /\ UNCHANGED <<fd, generation, path, loop, timer, lock, failure, terminating,
                       starts, faults, lost, served>>
    BY <1>1, <1>2, Entries DEF ClientGone, counters
  <2>2. \A i \in Numbers : table'[i] = IF i = n THEN None ELSE table[i]
    BY <1>1, <2>1 DEF TypeOK
  <2>3. \A i \in Numbers : IsListener(i)' <=> IsListener(i)
    BY <2>1, <2>2 DEF IsListener
  <2>4. \A i \in Numbers : IsListener(i) => table'[i] = table[i]
    BY <2>1, <2>2
  <2>5. TypeOK'
    BY <1>1, <2>1 DEF TypeOK
  <2>6. BudgetOK'
    <3>1. faults' \in Nat /\ faults <= faults'
      BY <1>1, <2>1, BoundsAssumption DEF TypeOK
    <3>2. QED
      BY <1>1, <2>1, <3>1, BudgetKeeps
  <2>7. ListenersOK'
    <3> SUFFICES ASSUME NEW i \in Numbers, IsListener(i)
                 PROVE  ListenerOK(i, table[i].kind, table[i].generation)'
      BY <2>3 DEF ListenersOK
    <3>1. ListenerOK(i, table[i].kind, table[i].generation) /\ table'[i] = table[i]
      BY <1>1, <2>4 DEF ListenersOK
    <3>2. QED
      BY <2>1, <3>1 DEF ListenerOK
  <2>8. LoopsOK'
    BY <1>1, <2>1 DEF LoopsOK
  <2>9. \A k \in Kinds, g \in Generations :
          loop[k][g].client # None => /\ loop[k][g].client \in Numbers
                                      /\ table'[loop[k][g].client] = table[loop[k][g].client]
    BY <1>1, <2>1, <2>2 DEF TypeOK, Loop
  <2>10. ClientsOK'
    BY <1>1, <2>1, <2>9 DEF ClientsOK
  <2>11. NumbersOK'
    <3> SUFFICES ASSUME lost = 0, NEW j \in Kinds, NEW h \in Generations
                 PROVE  /\ loop[j][h].pc # "none" /\ Current(j, h) =>
                             IF lock = Resetting(j) THEN ~IsListener(loop[j][h].number)'
                             ELSE table'[loop[j][h].number] = Own(j, h)
                        /\ loop[j][h].pc = "probeClient"
                           \/ (loop[j][h].pc = "checkClient" /\ Current(j, h)) =>
                              table'[loop[j][h].client].from = Own(j, h)
      BY <2>1 DEF NumbersOK, Resetting, Current
    <3>1. ASSUME loop[j][h].pc # "none", Current(j, h)
          PROVE  IF lock = Resetting(j) THEN ~IsListener(loop[j][h].number)'
                 ELSE table'[loop[j][h].number] = Own(j, h)
      <4>1. loop[j][h].number \in Numbers
        BY <1>1, <3>1 DEF LoopsOK, TypeOK, Loop
      <4>2. IF lock = Resetting(j) THEN ~IsListener(loop[j][h].number)
            ELSE table[loop[j][h].number] = Own(j, h)
        BY <1>1, <3>1 DEF NumbersOK
      <4>3. table[loop[j][h].number] = Own(j, h) => IsListener(loop[j][h].number)
        BY <1>1, <4>1, Entries, OwnListener
      <4>4. loop'[j][h] = loop[j][h]
        BY <2>1
      <4>5. QED
        BY <2>3, <2>4, <4>1, <4>2, <4>3, <4>4
    <3>2. loop[j][h].pc = "probeClient" \/ (loop[j][h].pc = "checkClient" /\ Current(j, h)) =>
             /\ table[loop[j][h].client].from = Own(j, h) /\ loop[j][h].client # None
      BY <1>1 DEF NumbersOK, ClientsOK
    <3>3. QED
      BY <2>9, <3>1, <3>2
  <2>12. QED
    BY <1>1, <2>1, <2>5, <2>6, <2>7, <2>8, <2>10, <2>11 DEF SocketsOK, ServedOnOwnListener
<1>3. ASSUME NEW n \in Numbers, NumberLost(n) PROVE SocketsOK'
  <2>1. /\ IsListener(n) /\ table' = [table EXCEPT ![n] = None]
        /\ lost' = lost + 1 /\ lost < MaxLost
        /\ UNCHANGED <<fd, generation, path, loop, timer, lock, failure, terminating,
                       starts, faults, served>>
    BY <1>3 DEF NumberLost
  <2>2. ListenersGo
    BY <1>1, <2>1 DEF TypeOK, ListenersGo
  <2>3. ClientsOK' /\ \A i \in Numbers : IsListener(i)' => IsListener(i) /\ table'[i] = table[i]
    BY <1>1, <2>1, <2>2, ClientsStay
  <2>4. lost' \in 0..MaxLost /\ lost' # 0
    BY <1>1, <2>1, BoundsAssumption DEF TypeOK
  <2>5. TypeOK'
    BY <1>1, <2>1, <2>2, <2>4 DEF TypeOK, ListenersGo
  <2>6. BudgetOK'
    <3>1. faults' \in Nat /\ faults <= faults'
      BY <1>1, <2>1, BoundsAssumption DEF TypeOK
    <3>2. QED
      BY <1>1, <2>1, <3>1, BudgetKeeps
  <2>7. ListenersOK'
    <3> SUFFICES ASSUME NEW i \in Numbers, IsListener(i)'
                 PROVE  ListenerOK(i, table[i].kind, table[i].generation)'
      BY DEF ListenersOK
    <3>1. ListenerOK(i, table[i].kind, table[i].generation) /\ table'[i] = table[i]
      BY <1>1, <2>3 DEF ListenersOK
    <3>2. QED
      BY <2>1, <3>1 DEF ListenerOK
  <2>8. LoopsOK'
    BY <1>1, <2>1 DEF LoopsOK
  <2>9. QED
    BY <2>3, <2>4, <2>5, <2>6, <2>7, <2>8 DEF SocketsOK, ServedOnOwnListener, NumbersOK
<1>4. ASSUME NEW k \in Kinds, PathRemoved(k) PROVE SocketsOK'
  <2>1. /\ path' = [path EXCEPT ![k] = 0] /\ faults' = faults + 1 /\ faults < MaxFaults
        /\ UNCHANGED <<fd, generation, table, loop, timer, lock, failure, terminating,
                       starts, lost, served>>
    BY <1>4 DEF PathRemoved
  <2>2. faults' \in 0..MaxFaults /\ faults' \in Nat /\ faults <= faults' /\ 0 \in 0..MaxGeneration
    BY <1>1, <2>1, BoundsAssumption DEF TypeOK, MaxGeneration
  <2>3. TypeOK'
    BY <1>1, <2>1, <2>2 DEF TypeOK
  <2>4. BudgetOK'
    BY <1>1, <2>1, <2>2, BudgetKeeps
  <2>5. ListenersOK' /\ LoopsOK' /\ ClientsOK' /\ ServedOnOwnListener'
    BY <1>1, <2>1
       DEF ListenersOK, ListenerOK, IsListener, LoopsOK, ClientsOK, ServedOnOwnListener
  <2>6. NumbersOK'
    BY <1>1, <2>1 DEF NumbersOK, IsListener, Current, Resetting
  <2>7. QED
    BY <2>3, <2>4, <2>5, <2>6 DEF SocketsOK
<1>5. QED
  BY <1>2, <1>3, <1>4

-----------------------------------------------------------------------------
(* Termination: every loop is out of date at once, and the listeners go. *)
LEMMA TerminationKeeps ==
    ASSUME SocketsOK, WillTerminate \/ Terminated
    PROVE  SocketsOK'
<1>1. /\ TypeOK /\ BudgetOK /\ ListenersOK /\ LoopsOK /\ ClientsOK /\ NumbersOK
      /\ ServedOnOwnListener
  BY DEF SocketsOK
<1>2. CASE WillTerminate
  <2>1. /\ lock = None /\ terminating = "no" /\ terminating' = "flagged"
        /\ generation' = [k \in Kinds |-> generation[k] + 1]
        /\ UNCHANGED <<fd, path, table, loop, timer, lock, failure, starts, faults, lost, served>>
    BY <1>2 DEF WillTerminate, counters
  <2>2. \A k \in Kinds : generation[k] \in 0..MaxStarts + MaxFaults
    <3> SUFFICES ASSUME NEW k \in Kinds PROVE generation[k] \in 0..MaxStarts + MaxFaults
      OBVIOUS
    <3>1. /\ starts \in 0..MaxStarts /\ faults \in 0..MaxFaults /\ generation[k] \in Nat
      BY <1>1, BoundsAssumption DEF TypeOK, MaxGeneration
    <3>2. Held(k) \in Nat /\ Cardinality(Pending(k)) \in Nat
      <4>1. IsFiniteSet(Generations)
        BY FS_Interval, BoundsAssumption DEF Generations, MaxGeneration
      <4>2. IsFiniteSet(Pending(k))
        BY <4>1, FS_Subset DEF Pending
      <4>3. QED
        BY <4>2, FS_CardinalityType DEF Held
    <3>3. generation[k] + Held(k) + Cardinality(Pending(k)) <= starts + faults
      BY <1>1, <2>1 DEF BudgetOK
    <3>4. \A a, b, c, d, e \in Nat : \A x \in 0..d, y \in 0..e :
             a + b + c <= x + y => a \in 0..d + e
      OBVIOUS
    <3>5. QED
      BY <3>1, <3>2, <3>3, <3>4, BoundsAssumption, Zenon
  <2>3. \A k \in Kinds : generation'[k] = generation[k] + 1
    BY <2>1
  <2>4. TypeOK'
    <3>1. generation' \in [Kinds -> 0..MaxGeneration + 1]
      BY <2>1, <2>2, BoundsAssumption DEF MaxGeneration
    <3>2. QED
      BY <1>1, <2>1, <3>1 DEF TypeOK
  <2>5. BudgetOK'
    BY <2>1, NoneAssumption DEF BudgetOK, InStart
  <2>6. ListenersOK'
    BY <1>1, <2>1 DEF ListenersOK, ListenerOK, IsListener
  <2>7. \A k \in Kinds, g \in Generations : g <= generation[k] => g < generation[k] + 1
    BY <2>2, BoundsAssumption DEF Generations, MaxGeneration
  <2>8. \A k \in Kinds, g \in Generations : g < generation[k] + 1 => g <= generation[k] + 1
                                             /\ g # generation[k] + 1
    BY <2>2, BoundsAssumption DEF Generations, MaxGeneration
  <2>9. LoopsOK'
    BY <1>1, <2>1, <2>3, <2>7, <2>8 DEF LoopsOK
  <2>10. ClientsOK' /\ ServedOnOwnListener'
    BY <1>1, <2>1 DEF ClientsOK, ServedOnOwnListener
  <2>11. \A k \in Kinds, g \in Generations : loop[k][g].pc # "none" => ~Current(k, g)'
    BY <1>1, <2>3, <2>7, <2>8 DEF LoopsOK, Current
  <2>12. NumbersOK'
    BY <1>1, <2>1, <2>11 DEF NumbersOK
  <2>13. QED
    BY <2>4, <2>5, <2>6, <2>9, <2>10, <2>12 DEF SocketsOK
<1>3. CASE Terminated
  <2>1. /\ lock = None /\ terminating = "flagged" /\ terminating' = "done"
        /\ fd' = [k \in Kinds |-> None] /\ path' = [k \in Kinds |-> 0]
        /\ UNCHANGED <<generation, loop, timer, lock, failure, starts, faults, lost, served>>
        /\ table' = [n \in Numbers |->
              IF \E k \in Kinds : fd[k] = n /\ MatchesPath(k, n) THEN None ELSE table[n]]
    BY <1>3 DEF Terminated, counters
  <2>2. ASSUME NEW n \in Numbers, IsListener(n) PROVE table'[n] = None
    <3>1. table[n] \in Listener
      BY <1>1, <2>2, Entries
    <3>2. table[n].kind \in Kinds
      BY <3>1 DEF Listener
    <3>3. fd[table[n].kind] = n
      BY <1>1, <2>2 DEF ListenersOK, ListenerOK
    <3>4. MatchesPath(table[n].kind, n)
      BY <1>1, <3>1, <3>2, Entries
    <3>5. QED
      BY <2>1, <3>2, <3>3, <3>4
  <2>3. ListenersGo
    BY <1>1, <2>1 DEF TypeOK, ListenersGo, MatchesPath
  <2>4. /\ ClientsOK'
        /\ \A i \in Numbers : IsListener(i)' => IsListener(i) /\ table'[i] = table[i]
        /\ \A k \in Kinds, g \in Generations :
                loop[k][g].pc \in {"checkClient", "probeClient"} =>
                   table'[loop[k][g].client] = table[loop[k][g].client]
    BY <1>1, <2>1, <2>3, ClientsStay
  <2>5. ListenersOK'
    BY <2>2, <2>4 DEF ListenersOK, IsListener
  <2>6. TypeOK'
    <3>1. 0 \in 0..MaxGeneration
      BY BoundsAssumption DEF MaxGeneration
    <3>2. QED
      BY <1>1, <2>1, <2>3, <3>1 DEF TypeOK, ListenersGo
  <2>7. BudgetOK'
    BY <2>1, NoneAssumption DEF BudgetOK, InStart
  <2>8. LoopsOK' /\ ServedOnOwnListener'
    BY <1>1, <2>1 DEF LoopsOK, ServedOnOwnListener
  <2>9. \A k \in Kinds, g \in Generations : loop[k][g].pc # "none" => ~Current(k, g)'
    BY <1>1, <2>1 DEF LoopsOK, Current
  <2>10. NumbersOK'
    BY <1>1, <2>1, <2>4, <2>9 DEF NumbersOK
  <2>11. QED
    BY <2>4, <2>5, <2>6, <2>7, <2>8, <2>10 DEF SocketsOK
<1>4. QED
  BY <1>2, <1>3

(* The start of a start: the old listener of the kind is closed under the lock. *)
LEMMA ClosedKeeps ==
    ASSUME SocketsOK, NEW k \in Kinds, lock = None, StartClosed(k),
           UNCHANGED <<fd, generation, loop, terminating, lost, served>>
    PROVE  /\ ListenersOK' /\ LoopsOK' /\ ClientsOK' /\ NumbersOK' /\ ServedOnOwnListener'
           /\ table' \in [Numbers -> Listener \cup ClientOf \cup {None}]
           /\ terminating = "no" /\ lock' = Resetting(k) /\ lock' \in InStart
<1>1. /\ TypeOK /\ ListenersOK /\ LoopsOK /\ ClientsOK /\ NumbersOK /\ ServedOnOwnListener
  BY DEF SocketsOK
<1>2. /\ terminating = "no" /\ lock' = Resetting(k)
      /\ table' = IF MatchesPath(k, fd[k]) THEN [table EXCEPT ![fd[k]] = None] ELSE table
  BY DEF StartClosed, Resetting
<1>3. \A i \in Numbers : table'[i] = IF i = fd[k] /\ MatchesPath(k, fd[k]) THEN None ELSE table[i]
  BY <1>1, <1>2 DEF TypeOK
<1>4. ListenersGo
  BY <1>1, <1>2, <1>3 DEF TypeOK, ListenersGo, MatchesPath
<1>5. /\ ClientsOK'
      /\ \A i \in Numbers : IsListener(i)' => IsListener(i) /\ table'[i] = table[i]
      /\ \A j \in Kinds, h \in Generations :
              loop[j][h].pc \in {"checkClient", "probeClient"} =>
                 table'[loop[j][h].client] = table[loop[j][h].client]
  BY <1>1, <1>4, ClientsStay
<1>6. Resetting(k) \in InStart /\ Resetting(k).kind = k
      /\ \A j \in Kinds : Resetting(j) = Resetting(k) <=> j = k
  BY DEF Resetting, InStart
<1>7. ListenersOK'
  <2> SUFFICES ASSUME NEW i \in Numbers, IsListener(i)', IsListener(i),
                      NEW j, NEW h, j = table[i].kind, h = table[i].generation,
                      table'[i] = table[i]
               PROVE  ListenerOK(i, j, h)'
    BY <1>5 DEF ListenersOK
  <2>1. ListenerOK(i, j, h)
    BY <1>1 DEF ListenersOK
  <2>2. j # k
    <3>1. j = k => fd[k] = i /\ MatchesPath(k, i)
      BY <2>1 DEF ListenerOK, MatchesPath
    <3>2. QED
      BY <1>3, <3>1 DEF IsListener
  <2>3. QED
    BY <1>2, <1>6, <2>1, <2>2 DEF ListenerOK
<1>8. LoopsOK' /\ ServedOnOwnListener'
  BY <1>1 DEF LoopsOK, ServedOnOwnListener
<1>9. \A j \in Kinds : lock # Resetting(j)
  BY NoneAssumption DEF Resetting, InStart
<1>10. NumbersOK'
  <2> SUFFICES ASSUME lost = 0, NEW j \in Kinds, NEW h \in Generations
               PROVE  /\ loop[j][h].pc # "none" /\ Current(j, h) =>
                           IF j = k THEN ~IsListener(loop[j][h].number)'
                           ELSE table'[loop[j][h].number] = Own(j, h)
                      /\ loop[j][h].pc = "probeClient"
                         \/ (loop[j][h].pc = "checkClient" /\ Current(j, h)) =>
                            table'[loop[j][h].client].from = Own(j, h)
    <3>1. \A j \in Kinds, h \in Generations : Current(j, h)' <=> Current(j, h)
      BY DEF Current
    <3>2. \A i \in Kinds : lock' = Resetting(i)' <=> i = k
      <4>1. \A i \in Kinds : Resetting(i)' = Resetting(i)
        BY DEF Resetting
      <4>2. QED
        BY <1>2, <1>6, <4>1
    <3>3. lost' = lost /\ loop' = loop
      OBVIOUS
    <3>4. \A i \in Kinds, h \in Generations : Own(i, h)' = Own(i, h)
      BY DEF Own
    <3>5. QED
      BY <3>1, <3>2, <3>3, <3>4 DEF NumbersOK
  <2>1. ASSUME loop[j][h].pc # "none", Current(j, h)
        PROVE  IF j = k THEN ~IsListener(loop[j][h].number)'
               ELSE table'[loop[j][h].number] = Own(j, h)
    <3>1. PICK n \in Numbers : n = loop[j][h].number
      BY <1>1, <2>1 DEF LoopsOK, TypeOK, Loop
    <3>2. table[n] = Own(j, h) /\ n = fd[j]
      BY <1>1, <1>9, <2>1, <3>1 DEF NumbersOK, Current
    <3>3. MatchesPath(j, n) /\ (j # k => ~MatchesPath(k, n))
      BY <1>1, <3>2, Entries, OwnListener
    <3>4. CASE j = k
      <4>1. table'[n] = None
        BY <1>3, <3>2, <3>3, <3>4
      <4>2. QED
        BY <3>1, <3>4, <4>1 DEF IsListener
    <3>5. CASE j # k
      BY <1>3, <3>1, <3>2, <3>3, <3>5
    <3>6. QED
      BY <3>4, <3>5
  <2>2. loop[j][h].pc = "probeClient" \/ (loop[j][h].pc = "checkClient" /\ Current(j, h)) =>
           table[loop[j][h].client].from = Own(j, h)
    BY <1>1 DEF NumbersOK
  <2>3. QED
    BY <1>5, <2>1, <2>2
<1>11. QED
  BY <1>2, <1>4, <1>5, <1>6, <1>7, <1>8, <1>10 DEF ListenersGo

-----------------------------------------------------------------------------
(* What a kind has spent of the budget. *)
Spent(k) == generation[k] + Held(k) + Cardinality(Pending(k))

LEMMA PendingIsFinite ==
    ASSUME NEW S, S \subseteq Generations
    PROVE  IsFiniteSet(S) /\ Cardinality(S) \in Nat
<1>1. IsFiniteSet(Generations)
  BY FS_Interval, BoundsAssumption DEF Generations, MaxGeneration
<1>2. IsFiniteSet(S)
  BY <1>1, FS_Subset
<1>3. QED
  BY <1>2, FS_CardinalityType

LEMMA Amounts ==
    ASSUME TypeOK, NEW k \in Kinds
    PROVE  /\ generation[k] \in Nat /\ Held(k) \in Nat /\ Cardinality(Pending(k)) \in Nat
           /\ Spent(k) \in Nat
           /\ starts \in Nat /\ starts <= MaxStarts /\ faults \in Nat /\ faults <= MaxFaults
<1>1. generation[k] \in Nat /\ starts \in Nat /\ starts <= MaxStarts
      /\ faults \in Nat /\ faults <= MaxFaults
  BY BoundsAssumption DEF TypeOK, MaxGeneration
<1>2. Pending(k) \subseteq Generations
  BY DEF Pending
<1>3. Cardinality(Pending(k)) \in Nat
  BY <1>2, PendingIsFinite
<1>4. Held(k) \in Nat
  BY DEF Held
<1>5. \A a, b, c \in Nat : a + b + c \in Nat
  OBVIOUS
<1>6. QED
  BY <1>1, <1>3, <1>4, <1>5 DEF Spent

LEMMA AmountsAfter ==
    ASSUME TypeOK', NEW k \in Kinds
    PROVE  /\ generation'[k] \in Nat /\ Held(k)' \in Nat /\ Cardinality(Pending(k)') \in Nat
           /\ Spent(k)' \in Nat
           /\ starts' \in Nat /\ starts' <= MaxStarts /\ faults' \in Nat /\ faults' <= MaxFaults
<1>1. generation'[k] \in Nat /\ starts' \in Nat /\ starts' <= MaxStarts
      /\ faults' \in Nat /\ faults' <= MaxFaults
  BY BoundsAssumption DEF TypeOK, MaxGeneration
<1>2. Pending(k)' \subseteq Generations
  BY DEF Pending
<1>3. Cardinality(Pending(k)') \in Nat
  BY <1>2, PendingIsFinite
<1>4. Held(k)' \in Nat
  BY DEF Held
<1>5. \A a, b, c \in Nat : a + b + c \in Nat
  OBVIOUS
<1>6. QED
  BY <1>1, <1>3, <1>4, <1>5 DEF Spent

LEMMA SpendKeeps ==
    ASSUME TypeOK, TypeOK', BudgetOK, terminating' = terminating,
           lock' # None => terminating = "no",
           \A j \in Kinds : lock' = [kind |-> j, step |-> "bind"] =>
               generation'[j] >= 1 /\ fd'[j] = None,
           \A j \in Kinds : Spent(j)' - starts' - faults' <= Spent(j) - starts - faults
    PROVE  BudgetOK'
<1>1. ASSUME terminating' = "no", NEW k \in Kinds
      PROVE  generation'[k] + Held(k)' + Cardinality(Pending(k)') <= starts' + faults'
  <2>1. Spent(k) <= starts + faults
    BY <1>1 DEF BudgetOK, Spent
  <2>2. Spent(k) \in Nat /\ starts \in Nat /\ faults \in Nat
    BY Amounts
  <2>3. Spent(k)' \in Nat /\ starts' \in Nat /\ faults' \in Nat
        /\ Spent(k)' - starts' - faults' <= Spent(k) - starts - faults
    BY AmountsAfter
  <2>4. PICK x, s, f, y, t, e \in Nat :
          /\ x = Spent(k) /\ s = starts /\ f = faults
          /\ y = Spent(k)' /\ t = starts' /\ e = faults'
    BY <2>2, <2>3
  <2>5. Spent(k)' <= starts' + faults'
    <3>1. x <= s + f /\ y - t - e <= x - s - f
      BY <2>1, <2>3, <2>4
    <3>2. y <= t + e
      BY <3>1
    <3>3. QED
      BY <2>4, <3>2
  <2>6. QED
    BY <2>5 DEF Spent
<1>2. QED
  BY <1>1 DEF BudgetOK

(* One retry has changed. *)
LEMMA TimerSet ==
    ASSUME TypeOK, NEW k \in Kinds, NEW g \in Generations, NEW v \in {"none", "armed", "due"},
           timer' = [timer EXCEPT ![k][g] = v]
    PROVE  /\ timer' \in [Kinds -> [Generations -> {"none", "armed", "due"}]]
           /\ \A j \in Kinds : j # k => Pending(j)' = Pending(j)
           /\ v = "none" => Pending(k)' = Pending(k) \ {g}
           /\ v # "none" => Pending(k)' = Pending(k) \cup {g}
<1>1. timer \in [Kinds -> [Generations -> {"none", "armed", "due"}]]
  BY DEF TypeOK
<1>2. timer' \in [Kinds -> [Generations -> {"none", "armed", "due"}]]
  BY <1>1
<1>3. \A j \in Kinds, h \in Generations :
         timer'[j][h] = IF j = k /\ h = g THEN v ELSE timer[j][h]
  BY <1>1
<1>4. QED
  BY <1>2, <1>3 DEF Pending

(* A start is paid for by a start counted or by a retry used up. *)
Pays(k) ==
    /\ timer' \in [Kinds -> [Generations -> {"none", "armed", "due"}]]
    /\ starts' \in 0..MaxStarts
    /\ \A j \in Kinds : j # k => Pending(j)' = Pending(j)
    /\ Cardinality(Pending(k)') + 1 - starts' = Cardinality(Pending(k)) - starts
    /\ starts <= starts'

(* Starts: those asked for from outside and those of a retry. *)
LEMMA StartsKeep ==
    ASSUME SocketsOK, NEW k \in Kinds,
           Foreground(k) \/ \E g \in Generations : TimerStarts(k, g)
    PROVE  SocketsOK'
<1>1. /\ TypeOK /\ BudgetOK /\ ListenersOK /\ LoopsOK /\ ClientsOK /\ NumbersOK
      /\ ServedOnOwnListener
  BY DEF SocketsOK
<1>2. /\ lock = None
      /\ \/ StartClosed(k)
         \/ UNCHANGED <<table, lock>>
      /\ UNCHANGED <<fd, generation, path, loop, failure, terminating, faults, lost, served>>
  BY DEF Foreground, TimerStarts, StartListener, counters
<1>3. \A j \in Kinds : Held(j) = 0
  BY <1>2, NoneAssumption DEF Held, Resetting, InStart
<1>4. Pays(k)
  <2>1. CASE Foreground(k)
    <3>1. timer' = timer /\ starts' = starts + 1 /\ starts < MaxStarts
      BY <2>1 DEF Foreground
    <3>2. \A j \in Kinds : Pending(j)' = Pending(j)
      BY <3>1 DEF Pending
    <3>3. starts \in Nat /\ starts <= MaxStarts /\ Cardinality(Pending(k)) \in Nat
      BY <1>1, Amounts
    <3>4. \A c, s \in Nat : c + 1 - (s + 1) = c - s
      OBVIOUS
    <3>5. Cardinality(Pending(k)') + 1 - starts' = Cardinality(Pending(k)) - starts
      BY <3>1, <3>2, <3>3, <3>4
    <3>6. starts' \in 0..MaxStarts /\ starts <= starts'
      BY <3>1, <3>3, BoundsAssumption
    <3>7. timer' \in [Kinds -> [Generations -> {"none", "armed", "due"}]]
      BY <1>1, <3>1 DEF TypeOK
    <3>8. QED
      BY <3>2, <3>5, <3>6, <3>7 DEF Pays
  <2>2. ASSUME NEW g \in Generations, TimerStarts(k, g)
        PROVE  Pays(k)
    <3>1. timer' = [timer EXCEPT ![k][g] = "none"] /\ timer[k][g] = "due" /\ starts' = starts
      BY <2>2 DEF TimerStarts, counters
    <3>2. /\ timer' \in [Kinds -> [Generations -> {"none", "armed", "due"}]]
          /\ \A j \in Kinds : j # k => Pending(j)' = Pending(j)
          /\ Pending(k)' = Pending(k) \ {g}
      BY <1>1, <3>1, TimerSet
    <3>3. g \in Pending(k) /\ Pending(k) \subseteq Generations
      BY <3>1 DEF Pending
    <3>4. Cardinality(Pending(k) \ {g}) = Cardinality(Pending(k)) - 1
      BY <3>3, PendingIsFinite, FS_RemoveElement
    <3>5. starts \in Nat /\ starts <= MaxStarts /\ Cardinality(Pending(k)) \in Nat
      BY <1>1, Amounts
    <3>6. \A c, s \in Nat : (c - 1) + 1 - s = c - s
      OBVIOUS
    <3>7. Cardinality(Pending(k)') + 1 - starts' = Cardinality(Pending(k)) - starts
      BY <3>1, <3>2, <3>4, <3>5, <3>6
    <3>8. starts' \in 0..MaxStarts /\ starts <= starts'
      BY <3>1, <3>5, BoundsAssumption
    <3>9. QED
      BY <3>2, <3>7, <3>8 DEF Pays
  <2>3. QED
    BY <2>1, <2>2
<1>5. CASE StartClosed(k)
  <2>1. /\ ListenersOK' /\ LoopsOK' /\ ClientsOK' /\ NumbersOK' /\ ServedOnOwnListener'
        /\ table' \in [Numbers -> Listener \cup ClientOf \cup {None}]
        /\ terminating = "no" /\ lock' = Resetting(k) /\ lock' \in InStart
    BY <1>2, <1>5, ClosedKeeps
  <2>2. TypeOK'
    BY <1>1, <1>2, <1>4, <2>1 DEF TypeOK, Pays
  <2>3. \A j \in Kinds : lock' # [kind |-> j, step |-> "bind"]
    BY <2>1 DEF Resetting
  <2>4. \A j \in Kinds : Held(j)' = IF j = k THEN 1 ELSE 0
    BY <2>1 DEF Held, Resetting
  <2>5. ASSUME NEW j \in Kinds
        PROVE  Spent(j)' - starts' - faults' <= Spent(j) - starts - faults
    <3>1. PICK a, b, c, h \in Nat, s, t, f \in Nat :
            /\ a = generation[j] /\ b = Cardinality(Pending(j)) /\ c = Cardinality(Pending(j)')
            /\ h = Held(j)' /\ s = starts /\ t = starts' /\ f = faults
      BY <1>1, <2>2, Amounts, AmountsAfter
    <3>2. generation'[j] = a /\ faults' = f /\ Held(j) = 0 /\ s <= t
      BY <1>2, <1>3, <1>4, <3>1 DEF Pays
    <3>3. Spent(j)' = a + h + c /\ Spent(j) = a + 0 + b
      BY <3>1, <3>2 DEF Spent
    <3>4. (j = k => h = 1 /\ c + 1 - t = b - s) /\ (j # k => h = 0 /\ c = b)
      BY <1>4, <2>4, <3>1 DEF Pays
    <3>5. a + h + c - t - f <= a + 0 + b - s - f
      BY <3>2, <3>4
    <3>6. QED
      BY <3>1, <3>2, <3>3, <3>5
  <2>6. BudgetOK'
    BY <1>1, <1>2, <2>1, <2>2, <2>3, <2>5, SpendKeeps
  <2>7. QED
    BY <2>1, <2>2, <2>6 DEF SocketsOK
<1>6. CASE UNCHANGED <<table, lock>>
  <2>1. TypeOK'
    BY <1>1, <1>2, <1>4, <1>6 DEF TypeOK, Pays
  <2>2. \A j \in Kinds : Held(j)' = 0
    BY <1>3, <1>6 DEF Held
  <2>3. \A j \in Kinds : lock' # [kind |-> j, step |-> "bind"]
    BY <1>2, <1>6, NoneAssumption DEF InStart
  <2>4. ASSUME NEW j \in Kinds
        PROVE  Spent(j)' - starts' - faults' <= Spent(j) - starts - faults
    <3>1. PICK a, b, c \in Nat, s, t, f \in Nat :
            /\ a = generation[j] /\ b = Cardinality(Pending(j)) /\ c = Cardinality(Pending(j)')
            /\ s = starts /\ t = starts' /\ f = faults
      BY <1>1, <2>1, Amounts, AmountsAfter
    <3>2. generation'[j] = a /\ faults' = f /\ Held(j) = 0 /\ Held(j)' = 0 /\ s <= t
      BY <1>2, <1>3, <1>4, <2>2, <3>1 DEF Pays
    <3>3. Spent(j)' = a + 0 + c /\ Spent(j) = a + 0 + b
      BY <3>1, <3>2 DEF Spent
    <3>4. (j = k => c + 1 - t = b - s) /\ (j # k => c = b)
      BY <1>4, <3>1 DEF Pays
    <3>5. a + 0 + c - t - f <= a + 0 + b - s - f
      BY <3>2, <3>4
    <3>6. QED
      BY <3>1, <3>2, <3>3, <3>5
  <2>5. BudgetOK'
    BY <1>1, <1>2, <1>6, <2>1, <2>3, <2>4, SpendKeeps
  <2>6. ListenersOK' /\ LoopsOK' /\ ClientsOK' /\ ServedOnOwnListener'
    BY <1>1, <1>2, <1>6
       DEF ListenersOK, ListenerOK, IsListener, LoopsOK, ClientsOK, ServedOnOwnListener
  <2>7. NumbersOK'
    BY <1>1, <1>2, <1>6 DEF NumbersOK, IsListener, Current, Resetting
  <2>8. QED
    BY <2>1, <2>5, <2>6, <2>7 DEF SocketsOK
<1>7. QED
  BY <1>2, <1>5, <1>6

(* The middle of a start: the old listener is forgotten, a generation begins. *)
LEMMA ResetKeeps ==
    ASSUME SocketsOK, NEW k \in Kinds, StartReset(k)
    PROVE  SocketsOK'
<1>1. /\ TypeOK /\ BudgetOK /\ ListenersOK /\ LoopsOK /\ ClientsOK /\ NumbersOK
      /\ ServedOnOwnListener
  BY DEF SocketsOK
<1>2. /\ lock = Resetting(k) /\ lock' = [kind |-> k, step |-> "bind"]
      /\ fd' = [fd EXCEPT ![k] = None] /\ path' = [path EXCEPT ![k] = 0]
      /\ generation' = [generation EXCEPT ![k] = @ + 1]
      /\ UNCHANGED <<table, loop, timer, failure, terminating, starts, faults, lost, served>>
  BY DEF StartReset, counters, Resetting
<1>3. lock # None /\ terminating = "no" /\ lock.kind = k /\ lock'.kind = k /\ lock' # None
  <2>1. lock \in InStart /\ lock' \in InStart /\ lock.kind = k /\ lock'.kind = k
    BY <1>2 DEF Resetting, InStart
  <2>2. QED
    BY <1>1, <2>1, NoneAssumption DEF BudgetOK
<1>4. \A j \in Kinds : Held(j) = (IF j = k THEN 1 ELSE 0) /\ Held(j)' = 0
  BY <1>2 DEF Held, Resetting
<1>5. generation[k] \in Nat /\ generation[k] + 1 <= MaxStarts + MaxFaults
  <2>1. PICK a, c, s, f \in Nat :
          /\ a = generation[k] /\ c = Cardinality(Pending(k)) /\ s = starts /\ f = faults
    BY <1>1, Amounts
  <2>2. a + 1 + c <= s + f
    BY <1>1, <1>3, <1>4, <2>1 DEF BudgetOK
  <2>3. s <= MaxStarts /\ f <= MaxFaults
    BY <1>1, <2>1, Amounts
  <2>4. a + 1 <= MaxStarts + MaxFaults
    BY <2>2, <2>3, BoundsAssumption
  <2>5. QED
    BY <2>1, <2>4
<1>6. \A j \in Kinds : /\ generation'[j] = IF j = k THEN generation[j] + 1 ELSE generation[j]
                       /\ fd'[j] = IF j = k THEN None ELSE fd[j]
  BY <1>1, <1>2 DEF TypeOK
<1>7. TypeOK'
  <2>1. generation' \in [Kinds -> 0..MaxGeneration + 1]
    <3>1. generation[k] + 1 \in 0..MaxGeneration + 1
      BY <1>5, BoundsAssumption DEF MaxGeneration
    <3>2. QED
      BY <1>1, <1>2, <3>1 DEF TypeOK
  <2>2. path' \in [Kinds -> 0..MaxGeneration]
    <3>1. 0 \in 0..MaxGeneration
      BY BoundsAssumption DEF MaxGeneration
    <3>2. QED
      BY <1>1, <1>2, <3>1 DEF TypeOK
  <2>3. lock' \in InStart
    BY <1>2 DEF InStart
  <2>4. QED
    BY <1>1, <1>2, <2>1, <2>2, <2>3 DEF TypeOK
<1>8. BudgetOK'
  <2>1. \A j \in Kinds : lock' = [kind |-> j, step |-> "bind"] =>
           generation'[j] >= 1 /\ fd'[j] = None
    <3>1. \A j \in Kinds : lock' = [kind |-> j, step |-> "bind"] => j = k
      BY <1>2
    <3>2. generation'[k] >= 1 /\ fd'[k] = None
      BY <1>5, <1>6
    <3>3. QED
      BY <3>1, <3>2
  <2>2. ASSUME NEW j \in Kinds
        PROVE  Spent(j)' - starts' - faults' <= Spent(j) - starts - faults
    <3>1. PICK a, b, s, f \in Nat :
            /\ a = generation[j] /\ b = Cardinality(Pending(j)) /\ s = starts /\ f = faults
      BY <1>1, Amounts
    <3>2. starts' = s /\ faults' = f /\ Pending(j)' = Pending(j)
      BY <1>2, <3>1 DEF Pending
    <3>3. CASE j = k
      <4>1. Spent(j) = a + 1 + b /\ Spent(j)' = a + 1 + 0 + b
        BY <1>4, <1>6, <3>1, <3>2, <3>3 DEF Spent
      <4>2. a + 1 + 0 + b - s - f <= a + 1 + b - s - f
        OBVIOUS
      <4>3. QED
        BY <3>1, <3>2, <4>1, <4>2
    <3>4. CASE j # k
      <4>1. Spent(j) = a + 0 + b /\ Spent(j)' = a + 0 + b
        BY <1>4, <1>6, <3>1, <3>2, <3>4 DEF Spent
      <4>2. a + 0 + b - s - f <= a + 0 + b - s - f
        OBVIOUS
      <4>3. QED
        BY <3>1, <3>2, <4>1, <4>2
    <3>5. QED
      BY <3>3, <3>4
  <2>3. terminating' = terminating
    BY <1>2
  <2>4. QED
    BY <1>1, <1>3, <1>7, <2>1, <2>2, <2>3, SpendKeeps
<1>9. ListenersOK'
  <2> SUFFICES ASSUME NEW i \in Numbers, IsListener(i),
                      NEW j, NEW h, j = table[i].kind, h = table[i].generation
               PROVE  ListenerOK(i, j, h)'
    BY <1>2 DEF ListenersOK, IsListener
  <2>1. j \in Kinds
    BY <1>1, Entries DEF Listener
  <2>2. ListenerOK(i, j, h)
    BY <1>1 DEF ListenersOK
  <2>3. j # k
    BY <1>3, <2>2 DEF ListenerOK
  <2>4. QED
    BY <1>2, <1>3, <1>6, <2>1, <2>2, <2>3 DEF ListenerOK
<1>10. LoopsOK'
  <2> SUFFICES ASSUME NEW j \in Kinds, NEW h \in Generations, loop[j][h].pc # "none"
               PROVE  loop[j][h].number # None /\ h <= generation'[j]
    BY <1>2, <1>3 DEF LoopsOK
  <2>1. loop[j][h].number # None /\ h <= generation[j]
    BY <1>1 DEF LoopsOK
  <2>2. generation[j] \in Nat /\ h \in Nat
    BY <1>1, Amounts, BoundsAssumption DEF Generations, MaxGeneration
  <2>3. generation[j] <= generation'[j] /\ generation'[j] \in Nat
    BY <1>6, <2>2
  <2>4. QED
    BY <2>1, <2>2, <2>3
<1>11. ClientsOK' /\ ServedOnOwnListener'
  BY <1>1, <1>2 DEF ClientsOK, ServedOnOwnListener
<1>12. NumbersOK'
  <2>1. ASSUME NEW j \in Kinds, NEW h \in Generations, loop[j][h].pc # "none"
        PROVE  /\ Current(j, h)' => j # k /\ Current(j, h)
               /\ lock' # Resetting(j)' /\ (j # k => lock # Resetting(j))
    <3>1. loop[j][h].number # None
      BY <1>1, <2>1 DEF LoopsOK
    <3>2. Current(j, h)' => j # k /\ Current(j, h)
      BY <1>2, <1>6, <3>1 DEF Current
    <3>3. lock' # Resetting(j)' /\ (j # k => lock # Resetting(j))
      BY <1>2 DEF Resetting
    <3>4. QED
      BY <3>2, <3>3
  <2>2. table' = table /\ loop' = loop /\ lost' = lost
    BY <1>2
  <2>3. \A j \in Kinds, h \in Generations : Own(j, h)' = Own(j, h)
    BY DEF Own
  <2>4. QED
    BY <1>1, <2>1, <2>2, <2>3 DEF NumbersOK
<1>13. QED
  BY <1>7, <1>8, <1>9, <1>10, <1>11, <1>12 DEF SocketsOK

(* A start at its binding: one of the generations, and no listener of the kind. *)
LEMMA Binding ==
    ASSUME SocketsOK, NEW k \in Kinds, lock = [kind |-> k, step |-> "bind"]
    PROVE  /\ lock # None /\ terminating = "no" /\ lock.kind = k
           /\ generation[k] \in Generations /\ fd[k] = None
           /\ \A j \in Kinds : lock # Resetting(j) /\ Held(j) = 0
           /\ \A n \in Numbers : IsListener(n) => table[n].kind # k
<1>1. TypeOK /\ BudgetOK /\ ListenersOK
  BY DEF SocketsOK
<1>2. lock \in InStart /\ lock.kind = k
  BY DEF InStart
<1>3. lock # None /\ terminating = "no"
  BY <1>1, <1>2, NoneAssumption DEF BudgetOK
<1>4. generation[k] >= 1 /\ fd[k] = None
  BY <1>1 DEF BudgetOK
<1>5. \A j \in Kinds : lock # Resetting(j) /\ Held(j) = 0
  BY DEF Held, Resetting
<1>6. generation[k] \in Generations
  <2>1. PICK a, c, s, f \in Nat :
          /\ a = generation[k] /\ c = Cardinality(Pending(k)) /\ s = starts /\ f = faults
    BY <1>1, Amounts
  <2>2. a + 0 + c <= s + f
    BY <1>1, <1>3, <1>5, <2>1 DEF BudgetOK
  <2>3. s <= MaxStarts /\ f <= MaxFaults
    BY <1>1, <2>1, Amounts
  <2>4. a <= MaxStarts + MaxFaults + 1 /\ 1 <= a
    BY <1>4, <2>1, <2>2, <2>3, BoundsAssumption
  <2>5. QED
    BY <2>1, <2>4, BoundsAssumption DEF Generations, MaxGeneration
<1>7. \A n \in Numbers : IsListener(n) => table[n].kind # k
  BY <1>1, <1>2, <1>3 DEF ListenersOK, ListenerOK
<1>8. QED
  BY <1>2, <1>3, <1>4, <1>5, <1>6, <1>7

(* The end of a start: the new listener has a number of its own and a fresh loop. *)
LEMMA BindsKeeps ==
    ASSUME SocketsOK, NEW k \in Kinds, StartBinds(k)
    PROVE  SocketsOK'
<1>1. /\ TypeOK /\ BudgetOK /\ ListenersOK /\ LoopsOK /\ ClientsOK /\ NumbersOK
      /\ ServedOnOwnListener
  BY DEF SocketsOK
<1>2. PICK n, g : n = Min(FreeNumbers) /\ g = generation[k]
  OBVIOUS
<1>3. PICK y : y = [NoLoop EXCEPT !.pc = "check", !.number = n]
  OBVIOUS
<1>4. /\ lock = [kind |-> k, step |-> "bind"] /\ lock' = None
      /\ fd' = [fd EXCEPT ![k] = n] /\ path' = [path EXCEPT ![k] = g]
      /\ table' = [table EXCEPT ![n] = Own(k, g)]
      /\ loop' = [loop EXCEPT ![k][g] = y]
      /\ failure' = [failure EXCEPT ![k] = "none"]
      /\ UNCHANGED <<generation, timer, terminating, starts, faults, lost, served>>
  BY <1>2, <1>3 DEF StartBinds, Own, counters
<1>5. n \in Numbers /\ table[n] = None /\ n # None
  BY <1>1, <1>2, LowestFreeNumber, Entries DEF StartBinds
<1>6. /\ terminating = "no" /\ g \in Generations /\ lock # None /\ lock.kind = k
      /\ \A j \in Kinds : lock # Resetting(j) /\ Held(j) = 0
      /\ \A i \in Numbers : IsListener(i) => table[i].kind # k
  BY <1>2, <1>4, Binding
<1>7. y \in Loop /\ y.pc = "check" /\ y.number = n /\ y.client = None
  BY <1>3, <1>5 DEF NoLoop, Loop
<1>8. LoopBecomes(k, g, y)
  BY <1>1, <1>4, <1>6, <1>7, LoopSet
<1>9. /\ \A i \in Numbers : table'[i] = IF i = n THEN Own(k, g) ELSE table[i]
      /\ \A j \in Kinds : fd'[j] = IF j = k THEN n ELSE fd[j]
  BY <1>1, <1>4, <1>5 DEF TypeOK
<1>10. Own(k, g) \in Listener /\ Own(k, g).kind = k /\ Own(k, g).generation = g
       /\ Own(k, g).is = "listener" /\ Own(k, g) # None
  BY <1>6, OwnListener, NoneAssumption
<1>11. TypeOK'
  <2>1. path' \in [Kinds -> 0..MaxGeneration]
    <3>1. g \in 0..MaxGeneration
      BY <1>6, BoundsAssumption DEF Generations, MaxGeneration
    <3>2. QED
      BY <1>1, <1>4, <3>1 DEF TypeOK
  <2>2. table' \in [Numbers -> Listener \cup ClientOf \cup {None}]
    BY <1>1, <1>4, <1>10 DEF TypeOK
  <2>3. loop' \in [Kinds -> [Generations -> Loop]]
    BY <1>8 DEF LoopBecomes
  <2>4. QED
    BY <1>1, <1>4, <1>5, <2>1, <2>2, <2>3 DEF TypeOK
<1>12. BudgetOK'
  <2>1. \A j \in Kinds : lock' # [kind |-> j, step |-> "bind"] /\ lock' # Resetting(j)
    BY <1>4, NoneAssumption DEF InStart, Resetting
  <2>2. \A j \in Kinds : Held(j)' = 0
    <3>1. \A j \in Kinds : Resetting(j)' = Resetting(j)
      BY DEF Resetting
    <3>2. QED
      BY <2>1, <3>1 DEF Held
  <2>3. ASSUME NEW j \in Kinds
        PROVE  Spent(j)' - starts' - faults' <= Spent(j) - starts - faults
    <3>1. PICK a, b, s, f \in Nat :
            /\ a = generation[j] /\ b = Cardinality(Pending(j)) /\ s = starts /\ f = faults
      BY <1>1, Amounts
    <3>2. starts' = s /\ faults' = f /\ Pending(j)' = Pending(j) /\ generation'[j] = a
      BY <1>4, <3>1 DEF Pending
    <3>3. Spent(j) = a + 0 + b /\ Spent(j)' = a + 0 + b
      BY <1>6, <2>2, <3>1, <3>2 DEF Spent
    <3>4. a + 0 + b - s - f <= a + 0 + b - s - f
      OBVIOUS
    <3>5. QED
      BY <3>1, <3>2, <3>3, <3>4
  <2>4. terminating' = terminating
    BY <1>4
  <2>5. QED
    BY <1>1, <1>6, <1>11, <2>1, <2>3, <2>4, SpendKeeps
<1>13. \A i \in Numbers : i # n => (IsListener(i)' <=> IsListener(i)) /\ table'[i] = table[i]
  BY <1>9 DEF IsListener
<1>14. ListenersOK'
  <2> SUFFICES ASSUME NEW i \in Numbers, IsListener(i)',
                      NEW j, NEW h, j = table'[i].kind, h = table'[i].generation
               PROVE  ListenerOK(i, j, h)'
    BY DEF ListenersOK
  <2>1. CASE i = n
    <3>1. j = k /\ h = g
      BY <1>5, <1>9, <1>10, <2>1
    <3>2. fd'[k] = n /\ terminating' = "no" /\ lock' = None /\ generation'[k] = g
          /\ loop'[k][g] = y
      BY <1>2, <1>4, <1>6, <1>8, <1>9 DEF LoopBecomes
    <3>3. QED
      BY <1>7, <2>1, <3>1, <3>2 DEF ListenerOK
  <2>2. CASE i # n
    <3>1. IsListener(i) /\ table'[i] = table[i]
      BY <1>13, <2>2
    <3>2. j \in Kinds /\ h \in Generations /\ j # k
      BY <1>1, <1>6, <3>1, Entries DEF Listener
    <3>3. ListenerOK(i, j, h)
      BY <1>1, <3>1 DEF ListenersOK
    <3>4. loop'[j][h] = loop[j][h] /\ fd'[j] = fd[j] /\ terminating' = terminating
          /\ lock' = None /\ generation' = generation
      BY <1>4, <1>8, <1>9, <3>2 DEF LoopBecomes
    <3>5. QED
      BY <3>3, <3>4 DEF ListenerOK
  <2>3. QED
    BY <2>1, <2>2
<1>15. LoopsOK'
  <2> SUFFICES ASSUME NEW j \in Kinds, NEW h \in Generations, loop'[j][h].pc # "none"
               PROVE  loop'[j][h].number # None /\ h <= generation[j]
    BY <1>4, <1>6 DEF LoopsOK
  <2>1. CASE j = k /\ h = g
    <3>1. g \in Int
      BY <1>6 DEF Generations
    <3>2. QED
      BY <1>2, <1>5, <1>7, <1>8, <2>1, <3>1 DEF LoopBecomes
  <2>2. CASE ~(j = k /\ h = g)
    BY <1>1, <1>8, <2>2 DEF LoopBecomes, LoopsOK
  <2>3. QED
    BY <2>1, <2>2
<1>16. \A j \in Kinds, h \in Generations :
          loop[j][h].client # None => /\ loop[j][h].client \in Numbers
                                      /\ loop[j][h].client # n
                                      /\ table'[loop[j][h].client] = table[loop[j][h].client]
  <2>1. \A j \in Kinds, h \in Generations :
          loop[j][h].client # None => /\ loop[j][h].client \in Numbers
                                      /\ table[loop[j][h].client] \in ClientOf
    BY <1>1 DEF TypeOK, Loop, ClientsOK
  <2>2. None \notin ClientOf
    BY NoneAssumption
  <2>3. QED
    BY <1>5, <1>9, <2>1, <2>2
<1>17. ClientsOK'
  <2> SUFFICES ASSUME NEW j \in Kinds, NEW h \in Generations
               PROVE  /\ loop'[j][h].client # None <=>
                           loop'[j][h].pc \in {"checkClient", "probeClient"}
                      /\ loop'[j][h].client # None =>
                           /\ table'[loop'[j][h].client] \in ClientOf
                           /\ \A i \in Kinds, f \in Generations :
                                loop'[i][f].client = loop'[j][h].client => i = j /\ f = h
    BY DEF ClientsOK
  <2>1. CASE j = k /\ h = g
    BY <1>7, <1>8, <2>1 DEF LoopBecomes
  <2>2. CASE j # k \/ h # g
    <3>1. loop'[j][h] = loop[j][h]
      BY <1>8, <2>2 DEF LoopBecomes
    <3>2. /\ loop[j][h].client # None <=> loop[j][h].pc \in {"checkClient", "probeClient"}
          /\ loop[j][h].client # None =>
                /\ table'[loop[j][h].client] \in ClientOf
                /\ \A i \in Kinds, f \in Generations :
                      loop[i][f].client = loop[j][h].client => i = j /\ f = h
      BY <1>1, <1>16 DEF ClientsOK
    <3>3. ASSUME NEW i \in Kinds, NEW f \in Generations, loop'[i][f].client = loop[j][h].client,
                 loop[j][h].client # None
          PROVE  i = j /\ f = h
      <4>1. ~(i = k /\ f = g)
        BY <1>7, <1>8, <3>3 DEF LoopBecomes
      <4>2. loop'[i][f] = loop[i][f]
        BY <1>8, <4>1 DEF LoopBecomes
      <4>3. QED
        BY <3>2, <3>3, <4>2
    <3>4. QED
      BY <3>1, <3>2, <3>3
  <2>3. QED
    BY <2>1, <2>2
<1>18. NumbersOK'
  <2> SUFFICES ASSUME lost = 0, NEW j \in Kinds, NEW h \in Generations
               PROVE  /\ loop'[j][h].pc # "none" /\ Current(j, h)' =>
                           table'[loop'[j][h].number] = Own(j, h)
                      /\ loop'[j][h].pc = "probeClient"
                         \/ (loop'[j][h].pc = "checkClient" /\ Current(j, h)') =>
                            table'[loop'[j][h].client].from = Own(j, h)
    <3>1. \A j \in Kinds : lock' # Resetting(j)'
      BY <1>4, NoneAssumption DEF InStart, Resetting
    <3>2. \A j \in Kinds, h \in Generations : Own(j, h)' = Own(j, h)
      BY DEF Own
    <3>3. lost' = lost
      BY <1>4
    <3>4. QED
      BY <3>1, <3>2, <3>3 DEF NumbersOK
  <2>1. CASE j = k /\ h = g
    BY <1>5, <1>7, <1>8, <1>9, <2>1 DEF LoopBecomes
  <2>2. CASE j # k \/ h # g
    <3>1. loop'[j][h] = loop[j][h]
      BY <1>8, <2>2 DEF LoopBecomes
    <3>2. Current(j, h)' => Current(j, h) /\ j # k
      BY <1>2, <1>4, <1>9, <2>2, <3>1 DEF Current
    <3>3. loop[j][h].pc # "none" /\ Current(j, h) => table[loop[j][h].number] = Own(j, h)
      BY <1>1, <1>6 DEF NumbersOK
    <3>4. loop[j][h].pc # "none" => loop[j][h].number \in Numbers
      BY <1>1 DEF LoopsOK, TypeOK, Loop
    <3>5. Own(j, h) # None
      BY OwnListener, NoneAssumption
    <3>6. loop[j][h].pc # "none" /\ Current(j, h) => table'[loop[j][h].number] = Own(j, h)
      BY <1>5, <1>9, <3>3, <3>4, <3>5
    <3>7. loop[j][h].pc = "probeClient" \/ (loop[j][h].pc = "checkClient" /\ Current(j, h)) =>
             /\ table[loop[j][h].client].from = Own(j, h) /\ loop[j][h].client # None
      BY <1>1 DEF NumbersOK, ClientsOK
    <3>8. QED
      BY <1>16, <3>1, <3>2, <3>6, <3>7
  <2>3. QED
    BY <2>1, <2>2
<1>19. ServedOnOwnListener'
  BY <1>1, <1>4 DEF ServedOnOwnListener
<1>20. QED
  BY <1>11, <1>12, <1>14, <1>15, <1>17, <1>18, <1>19 DEF SocketsOK

(* A failure and its retry: only the lock, the retries and the counters change. *)
LEMMA RetryKeeps ==
    ASSUME SocketsOK, TypeOK', BudgetOK',
           lock' = lock \/ (lock' = None /\ \A j \in Kinds : lock # Resetting(j)),
           UNCHANGED <<fd, generation, table, loop, terminating, lost, served>>
    PROVE  SocketsOK'
<1>1. /\ TypeOK /\ BudgetOK /\ ListenersOK /\ LoopsOK /\ ClientsOK /\ NumbersOK
      /\ ServedOnOwnListener
  BY DEF SocketsOK
<1>2. ListenersOK' /\ LoopsOK' /\ ClientsOK' /\ ServedOnOwnListener'
  BY <1>1 DEF ListenersOK, ListenerOK, IsListener, LoopsOK, ClientsOK, ServedOnOwnListener
<1>3. \A j \in Kinds : lock' = Resetting(j)' <=> lock = Resetting(j)
  <2>1. \A j \in Kinds : Resetting(j)' = Resetting(j) /\ Resetting(j) # None
    BY NoneAssumption DEF Resetting, InStart
  <2>2. QED
    BY <2>1
<1>4. /\ \A j \in Kinds, h \in Generations : Own(j, h)' = Own(j, h)
      /\ \A j \in Kinds, h \in Generations : Current(j, h)' <=> Current(j, h)
      /\ \A n : IsListener(n)' <=> IsListener(n)
  BY DEF Own, Current, IsListener
<1>5. NumbersOK'
  BY <1>1, <1>3, <1>4 DEF NumbersOK
<1>6. QED
  BY <1>2, <1>5 DEF SocketsOK

LEMMA FailsKeeps ==
    ASSUME SocketsOK, NEW k \in Kinds, StartFails(k)
    PROVE  SocketsOK'
<1>1. TypeOK /\ BudgetOK
  BY DEF SocketsOK
<1>2. /\ lock = [kind |-> k, step |-> "bind"] /\ lock' = None
      /\ faults < MaxFaults /\ faults' = faults + 1
      /\ UNCHANGED <<fd, generation, path, table, loop, terminating, starts, lost, served>>
  BY DEF StartFails
<1>3. /\ generation[k] \in Generations
      /\ \A j \in Kinds : lock # Resetting(j) /\ Held(j) = 0
  BY <1>2, Binding
<1>4. /\ timer' \in [Kinds -> [Generations -> {"none", "armed", "due"}]]
      /\ \A j \in Kinds : j # k => Pending(j)' = Pending(j)
      /\ Pending(k)' = Pending(k) \/ Pending(k)' = Pending(k) \cup {generation[k]}
  <2>1. CASE ScheduleRestart(k)
    BY <1>1, <1>3, <2>1, TimerSet DEF ScheduleRestart
  <2>2. CASE UNCHANGED timer
    BY <1>1, <2>2 DEF TypeOK, Pending
  <2>3. QED
    BY <2>1, <2>2 DEF StartFails
<1>5. Cardinality(Pending(k)') \in {Cardinality(Pending(k)), Cardinality(Pending(k)) + 1}
  <2>1. IsFiniteSet(Pending(k))
    BY PendingIsFinite DEF Pending
  <2>2. Cardinality(Pending(k) \cup {generation[k]})
           \in {Cardinality(Pending(k)), Cardinality(Pending(k)) + 1}
    BY <2>1, FS_AddElement
  <2>3. QED
    BY <1>4, <2>2
<1>6. faults' \in 0..MaxFaults
  BY <1>1, <1>2, BoundsAssumption DEF TypeOK
<1>7. TypeOK'
  <2>1. failure' \in [Kinds -> {"none", "transient", "fatal"}]
    BY <1>1 DEF TypeOK, StartFails
  <2>2. QED
    BY <1>1, <1>2, <1>4, <1>6, <2>1 DEF TypeOK
<1>8. \A j \in Kinds : lock' # [kind |-> j, step |-> "bind"] /\ Held(j)' = 0
  BY <1>2, NoneAssumption DEF InStart, Held, Resetting
<1>9. ASSUME NEW j \in Kinds
      PROVE  Spent(j)' - starts' - faults' <= Spent(j) - starts - faults
  <2>1. PICK a, b, c, s, f \in Nat :
          /\ a = generation[j] /\ b = Cardinality(Pending(j)) /\ c = Cardinality(Pending(j)')
          /\ s = starts /\ f = faults
    BY <1>1, <1>7, Amounts, AmountsAfter
  <2>2. c \in {b, b + 1}
    <3>1. CASE j = k
      BY <1>5, <2>1, <3>1
    <3>2. CASE j # k
      BY <1>4, <2>1, <3>2
    <3>3. QED
      BY <3>1, <3>2
  <2>3. starts' = s /\ faults' = f + 1 /\ generation'[j] = a
    BY <1>2, <2>1
  <2>4. Spent(j) = a + 0 + b /\ Spent(j)' = a + 0 + c
    BY <1>3, <1>8, <2>1, <2>3 DEF Spent
  <2>5. a + 0 + c - s - (f + 1) <= a + 0 + b - s - f
    BY <2>2
  <2>6. QED
    BY <2>1, <2>3, <2>4, <2>5
<1>10. BudgetOK'
  <2>1. terminating' = terminating
    BY <1>2
  <2>2. QED
    BY <1>1, <1>2, <1>7, <1>8, <1>9, <2>1, SpendKeeps
<1>11. QED
  BY <1>2, <1>3, <1>7, <1>10, RetryKeeps

LEMMA FiresKeeps ==
    ASSUME SocketsOK, NEW k \in Kinds, NEW g \in Generations, TimerFires(k, g)
    PROVE  SocketsOK'
<1>1. TypeOK /\ BudgetOK
  BY DEF SocketsOK
<1>2. PICK v \in {"none", "due"} : timer' = [timer EXCEPT ![k][g] = v]
  BY DEF TimerFires
<1>3. /\ timer[k][g] = "armed"
      /\ UNCHANGED <<fd, generation, path, table, loop, lock, failure, terminating,
                     starts, faults, lost, served>>
  BY DEF TimerFires, counters
<1>4. /\ timer' \in [Kinds -> [Generations -> {"none", "armed", "due"}]]
      /\ \A j \in Kinds : j # k => Pending(j)' = Pending(j)
      /\ v = "none" => Pending(k)' = Pending(k) \ {g}
      /\ v # "none" => Pending(k)' = Pending(k) \cup {g}
  BY <1>1, <1>2, TimerSet
<1>5. TypeOK'
  BY <1>1, <1>3, <1>4 DEF TypeOK
<1>6. Cardinality(Pending(k)') \in {Cardinality(Pending(k)), Cardinality(Pending(k)) - 1}
  <2>1. g \in Pending(k) /\ IsFiniteSet(Pending(k))
    BY <1>3, PendingIsFinite DEF Pending
  <2>2. Pending(k) \cup {g} = Pending(k)
    BY <2>1
  <2>3. Cardinality(Pending(k) \ {g}) = Cardinality(Pending(k)) - 1
    BY <2>1, FS_RemoveElement
  <2>4. QED
    BY <1>4, <2>2, <2>3
<1>7. ASSUME NEW j \in Kinds
      PROVE  Spent(j)' - starts' - faults' <= Spent(j) - starts - faults
  <2>1. PICK a, b, c, d, s, f \in Nat :
          /\ a = generation[j] /\ b = Cardinality(Pending(j)) /\ c = Cardinality(Pending(j)')
          /\ d = Held(j) /\ s = starts /\ f = faults
    BY <1>1, <1>5, Amounts, AmountsAfter
  <2>2. c \in {b, b - 1}
    <3>1. CASE j = k
      BY <1>6, <2>1, <3>1
    <3>2. CASE j # k
      BY <1>4, <2>1, <3>2
    <3>3. QED
      BY <3>1, <3>2
  <2>3. starts' = s /\ faults' = f /\ generation'[j] = a /\ Held(j)' = d
    BY <1>3, <2>1 DEF Held
  <2>4. Spent(j) = a + d + b /\ Spent(j)' = a + d + c
    BY <2>1, <2>3 DEF Spent
  <2>5. a + d + c - s - f <= a + d + b - s - f
    BY <2>2
  <2>6. QED
    BY <2>1, <2>3, <2>4, <2>5
<1>8. BudgetOK'
  <2>1. /\ lock' # None => terminating = "no"
        /\ \A j \in Kinds : lock' = [kind |-> j, step |-> "bind"] =>
               generation'[j] >= 1 /\ fd'[j] = None
        /\ terminating' = terminating
    BY <1>1, <1>3 DEF BudgetOK
  <2>2. QED
    BY <1>1, <1>5, <1>7, <2>1, SpendKeeps
<1>9. QED
  BY <1>3, <1>5, <1>8, RetryKeeps

-----------------------------------------------------------------------------
LEMMA StartsSound == Init => SocketsOK
<1> SUFFICES ASSUME Init PROVE SocketsOK
  OBVIOUS
<1>1. TypeOK
  <2>1. 0 \in 0..MaxGeneration + 1 /\ 0 \in 0..MaxGeneration
        /\ 0 \in 0..MaxStarts /\ 0 \in 0..MaxFaults /\ 0 \in 0..MaxLost
    BY BoundsAssumption DEF MaxGeneration
  <2>2. NoLoop \in Loop
    BY DEF NoLoop, Loop
  <2>3. QED
    BY <2>1, <2>2 DEF Init, TypeOK
<1>2. \A k \in Kinds, g \in Generations : loop[k][g] = NoLoop
  BY DEF Init
<1>3. ListenersOK /\ LoopsOK /\ ClientsOK /\ NumbersOK /\ ServedOnOwnListener
  <2>1. NoLoop.pc = "none" /\ NoLoop.client = None
    BY DEF NoLoop
  <2>2. \A n \in Numbers : ~IsListener(n)
    BY DEF Init, IsListener
  <2>3. served = {}
    BY DEF Init
  <2>4. QED
    BY <1>2, <2>1, <2>2, <2>3
       DEF ListenersOK, LoopsOK, ClientsOK, NumbersOK, ServedOnOwnListener
<1>4. BudgetOK
  <2>1. lock = None /\ starts = 0 /\ faults = 0
    BY DEF Init
  <2>2. \A k \in Kinds : lock # [kind |-> k, step |-> "bind"] /\ lock # Resetting(k)
    BY <2>1, NoneAssumption DEF Resetting, InStart
  <2>3. ASSUME NEW k \in Kinds
        PROVE  generation[k] + Held(k) + Cardinality(Pending(k)) <= starts + faults
    <3>1. Pending(k) = {}
      BY DEF Pending, Init
    <3>2. Cardinality(Pending(k)) = 0
      BY <3>1, FS_EmptySet
    <3>3. generation[k] = 0 /\ Held(k) = 0
      BY <2>2 DEF Init, Held
    <3>4. 0 + 0 + 0 <= 0 + 0
      OBVIOUS
    <3>5. QED
      BY <2>1, <3>2, <3>3, <3>4
  <2>4. QED
    BY <2>1, <2>2, <2>3 DEF BudgetOK
<1>5. QED
  BY <1>1, <1>3, <1>4 DEF SocketsOK

LEMMA SocketsStep == SocketsOK /\ [Next]_vars => SocketsOK'
<1> SUFFICES ASSUME SocketsOK, [Next]_vars PROVE SocketsOK'
  OBVIOUS
<1>1. ASSUME NEW k \in Kinds, Foreground(k) PROVE SocketsOK'
  BY <1>1, StartsKeep
<1>2. ASSUME NEW k \in Kinds, Start(k) PROVE SocketsOK'
  BY <1>2, ResetKeeps, BindsKeeps, FailsKeeps DEF Start
<1>3. ASSUME NEW k \in Kinds, PathRemoved(k) PROVE SocketsOK'
  BY <1>3, OutsideKeeps
<1>4. ASSUME NEW k \in Kinds, NEW g \in Generations, Retry(k, g) PROVE SocketsOK'
  BY <1>4, FiresKeeps, StartsKeep DEF Retry
<1>5. ASSUME NEW k \in Kinds, NEW g \in Generations, AcceptLoop(k, g) PROVE SocketsOK'
  BY <1>5, TestsKeep, AcceptsKeeps, ClientKeeps, EndedKeeps DEF AcceptLoop
<1>6. ASSUME NEW n \in Numbers, ClientGone(n) \/ NumberLost(n) PROVE SocketsOK'
  BY <1>6, OutsideKeeps
<1>7. CASE WillTerminate \/ Terminated
  BY <1>7, TerminationKeeps
<1>8. CASE UNCHANGED vars
  <2>1. UNCHANGED <<fd, generation, path, table, loop, timer, lock, failure, terminating,
                    starts, faults, lost, served>>
    BY <1>8 DEF vars, counters
  <2>2. TypeOK' /\ BudgetOK'
    BY <2>1 DEF SocketsOK, TypeOK, BudgetOK, Held, Pending, Resetting
  <2>3. QED
    BY <2>1, <2>2, RetryKeeps
<1>9. QED
  BY <1>1, <1>2, <1>3, <1>4, <1>5, <1>6, <1>7, <1>8 DEF Next

(* The invariant of the two listening sockets. *)
THEOREM SocketsInvariant == Spec => []SocketsOK
BY StartsSound, SocketsStep, PTL DEF Spec

(* Whatever restarts, retries, late loops and a termination do, an open listener
   is the one the controller names and has a loop that serves it. *)
THEOREM NoListenerLeftBehind == Spec => []OpenListenerIsServed
<1>1. SocketsOK => OpenListenerIsServed
  <2> SUFFICES ASSUME SocketsOK, lock = None, NEW n \in Numbers, IsListener(n)
               PROVE  /\ fd[table[n].kind] = n /\ terminating # "done"
                      /\ terminating = "no" =>
                            /\ generation[table[n].kind] = table[n].generation
                            /\ loop[table[n].kind][generation[table[n].kind]].pc
                                  \notin {"none", "done"}
    BY DEF OpenListenerIsServed
  <2>1. ListenerOK(n, table[n].kind, table[n].generation)
    BY DEF SocketsOK, ListenersOK
  <2>2. QED
    BY <2>1 DEF ListenerOK
<1>2. QED
  BY <1>1, SocketsInvariant, PTL

(* A connection that is handed on came in on the listener of the loop that hands it
   on: JuiceListenerStillCurrent is asked again after accept(). *)
THEOREM LoopsServeTheirOwn == Spec => []ServedOnOwnListener
<1>1. SocketsOK => ServedOnOwnListener
  BY DEF SocketsOK
<1>2. QED
  BY <1>1, SocketsInvariant, PTL

(* What closes a listener, other than a start, a loss or a termination. *)
LEMMA OnlyItsLoopCloses ==
    ASSUME SocketsOK, Next, NEW n \in Numbers, IsListener(n), table'[n] = None,
           lock' = lock, lost' = lost, terminating' = terminating
    PROVE  loop[table[n].kind][table[n].generation].pc = "ended"
<1>1. TypeOK /\ ListenersOK /\ LoopsOK /\ ClientsOK
  BY DEF SocketsOK
<1>2. table[n] \in Listener /\ table[n] # None /\ table[n] \notin ClientOf
  BY <1>1, Entries, NoneAssumption
<1>3. table' # table
  BY <1>2
<1>4. \A k \in Kinds : ~Foreground(k) /\ ~Start(k) /\ \A g \in Generations : ~Retry(k, g)
  <2>1. ASSUME NEW k \in Kinds, StartListener(k) PROVE FALSE
    <3>1. lock = None /\ lock' \in InStart
      BY <1>3, <2>1 DEF StartListener, StartClosed, InStart
    <3>2. QED
      BY <3>1, NoneAssumption
  <2>2. ASSUME NEW k \in Kinds, Start(k) PROVE FALSE
    <3>1. lock = [kind |-> k, step |-> "bind"] /\ lock' = None
      BY <1>3, <2>2 DEF Start, StartReset, StartBinds, StartFails
    <3>2. QED
      BY <3>1, NoneAssumption DEF InStart
  <2>3. QED
    BY <1>3, <2>1, <2>2 DEF Foreground, Retry, TimerFires, TimerStarts
<1>5. \A k \in Kinds : ~PathRemoved(k)
  BY <1>3 DEF PathRemoved
<1>6. \A m \in Numbers : ~ClientGone(m) /\ ~NumberLost(m)
  <2>1. ASSUME NEW m \in Numbers, ClientGone(m) PROVE FALSE
    <3>1. table[m] \in ClientOf /\ table' = [table EXCEPT ![m] = None]
      BY <1>1, <2>1, Entries DEF ClientGone
    <3>2. m # n
      BY <1>2, <3>1
    <3>3. QED
      BY <1>1, <1>2, <3>1, <3>2 DEF TypeOK
  <2>2. \A m \in Numbers : ~NumberLost(m)
    BY <1>1 DEF TypeOK, NumberLost
  <2>3. QED
    BY <2>1, <2>2
<1>7. ~WillTerminate /\ ~Terminated
  BY DEF WillTerminate, Terminated
<1>8. PICK k \in Kinds, g \in Generations : AcceptLoop(k, g)
  BY <1>4, <1>5, <1>6, <1>7 DEF Next
<1>9. ~Accepts(k, g)
  <2> SUFFICES ASSUME Accepts(k, g) PROVE FALSE
    OBVIOUS
  <2>1. PICK m, e : m = Min(FreeNumbers) /\ e = [is |-> "client", from |-> table[loop[k][g].number]]
    OBVIOUS
  <2>2. m \in Numbers /\ table[m] = None /\ table' = [table EXCEPT ![m] = e]
    BY <2>1, LowestFreeNumber DEF Accepts
  <2>3. QED
    BY <1>1, <1>2, <2>2 DEF TypeOK
<1>10. ~(CloseClient(k, g) /\ loop[k][g].pc \in {"checkClient", "probeClient"})
  <2> SUFFICES ASSUME CloseClient(k, g), loop[k][g].pc \in {"checkClient", "probeClient"}
               PROVE  FALSE
    OBVIOUS
  <2>1. table' = [table EXCEPT ![loop[k][g].client] = None]
    BY DEF CloseClient
  <2>2. table[loop[k][g].client] \in ClientOf
    BY <1>1 DEF ClientsOK
  <2>3. loop[k][g].client # n
    BY <1>2, <2>2
  <2>4. QED
    BY <1>1, <1>2, <2>1, <2>3 DEF TypeOK
<1>11. ListenerEnded(k, g)
  BY <1>3, <1>8, <1>9, <1>10
     DEF AcceptLoop, CheckCurrent, ProbeCurrent, AcceptFails, CheckFailed, ProbeFailed,
         CheckClient, ServeClient
<1>12. PICK m : m = loop[k][g].number
  OBVIOUS
<1>13. /\ loop[k][g].pc = "ended" /\ Current(k, g) /\ MatchesPath(k, m)
       /\ table' = [table EXCEPT ![m] = None]
  BY <1>3, <1>11, <1>12 DEF ListenerEnded
<1>14. m = n
  BY <1>1, <1>2, <1>13 DEF TypeOK
<1>15. table[n].kind = k
  BY <1>13, <1>14 DEF MatchesPath
<1>16. terminating = "no"
  <2>1. generation[k] = g /\ g \in Int
    BY <1>13 DEF Current, Generations
  <2>2. QED
    BY <1>1, <1>13, <2>1 DEF LoopsOK
<1>17. generation[k] = table[n].generation
  BY <1>1, <1>15, <1>16 DEF ListenersOK, ListenerOK
<1>18. QED
  BY <1>13, <1>15, <1>17 DEF Current

(* A loop that ends late closes its own listener or none: JuiceListenerEnded compares
   the generation, not the descriptor number alone. *)
THEOREM LateLoopsSpareOthers == Spec => StaleLoopSparesNewListener
<1>1. ASSUME SocketsOK, [Next]_vars
      PROVE  [\A n \in Numbers :
                IsListener(n) /\ table'[n] = None /\ lock' = lock /\ lost' = lost
                /\ terminating' = terminating
                => loop[table[n].kind][table[n].generation].pc = "ended"]_vars
  <2>1. CASE Next
    BY <1>1, <2>1, OnlyItsLoopCloses
  <2>2. CASE UNCHANGED vars
    BY <2>2
  <2>3. QED
    BY <1>1, <2>1, <2>2
<1>2. QED
  BY <1>1, SocketsInvariant, PTL DEF Spec, StaleLoopSparesNewListener

-----------------------------------------------------------------------------
(* ReconnectGrace. *)

(* Images are numbered in the order in which they are made. *)
ImagesOK ==
    /\ \A h \in Hwnds : window[h] # Absent => window[h].image <= images
    /\ \A t \in timers : \A h \in DOMAIN t : t[h].image <= images

(* A snapshot with the image that the window still has is of the process that
   presented it: a process identifier changes only together with the image. *)
SnapshotsOK ==
    \A t \in timers : \A h \in DOMAIN t :
        window[h] # Absent /\ window[h].image # 0 /\ window[h].image = t[h].image
        => t[h].pid = window[h].pid

(* The inductive invariant. *)
GraceOK == GraceTypeOK /\ ImagesOK /\ SnapshotsOK

-----------------------------------------------------------------------------
(* What window states, snapshots and the fields of a timer are. *)
LEMMA StateParts ==
    ASSUME NEW s \in State
    PROVE  /\ s # Absent /\ s.client \in Processes \cup {Absent} /\ s.pid \in Processes \cup {Absent}
           /\ s.image \in Image /\ s.frame \in {1, 2} /\ s.visible \in BOOLEAN /\ s.born \in Image
BY StateAssumption DEF State

LEMMA TimerParts ==
    ASSUME NEW t \in Timer, NEW h \in DOMAIN t
    PROVE  h \in Hwnds /\ t[h].image \in Image
BY DEF Timer, Before

LEMMA StateForParts ==
    ASSUME GraceTypeOK, NEW h \in Hwnds, NEW p \in Processes
    PROVE  \E s \in State : /\ s = StateFor(h, p)
                            /\ window[h] = Absent => s.image = 0
                            /\ window[h] # Absent => s.image = window[h].image /\ s.pid = window[h].pid
<1>1. PICK x : x = IF window[h] = Absent THEN NewState ELSE window[h]
  OBVIOUS
<1>2. images \in Image /\ 0 \in Image
  BY GraceAssumption DEF GraceTypeOK, Image
<1>3. NewState \in State /\ NewState.image = 0
  BY <1>2 DEF NewState, State
<1>4. x \in State
  BY <1>1, <1>3 DEF GraceTypeOK
<1>5. PICK s : s = [x EXCEPT !.client = p]
  OBVIOUS
<1>6. s \in State /\ s.image = x.image /\ s.pid = x.pid
  BY <1>4, <1>5 DEF State
<1>7. s = StateFor(h, p)
  BY <1>1, <1>5 DEF StateFor
<1>8. QED
  BY <1>1, <1>3, <1>6, <1>7

(* Every window keeps its image and its process, loses its image, or has the next one. *)
WindowsChange ==
    /\ window' \in [Hwnds -> State \cup {Absent}]
    /\ images' \in {images, images + 1} \cap Image
    /\ \A h \in Hwnds :
          \/ window'[h] = Absent
          \/ window'[h].image = 0
          \/ /\ window[h] # Absent
             /\ window'[h].image = window[h].image /\ window'[h].pid = window[h].pid
          \/ window'[h].image = images' /\ images' = images + 1

LEMMA ChangeKeeps ==
    ASSUME GraceTypeOK, ImagesOK, SnapshotsOK, WindowsChange, timers' \subseteq timers
    PROVE  ImagesOK' /\ SnapshotsOK'
<1>1. images \in Nat /\ images' \in Nat /\ images' >= images
  BY GraceAssumption DEF GraceTypeOK, WindowsChange, Image
<1>2. \A h \in Hwnds : window[h] # Absent => window[h].image \in Nat
  BY StateParts, GraceAssumption DEF GraceTypeOK, Image
<1>3. \A t \in timers : \A h \in DOMAIN t :
         h \in Hwnds /\ t[h].image \in Nat /\ t[h].image <= images
  BY TimerParts, GraceAssumption DEF GraceTypeOK, ImagesOK, Image
<1>4. ASSUME NEW h \in Hwnds, window'[h] # Absent PROVE window'[h].image <= images'
  <2>1. window[h] # Absent => window[h].image <= images
    BY DEF ImagesOK
  <2>2. QED
    BY <1>1, <1>2, <1>4, <2>1 DEF WindowsChange
<1>5. ASSUME NEW t \in timers', NEW h \in DOMAIN t
      PROVE  /\ t[h].image <= images'
             /\ window'[h] # Absent /\ window'[h].image # 0 /\ window'[h].image = t[h].image
                => t[h].pid = window'[h].pid
  <2>1. t \in timers /\ h \in Hwnds /\ t[h].image \in Nat /\ t[h].image <= images
    BY <1>3, <1>5
  <2>2. t[h].image <= images' /\ t[h].image # images + 1
    BY <1>1, <2>1
  <2>3. QED
    BY <2>1, <2>2 DEF WindowsChange, SnapshotsOK
<1>6. QED
  BY <1>4, <1>5 DEF ImagesOK, SnapshotsOK

LEMMA ChangeSet ==
    ASSUME GraceTypeOK, NEW h \in Hwnds, NEW s \in State \cup {Absent},
           window' = [window EXCEPT ![h] = s],
           \/ /\ images' = images
              /\ \/ s = Absent \/ s.image = 0
                 \/ window[h] # Absent /\ s.image = window[h].image /\ s.pid = window[h].pid
           \/ images' = images + 1 /\ images' \in Image /\ s.image = images'
    PROVE  WindowsChange
<1>1. window' \in [Hwnds -> State \cup {Absent}] /\ window'[h] = s
      /\ \A g \in Hwnds : g # h => window'[g] = window[g]
  BY DEF GraceTypeOK
<1>2. images' \in {images, images + 1} \cap Image
  BY DEF GraceTypeOK
<1>3. QED
  BY <1>1, <1>2 DEF WindowsChange

-----------------------------------------------------------------------------
(* A step that is no timer's: the invariant goes on, and a window that goes away has no
   owner any more. *)
Ordinary == GraceOK' /\ \A h \in Hwnds : ~Pruned(h)

LEMMA ProcessSteps ==
    ASSUME GraceOK, NEW p \in Processes, Connect(p) \/ ProcessDies(p) \/ PidGivenOut(p)
    PROVE  Ordinary
<1>1. UNCHANGED <<window, timers, images, detaches, owner>>
  BY DEF Connect, ProcessDies, PidGivenOut
<1>2. GraceTypeOK'
  BY <1>1 DEF GraceOK, GraceTypeOK, Connect, ProcessDies, PidGivenOut
<1>3. ImagesOK' /\ SnapshotsOK'
  BY <1>1 DEF GraceOK, ImagesOK, SnapshotsOK
<1>4. QED
  BY <1>1, <1>2, <1>3 DEF Ordinary, GraceOK, Pruned

(* What the three messages about a window do, the new state set aside. *)
Revised(s, f, v) == [s EXCEPT !.frame = f, !.visible = v]
Becomes(h, x, p) == /\ window' = [window EXCEPT ![h] = x]
                    /\ owner' = [owner EXCEPT ![h] = p]
                    /\ UNCHANGED <<process, connected, timers, detaches>>

LEMMA UpdateParts ==
    ASSUME NEW p, NEW h, NEW f, NEW v, UpdateWindow(p, h, f, v)
    PROVE  Becomes(h, Revised(StateFor(h, p), f, v), p) /\ images' = images
BY Zenon DEF UpdateWindow, Becomes, Revised

LEMMA WindowSteps ==
    ASSUME GraceOK, NEW p \in Processes, NEW h \in Hwnds,
           \/ PresentFrame(p, h) \/ DestroyWindow(p, h)
           \/ \E f \in {1, 2}, v \in BOOLEAN : UpdateWindow(p, h, f, v)
    PROVE  Ordinary
<1>1. GraceTypeOK /\ ImagesOK /\ SnapshotsOK
  BY DEF GraceOK
<1>2. ASSUME NEW x \in State \cup {Absent}, NEW q \in Processes \cup {Absent}, Becomes(h, x, q),
             x = Absent => q = Absent,
             \/ /\ images' = images
                /\ \/ x = Absent \/ x.image = 0
                   \/ window[h] # Absent /\ x.image = window[h].image /\ x.pid = window[h].pid
             \/ images' = images + 1 /\ images' \in Image /\ x.image = images'
      PROVE  Ordinary
  <2>1. WindowsChange
    BY <1>1, <1>2, ChangeSet DEF Becomes
  <2>2. ImagesOK' /\ SnapshotsOK'
    BY <1>1, <1>2, <2>1, ChangeKeeps DEF Becomes
  <2>3. GraceTypeOK'
    BY <1>1, <1>2, <2>1 DEF GraceTypeOK, WindowsChange, Becomes
  <2>4. /\ window'[h] = x /\ owner'[h] = q
        /\ \A g \in Hwnds : g # h => window'[g] = window[g]
    BY <1>1, <1>2 DEF GraceTypeOK, Becomes
  <2>5. \A g \in Hwnds : ~Pruned(g)
    BY <1>2, <2>4 DEF Pruned
  <2>6. QED
    BY <2>2, <2>3, <2>5 DEF Ordinary, GraceOK
<1>3. PICK s \in State : /\ s = StateFor(h, p)
                         /\ window[h] = Absent => s.image = 0
                         /\ window[h] # Absent => s.image = window[h].image /\ s.pid = window[h].pid
  BY <1>1, StateForParts
<1>4. CASE PresentFrame(p, h)
  <2>1. images' = images + 1 /\ images' \in Image
    BY <1>1, <1>4, GraceAssumption DEF PresentFrame, GraceTypeOK, Image
  <2>2. PICK x : x = [s EXCEPT !.image = images + 1, !.pid = p]
    OBVIOUS
  <2>3. x \in State /\ x.image = images'
    BY <2>1, <2>2 DEF State
  <2>4. Becomes(h, x, p)
    BY <1>3, <1>4, <2>1, <2>2 DEF PresentFrame, Becomes
  <2>5. QED
    BY <1>2, <2>1, <2>3, <2>4, StateParts
<1>5. CASE DestroyWindow(p, h)
  BY <1>2, <1>5 DEF DestroyWindow, Becomes
<1>6. ASSUME NEW f \in {1, 2}, NEW v \in BOOLEAN, UpdateWindow(p, h, f, v) PROVE Ordinary
  <2>1. PICK x : x = Revised(s, f, v)
    OBVIOUS
  <2>2. x \in State /\ x.image = s.image /\ x.pid = s.pid
    BY <2>1 DEF State, Revised
  <2>3. Becomes(h, x, p) /\ images' = images
    BY <1>3, <1>6, <2>1, UpdateParts
  <2>4. QED
    BY <1>2, <1>3, <2>2, <2>3, StateParts
<1>7. QED
  BY <1>4, <1>5, <1>6

LEMMA WarningStep ==
    ASSUME GraceOK, MemoryWarning
    PROVE  Ordinary
<1>1. GraceTypeOK /\ ImagesOK /\ SnapshotsOK
  BY DEF GraceOK
<1>2. UNCHANGED <<process, connected, timers, images, detaches, owner>>
  BY DEF MemoryWarning
<1>3. ASSUME NEW h \in Hwnds
      PROVE  /\ window'[h] \in State \cup {Absent}
             /\ window'[h] = Absent => window[h] = Absent
             /\ window'[h] = Absent \/ window'[h] = window[h] \/ window'[h].image = 0
  <2>1. window'[h] = Trimmed(window[h])
    BY DEF MemoryWarning
  <2>2. CASE window[h] # Absent /\ ~window[h].visible
    <3>1. PICK x \in State : x = window[h]
      BY <1>1, <2>2 DEF GraceTypeOK
    <3>2. window'[h] = [x EXCEPT !.image = 0]
      BY <2>1, <2>2, <3>1 DEF Trimmed
    <3>3. 0 \in Image
      BY GraceAssumption DEF Image
    <3>4. window'[h] \in State /\ window'[h].image = 0
      BY <3>2, <3>3 DEF State
    <3>5. QED
      BY <3>4, StateParts
  <2>3. CASE ~(window[h] # Absent /\ ~window[h].visible)
    BY <1>1, <2>1, <2>3 DEF Trimmed, GraceTypeOK
  <2>4. QED
    BY <2>2, <2>3
<1>4. window' \in [Hwnds -> State \cup {Absent}]
  BY <1>3 DEF MemoryWarning
<1>5. WindowsChange
  BY <1>1, <1>2, <1>3, <1>4 DEF WindowsChange, GraceTypeOK
<1>6. ImagesOK' /\ SnapshotsOK'
  BY <1>1, <1>2, <1>5, ChangeKeeps
<1>7. GraceTypeOK'
  BY <1>1, <1>2, <1>4 DEF GraceTypeOK
<1>8. QED
  BY <1>3, <1>6, <1>7 DEF Ordinary, GraceOK, Pruned

(* A connection breaks: the snapshots of the new timer are those of its windows. *)
LEMMA DetachStep ==
    ASSUME GraceOK, NEW p \in Processes, RemoveWindows(p)
    PROVE  Ordinary
<1>1. GraceTypeOK /\ ImagesOK /\ SnapshotsOK
  BY DEF GraceOK
<1>2. UNCHANGED <<process, images, owner>>
  BY DEF RemoveWindows
<1>3. ASSUME NEW h \in Hwnds
      PROVE  /\ window'[h] \in State \cup {Absent}
             /\ window'[h] = Absent <=> window[h] = Absent
             /\ window[h] # Absent => /\ window'[h].image = window[h].image
                                    /\ window'[h].pid = window[h].pid
  <2>1. CASE h \in Mine(p)
    <3>1. PICK x \in State : x = window[h]
      BY <1>1, <2>1 DEF Mine, GraceTypeOK
    <3>2. window'[h] = [x EXCEPT !.client = Absent]
      BY <2>1, <3>1 DEF RemoveWindows
    <3>3. window'[h] \in State /\ window'[h].image = x.image /\ window'[h].pid = x.pid
      BY <3>2 DEF State
    <3>4. QED
      BY <3>1, <3>3, StateParts
  <2>2. CASE h \notin Mine(p)
    BY <1>1, <2>2 DEF RemoveWindows, GraceTypeOK
  <2>3. QED
    BY <2>1, <2>2
<1>4. window' \in [Hwnds -> State \cup {Absent}]
  BY <1>3 DEF RemoveWindows
<1>5. PICK n : n = [h \in Mine(p) |-> Snapshot(h)]
  OBVIOUS
<1>6. timers' \subseteq timers \cup {n}
  BY <1>5 DEF RemoveWindows
<1>7. /\ DOMAIN n \subseteq Hwnds
      /\ \A h \in DOMAIN n : /\ window[h] # Absent /\ n[h] \in Before
                             /\ n[h].image = window[h].image /\ n[h].pid = window[h].pid
  <2>1. DOMAIN n = Mine(p) /\ Mine(p) \subseteq Hwnds
    BY <1>5 DEF Mine
  <2>2. ASSUME NEW h \in Mine(p)
        PROVE  /\ window[h] # Absent /\ n[h] \in Before
               /\ n[h].image = window[h].image /\ n[h].pid = window[h].pid
    <3>1. window[h] # Absent /\ n[h] = Snapshot(h) /\ h \in Hwnds
      BY <1>5 DEF Mine
    <3>2. PICK x \in State : x = window[h]
      BY <1>1, <3>1 DEF GraceTypeOK
    <3>3. QED
      BY <3>1, <3>2, StateParts DEF Snapshot, Before
  <2>3. QED
    BY <2>1, <2>2
<1>8. n \in Timer
  <2>1. n \in [DOMAIN n -> Before]
    BY <1>5, <1>7
  <2>2. QED
    BY <1>7, <2>1 DEF Timer
<1>9. GraceTypeOK'
  <2>1. connected' \subseteq Processes /\ detaches' \in 0..MaxDetaches
    BY <1>1, GraceAssumption DEF RemoveWindows, GraceTypeOK
  <2>2. QED
    BY <1>1, <1>2, <1>4, <1>6, <1>8, <2>1 DEF GraceTypeOK
<1>10. ImagesOK'
  <2>1. \A h \in Hwnds : window'[h] # Absent => window'[h].image <= images'
    BY <1>1, <1>2, <1>3 DEF ImagesOK
  <2>2. \A t \in timers' : \A h \in DOMAIN t : t[h].image <= images'
    BY <1>1, <1>2, <1>6, <1>7 DEF ImagesOK
  <2>3. QED
    BY <2>1, <2>2 DEF ImagesOK
<1>11. SnapshotsOK'
  <2> SUFFICES ASSUME NEW t \in timers', NEW h \in DOMAIN t, window'[h] # Absent,
                      window'[h].image # 0, window'[h].image = t[h].image
               PROVE  t[h].pid = window'[h].pid
    BY DEF SnapshotsOK
  <2>1. CASE t \in timers
    <3>1. h \in Hwnds
      BY <1>1, <2>1, TimerParts DEF GraceTypeOK
    <3>2. QED
      BY <1>1, <1>3, <2>1, <3>1 DEF SnapshotsOK
  <2>2. CASE t = n
    BY <1>3, <1>7, <2>2
  <2>3. QED
    BY <1>6, <2>1, <2>2
<1>12. QED
  BY <1>3, <1>9, <1>10, <1>11 DEF Ordinary, GraceOK, Pruned

(* The timer: what it removes has its snapshot, no descriptor, and no living peer. *)
LEMMA PruneStep ==
    ASSUME GraceOK, NEW t \in timers, Prune(t)
    PROVE  /\ GraceOK'
           /\ \A h \in Hwnds : Pruned(h) => /\ h \in DOMAIN t /\ window[h].client = Absent
                                            /\ window[h].image = t[h].image
                                            /\ ~PeerAlive(t[h].pid)
<1>1. GraceTypeOK /\ ImagesOK /\ SnapshotsOK
  BY DEF GraceOK
<1>2. /\ window' = [h \in Hwnds |-> IF h \in Removed(t) THEN Absent ELSE window[h]]
      /\ timers' \subseteq timers
      /\ UNCHANGED <<process, connected, images, detaches, owner>>
  BY DEF Prune
<1>3. window' \in [Hwnds -> State \cup {Absent}]
  BY <1>1, <1>2 DEF GraceTypeOK
<1>4. WindowsChange
  BY <1>1, <1>2, <1>3 DEF WindowsChange, GraceTypeOK
<1>5. ImagesOK' /\ SnapshotsOK'
  BY <1>1, <1>2, <1>4, ChangeKeeps
<1>6. GraceTypeOK'
  BY <1>1, <1>2, <1>3 DEF GraceTypeOK
<1>7. ASSUME NEW h \in Hwnds, Pruned(h)
      PROVE  /\ h \in DOMAIN t /\ window[h].client = Absent
             /\ window[h].image = t[h].image /\ ~PeerAlive(t[h].pid)
  <2>1. h \in Removed(t)
    BY <1>2, <1>7 DEF Pruned
  <2>2. h \in DOMAIN t /\ Unchanged(h, t[h]) /\ ~PeerAlive(t[h].pid)
    BY <2>1 DEF Removed, Waiting, AlivePeers
  <2>3. t[h] \in Before
    BY <1>1, <2>2 DEF GraceTypeOK, Timer
  <2>4. PICK x : x = [t[h] EXCEPT !.pid = window[h].pid]
    OBVIOUS
  <2>5. x.image = t[h].image
    BY <2>3, <2>4 DEF Before
  <2>6. Snapshot(h) = x /\ window[h].client = Absent
    BY <2>2, <2>4 DEF Unchanged
  <2>7. Snapshot(h).image = window[h].image
    BY DEF Snapshot
  <2>8. QED
    BY <2>2, <2>5, <2>6, <2>7
<1>8. QED
  BY <1>5, <1>6, <1>7 DEF GraceOK

LEMMA GraceStarts ==
    ASSUME GraceInit
    PROVE  GraceOK
<1>1. 0 \in Image /\ 0 \in 0..MaxDetaches
  BY GraceAssumption DEF Image
<1>2. GraceTypeOK
  BY <1>1 DEF GraceInit, GraceTypeOK
<1>3. ImagesOK /\ SnapshotsOK
  BY DEF GraceInit, ImagesOK, SnapshotsOK
<1>4. QED
  BY <1>2, <1>3 DEF GraceOK

LEMMA GraceStep ==
    ASSUME GraceOK, GraceNext
    PROVE  Ordinary \/ \E t \in timers : Prune(t)
BY ProcessSteps, WindowSteps, WarningStep, DetachStep DEF GraceNext

(* The invariant behind the two theorems below: the types, the order of the images, and
   that a snapshot whose image is still shown names the process that presented it. *)
THEOREM GraceInvariant == GraceSpec => []GraceOK
<1>1. GraceInit => GraceOK
  BY GraceStarts
<1>2. ASSUME GraceOK, [GraceNext]_graceVars PROVE GraceOK'
  <2>1. CASE GraceNext
    BY <1>2, <2>1, GraceStep, PruneStep DEF Ordinary
  <2>2. CASE UNCHANGED graceVars
    BY <1>2, <2>2 DEF graceVars, GraceOK, GraceTypeOK, ImagesOK, SnapshotsOK
  <2>3. QED
    BY <1>2, <2>1, <2>2
<1>3. QED
  BY <1>1, <1>2, PTL DEF GraceSpec

(* No window that a connection has claimed again is removed by a timer, however many
   connections, processes and timers there are. *)
THEOREM ClaimsAreKept == GraceSpec => ClaimedWindowsSurvive
<1>1. ASSUME GraceOK, [GraceNext]_graceVars
      PROVE  [\A h \in Hwnds : Pruned(h) => window[h].client = Absent]_graceVars
  <2>1. CASE GraceNext
    BY <1>1, <2>1, GraceStep, PruneStep DEF Ordinary
  <2>2. CASE UNCHANGED graceVars
    BY <2>2
  <2>3. QED
    BY <1>1, <2>1, <2>2
<1>2. QED
  BY <1>1, GraceInvariant, PTL DEF GraceSpec, ClaimedWindowsSurvive

(* A window that shows a frame of its process outlives broken connections while the
   process runs: the timer compares images, and so asks about the right process. *)
THEOREM LiveWindowsAreKept == GraceSpec => LiveWindowsSurvive
<1>1. ASSUME GraceOK, GraceNext, NEW h \in Hwnds,
             Pruned(h), window[h].pid = owner[h], window[h].image # 0
      PROVE  ~Running(owner[h])
  <2>1. PICK t \in timers : Prune(t)
    BY <1>1, GraceStep DEF Ordinary
  <2>2. h \in DOMAIN t /\ window[h].image = t[h].image /\ ~PeerAlive(t[h].pid)
    BY <1>1, <2>1, PruneStep
  <2>3. t[h].pid = owner[h]
    BY <1>1, <2>1, <2>2 DEF GraceOK, SnapshotsOK, Pruned
  <2>4. owner[h] # Absent
    BY <1>1, <2>1 DEF Pruned, Prune
  <2>5. QED
    BY <2>2, <2>3, <2>4 DEF PeerAlive, Running
<1>2. ASSUME GraceOK, [GraceNext]_graceVars
      PROVE  [\A h \in Hwnds :
                Pruned(h) /\ window[h].pid = owner[h] /\ window[h].image # 0
                => ~Running(owner[h])]_graceVars
  <2>1. CASE GraceNext
    BY <1>1, <1>2, <2>1
  <2>2. CASE UNCHANGED graceVars
    BY <2>2
  <2>3. QED
    BY <1>2, <2>1, <2>2
<1>3. QED
  BY <1>2, GraceInvariant, PTL DEF GraceSpec, LiveWindowsSurvive
=============================================================================
