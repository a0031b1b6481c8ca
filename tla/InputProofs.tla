---------------------------- MODULE InputProofs -----------------------------
(***************************************************************************)
(* Input on its way to a window, on both sides of the socket.  First the   *)
(* driver (DriverInput), for every number of threads, descriptor numbers,  *)
(* connections and records; then the host's choice of the connection       *)
(* (WindowRouting), for every number of connections and windows.           *)
(***************************************************************************)
EXTENDS DriverInput, WindowRouting, TextStreams, Sums, SequenceTheorems,
        WellFoundedInduction, TLAPS

Message == [kind : Kinds, n : Nat]
StreamUnit == [part : {"header", "payload"}, of : Message]
ThreadRecord == [pc : PC, fd : Numbers \cup {NoFd}, generation : 0..MaxGeneration,
                 handle : 0..MaxGeneration, msg : Message \cup {Garbage},
                 from : 0..MaxGeneration]

(* The shape of the state.  TypeOK also bounds the number of records, for TLC's sake. *)
Shapes ==
    /\ ipcFd \in Numbers \cup {NoFd} /\ generation \in 0..MaxGeneration
    /\ table \in [Numbers -> 0..MaxGeneration]
    /\ stream \in [Connections -> Seq(StreamUnit)]
    /\ up \in [Connections -> BOOLEAN]
    /\ thread \in [Threads -> ThreadRecord]
    /\ queue \in [Threads -> 0..MaxGeneration]
    /\ polled \in [Threads -> 0..MaxGeneration]
    /\ pointer \in [down : BOOLEAN, generation : 0..MaxGeneration, from : 0..MaxGeneration]
    /\ sent \in [Connections -> Nat]
    /\ got \in [Connections -> Seq(Message \cup {Garbage})]

(* ios_ipc_register_queue: a handle that is under way is newer than the registration
   the thread remembers; and the server polls what the thread remembers, unless a newer
   connection has been made. *)
RegistrationOK(t) ==
    /\ queue[t] <= generation /\ thread[t].handle <= generation
    /\ At(t, "server") \/ At(t, "confirm") => queue[t] < thread[t].handle
    /\ At(t, "confirm") => polled[t] = thread[t].handle
    /\ queue[t] = generation => polled[t] = generation

(* The socket in use is the newest connection; a thread inside the loop has a number. *)
SocketOK ==
    /\ ipcFd # NoFd => table[ipcFd] = generation /\ generation \in Connections
    /\ \A t \in Threads : ~At(t, "idle") => thread[t].fd \in Numbers

(* What holds however the threads interleave. *)
SharedOK == Shapes /\ SocketOK /\ \A t \in Threads : RegistrationOK(t)

-----------------------------------------------------------------------------
(* The format of a stream: a text header is followed by its payload, any other unit by
   the header of the next record; the last unit ends the n-th record. *)
OpensText(u) == u.part = "header" /\ u.of.kind = "text"

Follows(u, v) ==
    IF OpensText(u) THEN v = [part |-> "payload", of |-> u.of]
    ELSE v.part = "header" /\ v.of.n = u.of.n + 1

WellSent(s, n) ==
    /\ \A i \in 1..(Len(s) - 1) : Follows(s[i], s[i + 1])
    /\ s # <<>> => s[Len(s)].of.n = n /\ ~OpensText(s[Len(s)])

(* The stream goes on with record k + 1, if the host has sent that. *)
Starts(s, k, n) ==
    /\ s = <<>> => n = k
    /\ s # <<>> => s[1].part = "header" /\ s[1].of.n = k + 1

Whole(s) == \A i \in 1..Len(s) : s[i] # Garbage /\ s[i].n = i

Reads(t, c) == (At(t, "payload") \/ At(t, "dispatch")) /\ thread[t].from = c

(* While the threads take turns: at most one is inside the loop, its snapshot is the
   connection in use, and the record it has read is the next one of that connection. *)
TurnOK(t) ==
    ~At(t, "idle") =>
        /\ thread[t].fd = ipcFd /\ thread[t].generation = generation /\ ipcFd # NoFd
        /\ At(t, "payload") \/ At(t, "dispatch") =>
              thread[t].from = generation /\ thread[t].msg # Garbage
        /\ \A r \in Threads : ~At(r, "idle") => r = t

StreamOK(c) ==
    /\ c > generation => stream[c] = <<>> /\ ~up[c] /\ sent[c] = 0 /\ got[c] = <<>>
    /\ Whole(got[c]) /\ WellSent(stream[c], sent[c])
    /\ (\A t \in Threads : ~Reads(t, c)) => Starts(stream[c], Len(got[c]), sent[c])
    /\ \A t \in Threads : Reads(t, c) =>
          /\ thread[t].msg.n = Len(got[c]) + 1
          /\ At(t, "payload") => /\ stream[c] # <<>>
                                 /\ stream[c][1] = [part |-> "payload", of |-> thread[t].msg]
          /\ At(t, "dispatch") => Starts(stream[c], Len(got[c]) + 1, sent[c])

PointerOK ==
    /\ pointer.down => pointer.from = pointer.generation
    /\ \A p \in captured : p[1] = p[2]

TurnsOK ==
    /\ \A t \in Threads : TurnOK(t)
    /\ \A c \in Connections : StreamOK(c)
    /\ PointerOK

SequentialOK == ~concurrent => TurnsOK

(* The inductive invariant. *)
InputOK == SharedOK /\ SequentialOK

-----------------------------------------------------------------------------
(* A nonempty set of descriptor numbers has a least one, the one connect takes. *)
LEMMA LeastNumber ==
    ASSUME NEW S, S \subseteq Nat, S # {}
    PROVE  Min(S) \in S
<1> DEFINE R == {ss \in Nat \X Nat : ss[1] < ss[2]}
<1>0. IsWellFoundedOn(R, Nat)
  BY NatLessThanWellFounded, Zenon DEF OpToRel
<1> HIDE DEF R
<1>1. PICK x \in S : \A y \in S : ~(<<y, x>> \in R)
  BY <1>0, WFMin
<1>2. ASSUME NEW y \in S PROVE x <= y
  <2>1. x \in Nat /\ y \in Nat /\ ~(<<y, x>> \in R)
    BY <1>1
  <2>2. y < x => <<y, x>> \in R
    BY <2>1 DEF R
  <2>3. QED
    BY <2>1, <2>2
<1>3. QED
  BY <1>2 DEF Min

(* connect_ipc_locked makes a new connection, the newest, on a number of its own. *)
LEMMA Connects ==
    ASSUME Shapes, Connect
    PROVE  /\ ipcFd' \in Numbers /\ ipcFd' # NoFd /\ generation' = generation + 1
           /\ generation' \in Connections /\ generation' \in 0..MaxGeneration
           /\ table' \in [Numbers -> 0..MaxGeneration] /\ table'[ipcFd'] = generation'
           /\ up' = [up EXCEPT ![generation'] = TRUE] /\ up' \in [Connections -> BOOLEAN]
<1>1. FreeNumbers \subseteq Numbers /\ FreeNumbers \subseteq Nat /\ FreeNumbers # {}
  BY NumbersAssumption DEF FreeNumbers, Connect
<1>2. Min(FreeNumbers) \in FreeNumbers
  BY <1>1, LeastNumber
<1>3. ipcFd' \in Numbers /\ ipcFd' # NoFd
  BY <1>1, <1>2, NumbersAssumption DEF Connect
<1>4. /\ generation' = generation + 1 /\ generation' \in Connections
      /\ generation' \in 0..MaxGeneration
  BY BoundsAssumption DEF Connect, Shapes, Connections
<1>5. /\ table' = [table EXCEPT ![ipcFd'] = generation']
      /\ up' = [up EXCEPT ![generation'] = TRUE]
  BY DEF Connect
<1>6. QED
  BY <1>3, <1>4, <1>5 DEF Shapes

(* disconnect_ipc_locked gives the number back. *)
LEMMA Disconnects ==
    ASSUME Shapes, Disconnect
    PROVE  /\ ipcFd' = NoFd /\ generation' = generation
           /\ table' \in [Numbers -> 0..MaxGeneration]
<1>1. 0 \in 0..MaxGeneration
  BY BoundsAssumption
<1>2. \A f \in [Numbers -> 0..MaxGeneration] : \A n :
        [f EXCEPT ![n] = 0] \in [Numbers -> 0..MaxGeneration]
  BY <1>1
<1>3. QED
  BY <1>2 DEF Shapes, Disconnect

(* A thread goes to another place in the loop. *)
LEMMA Moves ==
    ASSUME Shapes, NEW t \in Threads, NEW pc \in PC, Goto(t, pc)
    PROVE  /\ thread' \in [Threads -> ThreadRecord]
           /\ \A r \in Threads : r # t => thread'[r] = thread[r]
           /\ thread'[t].pc = pc /\ thread'[t].fd = thread[t].fd
           /\ thread'[t].generation = thread[t].generation
           /\ thread'[t].handle = thread[t].handle /\ thread'[t].msg = thread[t].msg
           /\ thread'[t].from = thread[t].from
<1> DEFINE x == thread[t]
           y == [x EXCEPT !.pc = pc]
<1>1. x \in ThreadRecord /\ thread' = [thread EXCEPT ![t] = y]
  BY DEF Shapes, Goto
<1>2. /\ y \in ThreadRecord /\ y.pc = pc /\ y.fd = x.fd /\ y.generation = x.generation
      /\ y.handle = x.handle /\ y.msg = x.msg /\ y.from = x.from
  BY <1>1 DEF ThreadRecord
<1> HIDE DEF y
<1>3. QED
  BY <1>1, <1>2 DEF Shapes

(* A thread leaves the loop. *)
LEMMA Leaves ==
    ASSUME Shapes, NEW t \in Threads, Break(t)
    PROVE  /\ thread' \in [Threads -> ThreadRecord]
           /\ \A r \in Threads : r # t => thread'[r] = thread[r]
           /\ thread'[t].pc = "idle" /\ thread'[t].handle = 0
<1>1. Idle \in ThreadRecord /\ Idle.pc = "idle" /\ Idle.handle = 0
  BY BoundsAssumption DEF Idle, ThreadRecord, PC
<1>2. QED
  BY <1>1 DEF Shapes, Break

(* Which places of the loop are which. *)
LEMMA Places ==
    /\ {"idle", "register", "server", "confirm", "peek", "header", "payload", "dispatch", "drop"}
       \subseteq PC
BY DEF PC

(* A registration is kept by what neither touches it nor makes an older connection
   the newest. *)
LEMMA SameRegistration ==
    ASSUME Shapes, NEW t \in Threads, RegistrationOK(t),
           queue'[t] = queue[t], polled'[t] = polled[t],
           generation' \in 0..MaxGeneration, generation <= generation',
           \/ /\ thread'[t].pc \notin {"server", "confirm"}
              /\ thread'[t].handle = thread[t].handle \/ thread'[t].handle = 0
           \/ thread'[t].pc = thread[t].pc /\ thread'[t].handle = thread[t].handle
    PROVE  RegistrationOK(t)'
<1>1. /\ queue[t] \in Nat /\ generation \in Nat /\ generation' \in Nat
      /\ thread[t].handle \in Nat
  BY BoundsAssumption DEF Shapes, ThreadRecord
<1>2. CASE thread'[t].handle = thread[t].handle
  BY <1>1, <1>2 DEF RegistrationOK, At
<1>3. CASE thread'[t].handle = 0 /\ thread'[t].pc \notin {"server", "confirm"}
  BY <1>1, <1>3 DEF RegistrationOK, At
<1>4. QED
  BY <1>2, <1>3

(* The steps of the host leave the threads and the socket alone. *)
LEMMA HostShared ==
    ASSUME SharedOK, NEW c \in Connections, HostEnds(c) \/ \E k \in Kinds : HostSends(c, k)
    PROVE  SharedOK'
<1>0. Shapes /\ SocketOK
  BY DEF SharedOK
<1>1. UNCHANGED <<ipcFd, generation, table, thread, queue, polled, pointer, got>>
  BY DEF HostEnds, HostSends, socket, history
<1>2. /\ stream' \in [Connections -> Seq(StreamUnit)] /\ sent' \in [Connections -> Nat]
      /\ up' \in [Connections -> BOOLEAN]
  <2>1. CASE HostEnds(c)
    BY <1>0, <2>1 DEF Shapes, HostEnds, history
  <2>2. ASSUME NEW k \in Kinds, HostSends(c, k)
        PROVE  /\ stream' \in [Connections -> Seq(StreamUnit)] /\ sent' \in [Connections -> Nat]
               /\ up' = up
    <3> DEFINE m == [kind |-> k, n |-> sent[c] + 1]
               h == <<[part |-> "header", of |-> m]>>
               q == IF k = "text" THEN <<[part |-> "payload", of |-> m]>> ELSE <<>>
    <3>1. sent[c] \in Nat /\ stream[c] \in Seq(StreamUnit)
      BY <1>0 DEF Shapes
    <3>2. m \in Message
      BY <3>1 DEF Message
    <3> HIDE DEF m
    <3>3. h \in Seq(StreamUnit) /\ q \in Seq(StreamUnit)
      <4>1. /\ [part |-> "header", of |-> m] \in StreamUnit
            /\ [part |-> "payload", of |-> m] \in StreamUnit
        BY <3>2 DEF StreamUnit
      <4>2. \A u \in StreamUnit : <<u>> \in Seq(StreamUnit)
        OBVIOUS
      <4>3. QED
        BY <4>1, <4>2, EmptySeq
    <3>4. /\ stream' = [stream EXCEPT ![c] = @ \o h \o q] /\ up' = up
          /\ sent' = [sent EXCEPT ![c] = @ + 1]
      BY <2>2 DEF HostSends, m
    <3> HIDE DEF h, q
    <3>5. stream[c] \o h \o q \in Seq(StreamUnit)
      BY <3>1, <3>3, ConcatProperties
    <3>6. QED
      BY <1>0, <3>1, <3>4, <3>5 DEF Shapes
  <2>3. QED
    BY <1>0, <2>1, <2>2 DEF Shapes
<1>3. Shapes'
  BY <1>0, <1>1, <1>2 DEF Shapes
<1>4. SocketOK' /\ \A t \in Threads : RegistrationOK(t)'
  BY <1>1 DEF SharedOK, SocketOK, RegistrationOK, At
<1>5. QED
  BY <1>3, <1>4 DEF SharedOK

(* A thread that draws connects or disconnects. *)
LEMMA PaintsShared ==
    ASSUME SharedOK, PaintsOn
    PROVE  SharedOK'
<1>0. Shapes /\ SocketOK /\ \A t \in Threads : RegistrationOK(t)
  BY DEF SharedOK
<1>1. UNCHANGED <<stream, thread, queue, polled, pointer, sent, got>>
  BY DEF PaintsOn, history
<1>2. /\ ipcFd' \in Numbers \cup {NoFd} /\ generation' \in 0..MaxGeneration
      /\ generation <= generation' /\ table' \in [Numbers -> 0..MaxGeneration]
      /\ up' \in [Connections -> BOOLEAN]
      /\ ipcFd' # NoFd => table'[ipcFd'] = generation' /\ generation' \in Connections
  <2>1. generation \in 0..MaxGeneration /\ up \in [Connections -> BOOLEAN]
    BY <1>0 DEF Shapes
  <2>2. CASE Connect
    BY <1>0, <2>1, <2>2, Connects
  <2>3. CASE Disconnect /\ UNCHANGED up
    BY <1>0, <2>1, <2>3, Disconnects
  <2>4. QED
    BY <2>2, <2>3 DEF PaintsOn
<1>3. Shapes'
  BY <1>0, <1>1, <1>2 DEF Shapes
<1>4. SocketOK'
  BY <1>0, <1>1, <1>2 DEF SocketOK, At
<1>5. \A t \in Threads : RegistrationOK(t)'
  BY <1>0, <1>1, <1>2, SameRegistration
<1>6. QED
  BY <1>3, <1>4, <1>5 DEF SharedOK

(* A thread enters the loop. *)
LEMMA SnapshotShared ==
    ASSUME SharedOK, NEW t \in Threads, Snapshot(t)
    PROVE  /\ SharedOK'
           /\ \A r \in Threads : r # t => thread'[r] = thread[r]
           /\ thread'[t].pc = "register" /\ thread'[t].fd = ipcFd' /\ ipcFd' # NoFd
           /\ thread'[t].generation = generation'
<1>0. Shapes /\ SocketOK /\ \A r \in Threads : RegistrationOK(r)
  BY DEF SharedOK
<1>1. UNCHANGED <<stream, queue, polled, pointer, sent, got>>
  BY DEF Snapshot, history
<1>2. /\ ipcFd' \in Numbers /\ ipcFd' # NoFd /\ generation' \in 0..MaxGeneration
      /\ generation <= generation' /\ table' \in [Numbers -> 0..MaxGeneration]
      /\ up' \in [Connections -> BOOLEAN]
      /\ table'[ipcFd'] = generation' /\ generation' \in Connections
  <2>1. /\ generation \in 0..MaxGeneration /\ up \in [Connections -> BOOLEAN]
        /\ table \in [Numbers -> 0..MaxGeneration] /\ ipcFd \in Numbers \cup {NoFd}
    BY <1>0 DEF Shapes
  <2>2. CASE Connect
    BY <1>0, <2>1, <2>2, Connects
  <2>3. CASE ipcFd # NoFd /\ UNCHANGED <<socket, up>>
    BY <1>0, <2>1, <2>3 DEF socket, SocketOK
  <2>4. QED
    BY <2>2, <2>3 DEF Snapshot
<1> DEFINE x == thread[t]
           y == [x EXCEPT !.pc = "register", !.fd = ipcFd', !.generation = generation']
<1>3. x \in ThreadRecord /\ thread' = [thread EXCEPT ![t] = y]
  BY <1>0 DEF Shapes, Snapshot, ThreadRecord
<1>4. /\ y \in ThreadRecord /\ y.pc = "register" /\ y.fd = ipcFd'
      /\ y.generation = generation' /\ y.handle = x.handle
  BY <1>2, <1>3, Places DEF ThreadRecord
<1> HIDE DEF y
<1>5. /\ thread' \in [Threads -> ThreadRecord] /\ thread'[t] = y
      /\ \A r \in Threads : r # t => thread'[r] = thread[r]
  BY <1>0, <1>3, <1>4 DEF Shapes
<1>6. Shapes'
  BY <1>0, <1>1, <1>2, <1>5 DEF Shapes
<1>7. SocketOK'
  BY <1>0, <1>2, <1>4, <1>5 DEF SocketOK, At
<1>8. ASSUME NEW r \in Threads PROVE RegistrationOK(r)'
  <2>1. RegistrationOK(r)
    BY <1>0
  <2>2. CASE r = t
    BY <2>1, <2>2, <1>0, <1>1, <1>2, <1>4, <1>5, SameRegistration
  <2>3. CASE r # t
    BY <2>1, <2>3, <1>0, <1>1, <1>2, <1>5, SameRegistration
  <2>4. QED
    BY <2>2, <2>3
<1>9. QED
  BY <1>2, <1>4, <1>5, <1>6, <1>7, <1>8 DEF SharedOK

(* A step of a thread inside the loop that leaves the socket as it is. *)
LEMMA ThreadShared ==
    ASSUME SharedOK, Shapes', NEW t \in Threads, UNCHANGED <<ipcFd, generation, table>>,
           \A r \in Threads : r # t => /\ thread'[r] = thread[r] /\ queue'[r] = queue[r]
                                       /\ polled'[r] = polled[r],
           ~At(t, "idle"),
           thread'[t].pc = "idle" \/ thread'[t].fd = thread[t].fd,
           RegistrationOK(t)'
    PROVE  SharedOK'
<1>0. Shapes /\ SocketOK /\ \A r \in Threads : RegistrationOK(r)
  BY DEF SharedOK
<1>1. SocketOK'
  BY <1>0 DEF SocketOK, At
<1>2. ASSUME NEW r \in Threads, r # t PROVE RegistrationOK(r)'
  BY <1>0, <1>2 DEF RegistrationOK, At
<1>3. QED
  BY <1>1, <1>2 DEF SharedOK

(* ios_ipc_register_queue: the handle is made, given to the server and remembered. *)
LEMMA RegisterShared ==
    ASSUME SharedOK, NEW t \in Threads, RegisterQueue(t) \/ SetQueueFd(t) \/ ConfirmQueue(t)
    PROVE  /\ SharedOK' /\ ~At(t, "idle")
           /\ \A r \in Threads : r # t => thread'[r] = thread[r]
           /\ thread'[t].pc \in {"server", "confirm", "peek"}
           /\ thread'[t].fd = thread[t].fd /\ thread'[t].generation = thread[t].generation
<1>0. Shapes /\ SocketOK /\ \A r \in Threads : RegistrationOK(r) /\ RegistrationOK(t)
  BY DEF SharedOK
<1>1. UNCHANGED <<ipcFd, generation, table, stream, up, pointer, sent, got>>
  BY DEF RegisterQueue, SetQueueFd, ConfirmQueue, socket, history
<1>2. /\ queue[t] \in 0..MaxGeneration /\ generation \in 0..MaxGeneration
      /\ thread[t] \in ThreadRecord /\ thread[t].handle \in 0..MaxGeneration
      /\ queue[t] \in Nat /\ generation \in Nat /\ thread[t].handle \in Nat
  BY <1>0, BoundsAssumption DEF Shapes, ThreadRecord
<1>3. CASE RegisterQueue(t)
  <2>1. UNCHANGED <<queue, polled>> /\ ~At(t, "idle")
    BY <1>3 DEF RegisterQueue, At
  <2>2. CASE Goto(t, "peek")
    <3>1. /\ thread' \in [Threads -> ThreadRecord]
          /\ \A r \in Threads : r # t => thread'[r] = thread[r]
          /\ thread'[t].pc = "peek" /\ thread'[t].fd = thread[t].fd
          /\ thread'[t].generation = thread[t].generation
          /\ thread'[t].handle = thread[t].handle
      BY <1>0, <2>2, Moves, Places
    <3>2. Shapes'
      BY <1>0, <1>1, <2>1, <3>1 DEF Shapes
    <3>3. RegistrationOK(t)'
      BY <1>0, <1>1, <1>2, <2>1, <3>1, SameRegistration
    <3>4. QED
      BY <1>1, <2>1, <3>1, <3>2, <3>3, ThreadShared
  <2>3. CASE /\ queue[t] # generation
             /\ thread' = [thread EXCEPT ![t].pc = "server", ![t].handle = generation]
    <3> DEFINE x == thread[t]
               y == [x EXCEPT !.pc = "server", !.handle = generation]
    <3>1. thread' = [thread EXCEPT ![t] = y]
      BY <1>0, <2>3 DEF Shapes, ThreadRecord
    <3>2. /\ y \in ThreadRecord /\ y.pc = "server" /\ y.fd = x.fd
          /\ y.generation = x.generation /\ y.handle = generation
      BY <1>2, Places DEF ThreadRecord
    <3> HIDE DEF y
    <3>3. /\ thread' \in [Threads -> ThreadRecord] /\ thread'[t] = y
          /\ \A r \in Threads : r # t => thread'[r] = thread[r]
      BY <1>0, <3>1, <3>2 DEF Shapes
    <3>4. Shapes'
      BY <1>0, <1>1, <2>1, <3>3 DEF Shapes
    <3>5. RegistrationOK(t)'
      BY <1>0, <1>1, <1>2, <2>1, <2>3, <3>2, <3>3 DEF RegistrationOK, At
    <3>6. QED
      BY <1>1, <2>1, <3>2, <3>3, <3>4, <3>5, ThreadShared
  <2>4. QED
    BY <1>3, <2>2, <2>3 DEF RegisterQueue
<1>4. CASE SetQueueFd(t)
  <2>1. UNCHANGED queue /\ At(t, "server") /\ ~At(t, "idle") /\ queue[t] < thread[t].handle
    BY <1>0, <1>4 DEF SetQueueFd, At, RegistrationOK
  <2>2. CASE UNCHANGED polled /\ Goto(t, "peek")
    <3>1. /\ thread' \in [Threads -> ThreadRecord]
          /\ \A r \in Threads : r # t => thread'[r] = thread[r]
          /\ thread'[t].pc = "peek" /\ thread'[t].fd = thread[t].fd
          /\ thread'[t].generation = thread[t].generation
          /\ thread'[t].handle = thread[t].handle
      BY <1>0, <2>2, Moves, Places
    <3>2. Shapes'
      BY <1>0, <1>1, <2>1, <2>2, <3>1 DEF Shapes
    <3>3. RegistrationOK(t)'
      BY <1>0, <1>1, <1>2, <2>1, <2>2, <3>1, SameRegistration
    <3>4. QED
      BY <1>1, <2>1, <2>2, <3>1, <3>2, <3>3, ThreadShared
  <2>3. CASE polled' = [polled EXCEPT ![t] = thread[t].handle] /\ Goto(t, "confirm")
    <3>1. /\ thread' \in [Threads -> ThreadRecord]
          /\ \A r \in Threads : r # t => thread'[r] = thread[r]
          /\ thread'[t].pc = "confirm" /\ thread'[t].fd = thread[t].fd
          /\ thread'[t].generation = thread[t].generation
          /\ thread'[t].handle = thread[t].handle
      BY <1>0, <2>3, Moves, Places
    <3>2. /\ polled' \in [Threads -> 0..MaxGeneration] /\ polled'[t] = thread[t].handle
          /\ \A r \in Threads : r # t => polled'[r] = polled[r]
      BY <1>0, <1>2, <2>3 DEF Shapes
    <3>3. Shapes'
      BY <1>0, <1>1, <2>1, <3>1, <3>2 DEF Shapes
    <3>4. RegistrationOK(t)'
      BY <1>0, <1>1, <1>2, <2>1, <3>1, <3>2 DEF RegistrationOK, At
    <3>5. QED
      BY <1>1, <2>1, <3>1, <3>2, <3>3, <3>4, ThreadShared
  <2>4. QED
    BY <1>4, <2>2, <2>3 DEF SetQueueFd
<1>5. CASE ConfirmQueue(t)
  <2>1. /\ UNCHANGED polled /\ At(t, "confirm") /\ ~At(t, "idle")
        /\ polled[t] = thread[t].handle /\ queue[t] < thread[t].handle
    BY <1>0, <1>5 DEF ConfirmQueue, At, RegistrationOK
  <2>2. /\ thread' \in [Threads -> ThreadRecord]
        /\ \A r \in Threads : r # t => thread'[r] = thread[r]
        /\ thread'[t].pc = "peek" /\ thread'[t].fd = thread[t].fd
        /\ thread'[t].generation = thread[t].generation
        /\ thread'[t].handle = thread[t].handle
    BY <1>0, <1>5, Moves, Places DEF ConfirmQueue
  <2>3. /\ queue' \in [Threads -> 0..MaxGeneration]
        /\ queue'[t] = queue[t] \/ queue'[t] = thread[t].handle
        /\ \A r \in Threads : r # t => queue'[r] = queue[r]
    BY <1>0, <1>2, <1>5 DEF ConfirmQueue, Shapes
  <2>4. Shapes'
    BY <1>0, <1>1, <2>1, <2>2, <2>3 DEF Shapes
  <2>5. RegistrationOK(t)'
    BY <1>0, <1>1, <1>2, <2>1, <2>2, <2>3 DEF RegistrationOK, At
  <2>6. QED
    BY <1>1, <2>1, <2>2, <2>3, <2>4, <2>5, ThreadShared
<1>6. QED
  BY <1>3, <1>4, <1>5

(* A step after the registration keeps it. *)
LEMMA LaterShared ==
    ASSUME SharedOK, Shapes', NEW t \in Threads,
           UNCHANGED <<ipcFd, generation, table, queue, polled>>,
           \A r \in Threads : r # t => thread'[r] = thread[r],
           ~At(t, "idle"),
           \/ thread'[t].pc = "idle" /\ thread'[t].handle \in {0, thread[t].handle}
           \/ /\ thread'[t].pc \in {"header", "payload", "dispatch", "drop"}
              /\ thread'[t].fd = thread[t].fd /\ thread'[t].handle = thread[t].handle
    PROVE  SharedOK'
<1>0. Shapes /\ RegistrationOK(t)
  BY DEF SharedOK
<1>1. generation \in 0..MaxGeneration /\ generation <= generation
  BY <1>0 DEF Shapes
<1>2. RegistrationOK(t)'
  BY <1>0, <1>1, SameRegistration
<1>3. QED
  BY <1>2, ThreadShared

(* recv looks at the stream and changes nothing. *)
LEMMA PeekShared ==
    ASSUME SharedOK, NEW t \in Threads, Peek(t)
    PROVE  /\ SharedOK' /\ ~At(t, "idle")
           /\ \A r \in Threads : r # t => thread'[r] = thread[r]
           /\ \/ thread'[t].pc = "idle"
              \/ /\ thread'[t].pc \in {"header", "drop"}
                 /\ thread'[t].fd = thread[t].fd
                 /\ thread'[t].generation = thread[t].generation
<1>0. Shapes
  BY DEF SharedOK
<1>1. /\ UNCHANGED <<ipcFd, generation, table, stream, up, queue, polled, pointer, sent, got>>
      /\ ~At(t, "idle")
  BY DEF Peek, socket, history, At
<1>2. /\ thread' \in [Threads -> ThreadRecord]
      /\ \A r \in Threads : r # t => thread'[r] = thread[r]
      /\ \/ thread'[t].pc = "idle" /\ thread'[t].handle = 0
         \/ /\ thread'[t].pc \in {"header", "drop"} /\ thread'[t].fd = thread[t].fd
            /\ thread'[t].generation = thread[t].generation
            /\ thread'[t].handle = thread[t].handle
  <2>1. CASE Break(t)
    BY <1>0, <2>1, Leaves
  <2>2. CASE Goto(t, "drop")
    BY <1>0, <2>2, Moves, Places
  <2>3. CASE Goto(t, "header")
    BY <1>0, <2>3, Moves, Places
  <2>4. QED
    BY <2>1, <2>2, <2>3 DEF Peek
<1>3. Shapes'
  BY <1>0, <1>1, <1>2 DEF Shapes
<1>4. SharedOK'
  BY <1>1, <1>2, <1>3, LaterShared
<1>5. QED
  BY <1>1, <1>2, <1>4

(* What is at the head of the stream behind a thread's number. *)
LEMMA HeadOfStream ==
    ASSUME SharedOK, NEW t \in Threads, ~At(t, "idle"), ~EndOfStream(t),
           stream[Behind(t)] # <<>>
    PROVE  /\ Behind(t) \in Connections /\ stream[Behind(t)] \in Seq(StreamUnit)
           /\ Head(stream[Behind(t)]) \in StreamUnit
           /\ Head(stream[Behind(t)]) = stream[Behind(t)][1]
           /\ [stream EXCEPT ![Behind(t)] = Tail(@)] \in [Connections -> Seq(StreamUnit)]
<1>0. Shapes /\ SocketOK
  BY DEF SharedOK
<1>1. Behind(t) \in 0..MaxGeneration /\ Behind(t) # 0
  BY <1>0 DEF Shapes, SocketOK, Behind, EndOfStream
<1>2. Behind(t) \in Connections
  BY <1>1, BoundsAssumption DEF Connections
<1>3. stream[Behind(t)] \in Seq(StreamUnit)
  BY <1>0, <1>2 DEF Shapes
<1>4. /\ Tail(stream[Behind(t)]) \in Seq(StreamUnit)
      /\ Head(stream[Behind(t)]) \in StreamUnit
      /\ Head(stream[Behind(t)]) = stream[Behind(t)][1]
  BY <1>3, HeadTailProperties
<1>5. QED
  BY <1>0, <1>2, <1>3, <1>4 DEF Shapes

(* The places a header can lead to. *)
HeaderRead(t, u) ==
    /\ thread'[t].from = Behind(t) /\ stream' = [stream EXCEPT ![Behind(t)] = Tail(@)]
    /\ \/ /\ u.part = "header" /\ thread'[t].msg = u.of
          /\ thread'[t].pc = IF u.of.kind = "text" THEN "payload" ELSE "dispatch"
       \/ u.part = "payload" /\ thread'[t].pc \in {"drop", "idle"}

(* A header is read, or the end of the stream. *)
LEMMA HeaderShared ==
    ASSUME SharedOK, NEW t \in Threads, ReadHeader(t)
    PROVE  /\ SharedOK' /\ ~At(t, "idle")
           /\ \A r \in Threads : r # t => thread'[r] = thread[r]
           /\ thread'[t].fd = thread[t].fd /\ thread'[t].generation = thread[t].generation
           /\ \/ EndOfStream(t) /\ thread'[t].pc = "drop" /\ stream' = stream
              \/ /\ ~EndOfStream(t) /\ stream[Behind(t)] # <<>>
                 /\ HeaderRead(t, stream[Behind(t)][1])
<1>0. Shapes
  BY DEF SharedOK
<1>1. /\ UNCHANGED <<ipcFd, generation, table, up, queue, polled, pointer, sent, got>>
      /\ ~At(t, "idle")
  BY DEF ReadHeader, socket, history, At
<1>2. CASE EndOfStream(t) /\ Goto(t, "drop") /\ UNCHANGED stream
  <2>1. /\ thread' \in [Threads -> ThreadRecord]
        /\ \A r \in Threads : r # t => thread'[r] = thread[r]
        /\ thread'[t].pc = "drop" /\ thread'[t].fd = thread[t].fd
        /\ thread'[t].generation = thread[t].generation
        /\ thread'[t].handle = thread[t].handle
    BY <1>0, <1>2, Moves, Places
  <2>2. Shapes'
    BY <1>0, <1>1, <1>2, <2>1 DEF Shapes
  <2>3. QED
    BY <1>1, <1>2, <2>1, <2>2, LaterShared
<1>3. CASE ~EndOfStream(t) /\ stream[Behind(t)] # <<>>
  <2> DEFINE u == Head(stream[Behind(t)])
             x == thread[t]
  <2>1. /\ Behind(t) \in Connections /\ u \in StreamUnit /\ u = stream[Behind(t)][1]
        /\ stream' = [stream EXCEPT ![Behind(t)] = Tail(@)]
        /\ stream' \in [Connections -> Seq(StreamUnit)]
    BY <1>1, <1>3, HeadOfStream DEF ReadHeader, Take
  <2>2. /\ x \in ThreadRecord /\ u.of \in Message /\ u.part \in {"header", "payload"}
        /\ Behind(t) \in 0..MaxGeneration
    <3>1. x \in ThreadRecord
      BY <1>0 DEF Shapes
    <3> HIDE DEF u, x
    <3>2. u.of \in Message /\ u.part \in {"header", "payload"}
      BY ONLY <2>1 DEF StreamUnit
    <3>3. Behind(t) \in 0..MaxGeneration
      BY ONLY <2>1, BoundsAssumption DEF Connections
    <3> QED BY ONLY <3>1, <3>2, <3>3
  <2>3. PICK m \in Message \cup {Garbage}, pc \in PC :
          /\ thread' = [thread EXCEPT ![t].msg = m, ![t].from = Behind(t), ![t].pc = pc]
          /\ \/ u.part = "header" /\ m = u.of /\ pc = IF u.of.kind = "text" THEN "payload"
                                                    ELSE "dispatch"
             \/ u.part = "payload" /\ pc \in {"drop", "idle"}
    <3>1. CASE u.part = "header"
      <4>1. thread' = [thread EXCEPT ![t].msg = u.of, ![t].from = Behind(t),
                          ![t].pc = IF u.of.kind = "text" THEN "payload" ELSE "dispatch"]
        BY <1>3, <3>1 DEF ReadHeader
      <4> HIDE DEF u
      <4>2. (IF u.of.kind = "text" THEN "payload" ELSE "dispatch") \in PC
        BY Places
      <4>3. QED
        BY <2>2, <3>1, <4>1, <4>2
    <3>2. CASE u.part = "payload"
      <4>1. PICK pc \in {"drop", "idle"} :
              thread' = [thread EXCEPT ![t].msg = Garbage, ![t].pc = pc, ![t].from = Behind(t)]
        BY <1>3, <3>2 DEF ReadHeader
      <4>2. thread' = [thread EXCEPT ![t].msg = Garbage, ![t].from = Behind(t), ![t].pc = pc]
        BY <1>0, <4>1 DEF Shapes, ThreadRecord
      <4>3. pc \in PC
        BY Places
      <4>4. QED
        BY <3>2, <4>2, <4>3
    <3>3. QED
      BY <2>2, <3>1, <3>2
  <2> DEFINE y == [x EXCEPT !.msg = m, !.from = Behind(t), !.pc = pc]
  <2> HIDE DEF u
  <2>4. thread' = [thread EXCEPT ![t] = y]
    BY <1>0, <2>2, <2>3 DEF Shapes, ThreadRecord
  <2>5. /\ y \in ThreadRecord /\ y.pc = pc /\ y.fd = x.fd /\ y.generation = x.generation
        /\ y.handle = x.handle /\ y.msg = m /\ y.from = Behind(t)
    BY <2>2, <2>3 DEF ThreadRecord
  <2> HIDE DEF y
  <2>6. /\ thread' \in [Threads -> ThreadRecord] /\ thread'[t] = y
        /\ \A r \in Threads : r # t => thread'[r] = thread[r]
    BY <1>0, <2>4, <2>5 DEF Shapes
  <2>7. Shapes'
    BY <1>0, <1>1, <2>1, <2>6 DEF Shapes
  <2>8. pc \in {"payload", "dispatch", "drop", "idle"}
    BY <2>3
  <2>9. SharedOK'
    BY <1>1, <2>5, <2>6, <2>7, <2>8, LaterShared
  <2>10. HeaderRead(t, u)
    BY <2>1, <2>3, <2>5, <2>6 DEF HeaderRead
  <2>11. QED
    BY <1>1, <1>3, <2>1, <2>5, <2>6, <2>9, <2>10
<1>4. QED
  BY <1>2, <1>3 DEF ReadHeader

(* A payload is read, or the end of the stream. *)
LEMMA PayloadShared ==
    ASSUME SharedOK, NEW t \in Threads, ReadPayload(t)
    PROVE  LET mine == [part |-> "payload", of |-> thread[t].msg] IN
           /\ SharedOK' /\ ~At(t, "idle")
           /\ \A r \in Threads : r # t => thread'[r] = thread[r]
           /\ thread'[t].fd = thread[t].fd /\ thread'[t].generation = thread[t].generation
           /\ \/ EndOfStream(t) /\ thread'[t].pc = "drop" /\ stream' = stream
              \/ /\ ~EndOfStream(t) /\ stream[Behind(t)] # <<>>
                 /\ stream' = [stream EXCEPT ![Behind(t)] = Tail(@)]
                 /\ thread'[t].pc = "dispatch" /\ thread'[t].from = thread[t].from
                 /\ stream[Behind(t)][1] = mine /\ Behind(t) = thread[t].from =>
                       thread'[t].msg = thread[t].msg
<1>0. Shapes
  BY DEF SharedOK
<1>1. /\ UNCHANGED <<ipcFd, generation, table, up, queue, polled, pointer, sent, got>>
      /\ ~At(t, "idle")
  BY DEF ReadPayload, socket, history, At
<1>2. CASE EndOfStream(t) /\ Goto(t, "drop") /\ UNCHANGED stream
  <2>1. /\ thread' \in [Threads -> ThreadRecord]
        /\ \A r \in Threads : r # t => thread'[r] = thread[r]
        /\ thread'[t].pc = "drop" /\ thread'[t].fd = thread[t].fd
        /\ thread'[t].generation = thread[t].generation
        /\ thread'[t].handle = thread[t].handle
    BY <1>0, <1>2, Moves, Places
  <2>2. Shapes'
    BY <1>0, <1>1, <1>2, <2>1 DEF Shapes
  <2>3. QED
    BY <1>1, <1>2, <2>1, <2>2, LaterShared
<1>3. CASE ~EndOfStream(t) /\ stream[Behind(t)] # <<>>
  <2> DEFINE mine == [part |-> "payload", of |-> thread[t].msg]
             x == thread[t]
             m == IF Head(stream[Behind(t)]) = mine /\ Behind(t) = x.from THEN x.msg ELSE Garbage
             y == [x EXCEPT !.pc = "dispatch", !.msg = m]
  <2>1. /\ Head(stream[Behind(t)]) = stream[Behind(t)][1]
        /\ stream' = [stream EXCEPT ![Behind(t)] = Tail(@)]
        /\ stream' \in [Connections -> Seq(StreamUnit)]
    BY <1>1, <1>3, HeadOfStream DEF ReadPayload, Take
  <2>2. x \in ThreadRecord /\ x.msg \in Message \cup {Garbage}
    BY <1>0 DEF Shapes, ThreadRecord
  <2>3. m \in Message \cup {Garbage}
    BY <2>2
  <2>4. thread' = [thread EXCEPT ![t] = y]
    BY <1>0, <1>3, <2>2 DEF ReadPayload, Shapes, ThreadRecord
  <2>5. stream[Behind(t)][1] = mine /\ Behind(t) = x.from => m = x.msg
    BY <2>1
  <2> HIDE DEF m, mine
  <2>6. /\ y \in ThreadRecord /\ y.pc = "dispatch" /\ y.fd = x.fd
        /\ y.generation = x.generation /\ y.handle = x.handle /\ y.msg = m /\ y.from = x.from
    BY <2>2, <2>3, Places DEF ThreadRecord
  <2> HIDE DEF y
  <2>7. /\ thread' \in [Threads -> ThreadRecord] /\ thread'[t] = y
        /\ \A r \in Threads : r # t => thread'[r] = thread[r]
    BY <1>0, <2>4, <2>6 DEF Shapes
  <2>8. Shapes'
    BY <1>0, <1>1, <2>1, <2>7 DEF Shapes
  <2>9. SharedOK'
    BY <1>1, <2>6, <2>7, <2>8, LaterShared
  <2>10. QED
    BY <1>1, <1>3, <2>1, <2>5, <2>6, <2>7, <2>9 DEF mine
<1>4. QED
  BY <1>2, <1>3 DEF ReadPayload

(* A record that is not text is a pointer event. *)
LEMMA PointerKinds ==
    ASSUME NEW m \in Message \cup {Garbage}, ~IsText(m)
    PROVE  m \in Message /\ m.kind \in {"down", "up", "move"}
BY DEF IsText, Message, Kinds

(* A record is dispatched. *)
LEMMA DispatchShared ==
    ASSUME SharedOK, NEW t \in Threads, Dispatch(t)
    PROVE  /\ SharedOK' /\ At(t, "dispatch")
           /\ \A r \in Threads : r # t => thread'[r] = thread[r]
           /\ thread'[t].pc = "idle"
<1>0. Shapes
  BY DEF SharedOK
<1>1. /\ UNCHANGED <<ipcFd, generation, table, stream, up, queue, polled, sent>>
      /\ At(t, "dispatch") /\ ~At(t, "idle")
      /\ got' = [got EXCEPT ![thread[t].from] = Append(@, thread[t].msg)]
  BY DEF Dispatch, socket, At
<1>2. /\ thread' \in [Threads -> ThreadRecord]
      /\ \A r \in Threads : r # t => thread'[r] = thread[r]
      /\ thread'[t].pc = "idle" /\ thread'[t].handle = 0
  BY <1>0, Leaves DEF Dispatch
<1>3. /\ thread[t].msg \in Message \cup {Garbage} /\ thread[t].from \in 0..MaxGeneration
      /\ thread[t].generation \in 0..MaxGeneration
  BY <1>0 DEF Shapes, ThreadRecord
<1>4. got' \in [Connections -> Seq(Message \cup {Garbage})]
  <2>1. \A c \in Connections : Append(got[c], thread[t].msg) \in Seq(Message \cup {Garbage})
    BY <1>0, <1>3, AppendProperties DEF Shapes
  <2>2. QED
    BY <1>0, <1>1, <2>1 DEF Shapes
<1>5. pointer' \in [down : BOOLEAN, generation : 0..MaxGeneration, from : 0..MaxGeneration]
  <2>1. pointer \in [down : BOOLEAN, generation : 0..MaxGeneration, from : 0..MaxGeneration]
    BY <1>0 DEF Shapes
  <2>2. CASE IsText(thread[t].msg)
    BY <2>1, <2>2 DEF Dispatch
  <2>3. CASE ~IsText(thread[t].msg)
    <3>1. thread[t].msg.kind \in {"down", "up", "move"}
      BY <1>3, <2>3, PointerKinds
    <3>2. PointerEvent(t)
      BY <2>3 DEF Dispatch
    <3>3. CASE thread[t].msg.kind = "down"
      <4>1. pointer' = [down |-> TRUE, from |-> thread[t].from,
                        generation |-> thread[t].generation]
        BY <3>2, <3>3 DEF PointerEvent
      <4>2. QED
        BY <1>3, <4>1
    <3>4. CASE thread[t].msg.kind = "up"
      <4>1. pointer' = [pointer EXCEPT !.down = FALSE]
        BY <3>2, <3>4 DEF PointerEvent
      <4>2. QED
        BY <2>1, <4>1
    <3>5. CASE thread[t].msg.kind = "move"
      <4>1. pointer' = pointer
        BY <3>2, <3>5 DEF PointerEvent
      <4>2. QED
        BY <2>1, <4>1
    <3>6. QED
      BY <3>1, <3>3, <3>4, <3>5
  <2>4. QED
    BY <2>2, <2>3
<1>6. Shapes'
  BY <1>0, <1>1, <1>2, <1>4, <1>5 DEF Shapes
<1>7. SharedOK'
  BY <1>1, <1>2, <1>6, LaterShared
<1>8. QED
  BY <1>1, <1>2, <1>7

(* disconnect_ipc_fd, of the connection of the snapshot only. *)
LEMMA DropShared ==
    ASSUME SharedOK, NEW t \in Threads, Drop(t)
    PROVE  /\ SharedOK' /\ At(t, "drop")
           /\ \A r \in Threads : r # t => thread'[r] = thread[r]
           /\ thread'[t].pc = "idle" /\ generation' = generation
           /\ UNCHANGED <<stream, up, pointer, sent, got, captured>>
<1>0. Shapes /\ SocketOK /\ \A r \in Threads : RegistrationOK(r)
  BY DEF SharedOK
<1>1. /\ UNCHANGED <<stream, up, queue, polled, pointer, sent, got, captured>> /\ At(t, "drop")
  BY DEF Drop, history
<1>2. /\ thread' \in [Threads -> ThreadRecord]
      /\ \A r \in Threads : r # t => thread'[r] = thread[r]
      /\ thread'[t].pc = "idle" /\ thread'[t].handle = 0
  BY <1>0, Leaves DEF Drop
<1>3. /\ generation' = generation /\ ipcFd' \in Numbers \cup {NoFd}
      /\ table' \in [Numbers -> 0..MaxGeneration]
      /\ generation \in 0..MaxGeneration /\ generation <= generation
      /\ ipcFd' # NoFd => ipcFd' = ipcFd /\ table' = table
  <2>1. ipcFd \in Numbers \cup {NoFd} /\ generation \in 0..MaxGeneration
    BY <1>0 DEF Shapes
  <2>2. CASE Disconnect
    BY <1>0, <2>1, <2>2, Disconnects
  <2>3. CASE UNCHANGED socket
    BY <1>0, <2>1, <2>3 DEF socket, Shapes
  <2>4. QED
    BY <2>2, <2>3 DEF Drop
<1>4. Shapes'
  BY <1>0, <1>1, <1>2, <1>3 DEF Shapes
<1>5. SocketOK'
  BY <1>0, <1>2, <1>3 DEF SocketOK, At
<1>6. ASSUME NEW r \in Threads PROVE RegistrationOK(r)'
  <2>1. RegistrationOK(r)
    BY <1>0
  <2>2. CASE r = t
    BY <2>1, <2>2, <1>0, <1>1, <1>2, <1>3, SameRegistration
  <2>3. CASE r # t
    BY <2>1, <2>3, <1>0, <1>1, <1>2, <1>3, SameRegistration
  <2>4. QED
    BY <2>2, <2>3
<1>7. QED
  BY <1>1, <1>2, <1>3, <1>4, <1>5, <1>6 DEF SharedOK

(* What is shared stays in order, however the threads interleave. *)
LEMMA SharedStep == SharedOK /\ [Next]_vars => SharedOK'
<1> SUFFICES ASSUME SharedOK, [Next]_vars PROVE SharedOK'
  OBVIOUS
<1>1. CASE UNCHANGED vars
  BY <1>1 DEF vars, socket, history, SharedOK, Shapes, SocketOK, RegistrationOK, At
<1>2. ASSUME NEW t \in Threads, ThreadStep(t) PROVE SharedOK'
  BY <1>2, SnapshotShared, RegisterShared, PeekShared, HeaderShared, PayloadShared,
     DispatchShared, DropShared DEF ThreadStep
<1>3. QED
  BY <1>1, <1>2, HostShared, PaintsShared DEF Next

-----------------------------------------------------------------------------
(* Reading the unit in front of a stream. *)
LEMMA FrontRead ==
    ASSUME NEW s \in Seq(StreamUnit), s # <<>>, NEW n \in Nat, WellSent(s, n)
    PROVE  /\ WellSent(Tail(s), n)
           /\ OpensText(s[1]) => /\ Tail(s) # <<>>
                                 /\ Tail(s)[1] = [part |-> "payload", of |-> s[1].of]
           /\ ~OpensText(s[1]) => Starts(Tail(s), s[1].of.n, n)
<1> DEFINE r == Tail(s)
<1>1. /\ r \in Seq(StreamUnit) /\ Len(r) = Len(s) - 1 /\ Len(s) \in Nat \ {0}
      /\ \A i \in 1..Len(r) : r[i] = s[i + 1]
  BY HeadTailProperties, EmptySeq
<1> HIDE DEF r
<1>2. r = <<>> <=> Len(s) = 1
  <2>1. \A z \in Seq(StreamUnit) : z = <<>> <=> Len(z) = 0
    BY EmptySeq
  <2>2. r = <<>> <=> Len(r) = 0
    BY <1>1, <2>1
  <2>3. QED
    BY <1>1, <2>2
<1>3. \A i \in 1..(Len(r) - 1) : Follows(r[i], r[i + 1])
  <2> SUFFICES ASSUME NEW i \in 1..(Len(r) - 1) PROVE Follows(r[i], r[i + 1])
    OBVIOUS
  <2>1. /\ i + 1 \in 1..(Len(s) - 1) /\ r[i] = s[i + 1] /\ r[i + 1] = s[(i + 1) + 1]
    BY <1>1
  <2>2. QED
    BY <2>1 DEF WellSent
<1>4. r # <<>> => r[Len(r)] = s[Len(s)]
  BY <1>1, <1>2
<1>5. r # <<>> => Follows(s[1], r[1])
  <2>1. r # <<>> => 1 \in 1..(Len(s) - 1) /\ r[1] = s[1 + 1]
    BY <1>1, <1>2
  <2>2. QED
    BY <2>1 DEF WellSent
<1>6. WellSent(r, n)
  BY <1>3, <1>4 DEF WellSent
<1>7. OpensText(s[1]) => r # <<>>
  BY <1>2 DEF WellSent
<1>8. r = <<>> => n = s[1].of.n
  BY <1>2 DEF WellSent
<1>9. QED
  BY <1>5, <1>6, <1>7, <1>8 DEF r, Starts, Follows

(* The host adds one record to a stream. *)
Written(s, k, n) ==
    LET m == [kind |-> k, n |-> n + 1] IN
    s \o <<[part |-> "header", of |-> m]>> \o
    IF k = "text" THEN <<[part |-> "payload", of |-> m]>> ELSE <<>>

LEMMA BackWritten ==
    ASSUME NEW s \in Seq(StreamUnit), NEW n \in Nat, WellSent(s, n), NEW k \in Kinds
    PROVE  /\ WellSent(Written(s, k, n), n + 1) /\ Written(s, k, n) # <<>>
           /\ s # <<>> => Written(s, k, n)[1] = s[1]
           /\ s = <<>> => /\ Written(s, k, n)[1].part = "header"
                          /\ Written(s, k, n)[1].of.n = n + 1
<1> DEFINE m == [kind |-> k, n |-> n + 1]
           q == Written(s, k, n)
<1>0. q = s \o <<[part |-> "header", of |-> m]>> \o
          (IF k = "text" THEN <<[part |-> "payload", of |-> m]>> ELSE <<>>)
  BY DEF Written
<1> DEFINE h == [part |-> "header", of |-> m]
           p == [part |-> "payload", of |-> m]
<1>1. /\ h \in StreamUnit /\ p \in StreamUnit /\ h.part = "header" /\ h.of = m
      /\ p.part = "payload" /\ p.of = m /\ m.kind = k /\ m.n = n + 1
  BY DEF StreamUnit, Message
<1> HIDE DEF m, q
<1>2. Len(s) \in Nat /\ (s = <<>> <=> Len(s) = 0)
  BY LenProperties, EmptySeq
<1> HIDE DEF h, p
<1>3. /\ q[Len(s) + 1] = h /\ \A i \in 1..Len(s) : q[i] = s[i]
      /\ k = "text" => Len(q) = Len(s) + 2 /\ q[Len(s) + 2] = p
      /\ k # "text" => Len(q) = Len(s) + 1
      /\ q \in Seq(StreamUnit)
  <2> DEFINE a == s \o <<h>>
  <2>1. /\ a \in Seq(StreamUnit) /\ Len(a) = Len(s) + 1 /\ a[Len(s) + 1] = h
        /\ \A i \in 1..Len(s) : a[i] = s[i]
    BY <1>1, <1>2, AppendProperties, AppendIsConcat
  <2> HIDE DEF a
  <2>2. CASE k = "text"
    <3>1. q = a \o <<p>>
      BY <1>0, <2>2 DEF a, h, p
    <3>2. /\ q \in Seq(StreamUnit) /\ Len(q) = Len(a) + 1 /\ q[Len(a) + 1] = p
          /\ \A i \in 1..Len(a) : q[i] = a[i]
      BY <1>1, <2>1, <3>1, AppendProperties, AppendIsConcat
    <3>3. QED
      BY <1>2, <2>1, <2>2, <3>2
  <2>3. CASE k # "text"
    <3>1. q = a \o <<>>
      BY <1>0, <2>3 DEF a, h
    <3>2. q = a
      BY <2>1, <3>1, ConcatEmptySeq
    <3>3. /\ q[Len(s) + 1] = h /\ \A i \in 1..Len(s) : q[i] = s[i]
          /\ Len(q) = Len(s) + 1 /\ q \in Seq(StreamUnit)
      BY <2>1, <3>2
    <3>4. QED
      BY <2>3, <3>3
  <2>4. QED
    BY <2>2, <2>3
<1>4. q # <<>> /\ Len(q) \in Nat /\ Len(q) > Len(s) /\ Len(q) <= Len(s) + 2
  BY <1>2, <1>3, EmptySeq
<1>5. ASSUME NEW i \in 1..(Len(q) - 1) PROVE Follows(q[i], q[i + 1])
  <2>1. CASE i < Len(s)
    <3>1. i \in 1..(Len(s) - 1) /\ q[i] = s[i] /\ q[i + 1] = s[i + 1]
      BY <1>2, <1>3, <2>1
    <3>2. QED
      BY <3>1 DEF WellSent
  <2>2. CASE i = Len(s)
    <3>1. q[i] = s[Len(s)] /\ q[i + 1] = h /\ s # <<>>
      BY <1>2, <1>3, <2>2
    <3>2. s[Len(s)].of.n = n /\ ~OpensText(s[Len(s)])
      BY <3>1 DEF WellSent
    <3>3. QED
      BY <1>1, <3>1, <3>2 DEF Follows
  <2>3. CASE i > Len(s)
    <3>1. i = Len(s) + 1 /\ k = "text" /\ i + 1 = Len(s) + 2
      <4>1. \A a, b, j \in Nat : j \in 1..(b - 1) /\ j > a =>
              (b = a + 2 => j = a + 1 /\ j + 1 = a + 2) /\ b # a + 1
        OBVIOUS
      <4>2. i \in Nat /\ (Len(q) = Len(s) + 2 \/ Len(q) = Len(s) + 1)
        BY <1>3
      <4>3. QED
        BY <1>2, <1>3, <1>4, <2>3, <4>1, <4>2
    <3>2. q[i] = h /\ q[i + 1] = p
      BY <1>3, <3>1
    <3>3. QED
      BY <1>1, <3>1, <3>2 DEF Follows, OpensText, p
  <2>4. QED
    BY <1>2, <1>4, <2>1, <2>2, <2>3
<1>6. q[Len(q)].of.n = n + 1 /\ ~OpensText(q[Len(q)])
  <2>1. CASE k = "text"
    BY <1>1, <1>3, <2>1 DEF OpensText
  <2>2. CASE k # "text"
    BY <1>1, <1>3, <2>2 DEF OpensText
  <2>3. QED
    BY <2>1, <2>2
<1>7. /\ s # <<>> => q[1] = s[1]
      /\ s = <<>> => q[1] = h
  BY <1>2, <1>3
<1>8. QED
  BY <1>1, <1>4, <1>5, <1>6, <1>7 DEF WellSent, q

-----------------------------------------------------------------------------
(* A step of the one thread inside the loop. *)
LEMMA TurnKept ==
    ASSUME NEW t \in Threads, \A r \in Threads : r # t => At(r, "idle") /\ thread'[r] = thread[r],
           \/ thread'[t].pc = "idle"
           \/ /\ thread'[t].fd = ipcFd' /\ thread'[t].generation = generation' /\ ipcFd' # NoFd
              /\ thread'[t].pc \in {"payload", "dispatch"} =>
                    thread'[t].from = generation' /\ thread'[t].msg # Garbage
    PROVE  \A r \in Threads : TurnOK(r)'
<1>1. \A r \in Threads : r # t => At(r, "idle")'
  BY DEF At
<1>2. QED
  BY <1>1 DEF TurnOK, At

(* A stream stays in order when the step concerns none of it. *)
LEMMA StreamKept ==
    ASSUME Shapes, NEW c \in Connections, StreamOK(c), generation' \in 0..MaxGeneration,
           generation <= generation', stream'[c] = stream[c], sent'[c] = sent[c],
           got'[c] = got[c], c > generation' => up'[c] = up[c] \/ ~up'[c],
           \A r \in Threads : thread'[r] = thread[r] \/ (~Reads(r, c) /\ ~Reads(r, c)')
    PROVE  StreamOK(c)'
<1>1. c > generation' => c > generation
  BY BoundsAssumption DEF Shapes, Connections
<1>2. \A r \in Threads : Reads(r, c)' <=> Reads(r, c)
  BY DEF Reads, At
<1>3. \A r \in Threads : Reads(r, c)' => thread'[r] = thread[r]
  OBVIOUS
<1>4. QED
  BY <1>1, <1>2, <1>3 DEF StreamOK, At

(* The thread inside the loop has the newest connection behind its number. *)
LEMMA NewestBehind ==
    ASSUME SharedOK, TurnsOK, NEW t \in Threads, ~At(t, "idle")
    PROVE  /\ thread[t].fd = ipcFd /\ thread[t].generation = generation /\ ipcFd # NoFd
           /\ Behind(t) = generation /\ generation \in Connections /\ generation # 0
BY BoundsAssumption DEF TurnsOK, TurnOK, SharedOK, SocketOK, Behind, Connections

(* A step that neither reads nor dispatches. *)
LEMMA QuietTurn ==
    ASSUME SharedOK, TurnsOK, SharedOK', NEW t \in Threads,
           \A r \in Threads : r # t => At(r, "idle") /\ thread'[r] = thread[r],
           thread[t].pc \notin {"payload", "dispatch"},
           thread'[t].pc \notin {"payload", "dispatch"},
           \/ thread'[t].pc = "idle"
           \/ thread'[t].fd = ipcFd' /\ thread'[t].generation = generation' /\ ipcFd' # NoFd,
           UNCHANGED <<stream, sent, got, pointer, captured>>, generation <= generation',
           \A c \in Connections : c > generation' => up'[c] = up[c]
    PROVE  TurnsOK'
<1>1. \A r \in Threads : TurnOK(r)'
  BY TurnKept
<1>2. ASSUME NEW c \in Connections PROVE StreamOK(c)'
  <2>1. Shapes /\ StreamOK(c) /\ generation' \in 0..MaxGeneration
    BY DEF SharedOK, TurnsOK, Shapes
  <2>2. \A r \in Threads : r = t => ~Reads(r, c) /\ ~Reads(r, c)'
    BY DEF Reads, At
  <2>3. \A r \in Threads : thread'[r] = thread[r] \/ (~Reads(r, c) /\ ~Reads(r, c)')
    BY <2>2
  <2>4. /\ stream'[c] = stream[c] /\ sent'[c] = sent[c] /\ got'[c] = got[c]
        /\ c > generation' => up'[c] = up[c]
    OBVIOUS
  <2>5. QED
    BY <2>1, <2>3, <2>4, StreamKept
<1>3. PointerOK'
  BY DEF TurnsOK, PointerOK
<1>4. QED
  BY <1>1, <1>2, <1>3 DEF TurnsOK

(* A thread enters the loop. *)
LEMMA SnapshotTurn ==
    ASSUME SharedOK, TurnsOK, NEW t \in Threads, Snapshot(t),
           \A r \in Threads : r # t => At(r, "idle")
    PROVE  TurnsOK'
<1>1. /\ SharedOK' /\ \A r \in Threads : r # t => thread'[r] = thread[r]
      /\ thread'[t].pc = "register" /\ thread'[t].fd = ipcFd' /\ ipcFd' # NoFd
      /\ thread'[t].generation = generation'
  BY SnapshotShared
<1>2. thread[t].pc = "idle" /\ UNCHANGED <<stream, sent, got, pointer, captured>>
  BY DEF Snapshot, At, history
<1>3. generation <= generation' /\ \A c \in Connections : c > generation' => up'[c] = up[c]
  <2>1. Shapes /\ generation \in Nat
    BY BoundsAssumption DEF SharedOK, Shapes
  <2>2. CASE Connect
    <3>1. generation' = generation + 1 /\ up' = [up EXCEPT ![generation'] = TRUE]
      BY <2>1, <2>2, Connects
    <3>2. ASSUME NEW c \in Connections, c > generation' PROVE c # generation'
      BY <2>1, <3>1, <3>2 DEF Connections
    <3>3. ASSUME NEW c \in Connections, c > generation' PROVE up'[c] = up[c]
      BY <2>1, <3>1, <3>2, <3>3 DEF Shapes
    <3>4. generation <= generation'
      BY <2>1, <3>1
    <3>5. QED
      BY <3>3, <3>4
  <2>3. CASE UNCHANGED <<socket, up>>
    BY <2>1, <2>3 DEF socket
  <2>4. QED
    BY <2>2, <2>3 DEF Snapshot
<1>4. QED
  BY <1>1, <1>2, <1>3, QuietTurn

(* The registration of the queue concerns no stream. *)
LEMMA RegisterTurn ==
    ASSUME SharedOK, TurnsOK, NEW t \in Threads,
           RegisterQueue(t) \/ SetQueueFd(t) \/ ConfirmQueue(t),
           \A r \in Threads : r # t => At(r, "idle")
    PROVE  TurnsOK'
<1>1. /\ SharedOK' /\ ~At(t, "idle") /\ \A r \in Threads : r # t => thread'[r] = thread[r]
      /\ thread'[t].pc \in {"server", "confirm", "peek"}
      /\ thread'[t].fd = thread[t].fd /\ thread'[t].generation = thread[t].generation
  BY RegisterShared
<1>2. /\ thread[t].pc \notin {"payload", "dispatch"}
      /\ UNCHANGED <<ipcFd, generation, up, stream, sent, got, pointer, captured>>
  BY DEF RegisterQueue, SetQueueFd, ConfirmQueue, At, socket, history
<1>3. thread[t].fd = ipcFd /\ thread[t].generation = generation /\ ipcFd # NoFd
  BY <1>1, NewestBehind
<1>4. generation <= generation
  BY BoundsAssumption DEF SharedOK, Shapes
<1>5. QED
  BY <1>1, <1>2, <1>3, <1>4, QuietTurn

(* A look at the stream. *)
LEMMA PeekTurn ==
    ASSUME SharedOK, TurnsOK, NEW t \in Threads, Peek(t),
           \A r \in Threads : r # t => At(r, "idle")
    PROVE  TurnsOK'
<1>1. /\ SharedOK' /\ ~At(t, "idle") /\ \A r \in Threads : r # t => thread'[r] = thread[r]
      /\ \/ thread'[t].pc = "idle"
         \/ /\ thread'[t].pc \in {"header", "drop"} /\ thread'[t].fd = thread[t].fd
            /\ thread'[t].generation = thread[t].generation
  BY PeekShared
<1>2. /\ thread[t].pc \notin {"payload", "dispatch"}
      /\ UNCHANGED <<ipcFd, generation, up, stream, sent, got, pointer, captured>>
  BY DEF Peek, At, socket, history
<1>3. thread[t].fd = ipcFd /\ thread[t].generation = generation /\ ipcFd # NoFd
  BY <1>1, NewestBehind
<1>4. generation <= generation
  BY BoundsAssumption DEF SharedOK, Shapes
<1>5. QED
  BY <1>1, <1>2, <1>3, <1>4, QuietTurn

(* The connection is given up. *)
LEMMA DropTurn ==
    ASSUME SharedOK, TurnsOK, NEW t \in Threads, Drop(t),
           \A r \in Threads : r # t => At(r, "idle")
    PROVE  TurnsOK'
<1>1. /\ SharedOK' /\ At(t, "drop") /\ \A r \in Threads : r # t => thread'[r] = thread[r]
      /\ thread'[t].pc = "idle" /\ generation' = generation
      /\ UNCHANGED <<stream, up, pointer, sent, got, captured>>
  BY DropShared
<1>2. thread[t].pc \notin {"payload", "dispatch"}
  BY <1>1 DEF At
<1>3. generation <= generation
  BY BoundsAssumption DEF SharedOK, Shapes
<1>4. QED
  BY <1>1, <1>2, <1>3, QuietTurn

(* What a sequential reader finds in front of the newest stream. *)
LEMMA NextUnit ==
    ASSUME SharedOK, TurnsOK, NEW c \in Connections
    PROVE  /\ stream[c] \in Seq(StreamUnit) /\ sent[c] \in Nat /\ WellSent(stream[c], sent[c])
           /\ got[c] \in Seq(Message \cup {Garbage}) /\ Len(got[c]) \in Nat
BY LenProperties DEF SharedOK, Shapes, TurnsOK, StreamOK

(* The header of the next record is read. *)
LEMMA HeaderTurn ==
    ASSUME SharedOK, TurnsOK, NEW t \in Threads, ReadHeader(t),
           \A r \in Threads : r # t => At(r, "idle")
    PROVE  TurnsOK'
<1>0. PICK g \in Connections : g = generation
  BY NewestBehind DEF ReadHeader, At
<1> DEFINE s == stream[g]
<1>1. /\ SharedOK' /\ ~At(t, "idle") /\ \A r \in Threads : r # t => thread'[r] = thread[r]
      /\ thread'[t].fd = thread[t].fd /\ thread'[t].generation = thread[t].generation
      /\ \/ EndOfStream(t) /\ thread'[t].pc = "drop" /\ stream' = stream
         \/ /\ ~EndOfStream(t) /\ stream[Behind(t)] # <<>>
            /\ HeaderRead(t, stream[Behind(t)][1])
  BY HeaderShared
<1>2. /\ thread[t].pc = "header"
      /\ UNCHANGED <<ipcFd, generation, up, sent, got, pointer, captured>>
  BY DEF ReadHeader, At, socket, history
<1>3. /\ thread[t].fd = ipcFd /\ thread[t].generation = generation /\ ipcFd # NoFd
      /\ Behind(t) = g /\ g \in Connections
  BY <1>0, <1>1, NewestBehind
<1>4. generation <= generation /\ generation \in 0..MaxGeneration /\ Shapes
  BY BoundsAssumption DEF SharedOK, Shapes
<1>5. CASE stream' = stream /\ thread'[t].pc = "drop"
  BY <1>1, <1>2, <1>3, <1>4, <1>5, QuietTurn
<1>6. CASE s # <<>> /\ HeaderRead(t, s[1])
  <2>1. \A r \in Threads : ~Reads(r, g)
    BY <1>2 DEF Reads, At
  <2>2. /\ StreamOK(g) /\ s \in Seq(StreamUnit) /\ sent[g] \in Nat /\ WellSent(s, sent[g])
        /\ Len(got[g]) \in Nat
    BY <1>3, NextUnit DEF TurnsOK
  <2>3. s[1].part = "header" /\ s[1].of.n = Len(got[g]) + 1
    BY <1>6, <2>1, <2>2 DEF StreamOK, Starts
  <2>4. /\ thread'[t].from = g /\ thread'[t].msg = s[1].of
        /\ stream' = [stream EXCEPT ![g] = Tail(@)]
        /\ thread'[t].pc = IF s[1].of.kind = "text" THEN "payload" ELSE "dispatch"
    BY <1>3, <1>6, <2>3 DEF HeaderRead
  <2>5. thread'[t].msg \in Message /\ thread'[t].msg # Garbage
    <3>1. s[1] \in StreamUnit
      BY <1>6, <2>2, HeadTailProperties
    <3>2. QED
      BY <2>4, <3>1, GarbageAssumption DEF StreamUnit, Message
  <2>6. \A r \in Threads : TurnOK(r)'
    BY <1>0, <1>1, <1>2, <1>3, <2>4, <2>5, TurnKept
  <2>7. ASSUME NEW c \in Connections, c # g PROVE StreamOK(c)'
    <3>1. \A r \in Threads : thread'[r] = thread[r] \/ (~Reads(r, c) /\ ~Reads(r, c)')
      BY <1>1, <1>2, <2>4, <2>7 DEF Reads, At
    <3>2. stream'[c] = stream[c] /\ StreamOK(c)
      BY <1>4, <2>4, <2>7 DEF Shapes, TurnsOK
    <3>3. QED
      BY <1>2, <1>4, <3>1, <3>2, StreamKept
  <2>8. StreamOK(g)'
    <3>1. /\ WellSent(Tail(s), sent[g])
          /\ OpensText(s[1]) => /\ Tail(s) # <<>>
                                /\ Tail(s)[1] = [part |-> "payload", of |-> s[1].of]
          /\ ~OpensText(s[1]) => Starts(Tail(s), s[1].of.n, sent[g])
      BY <1>6, <2>2, FrontRead
    <3>2. stream'[g] = Tail(s)
      BY <1>3, <1>4, <2>4 DEF Shapes
    <3>3. ~(g > generation)
      BY <1>0, <1>4
    <3>4. \A r \in Threads : Reads(r, g)' <=> r = t
      BY <1>1, <1>2, <2>4 DEF Reads, At
    <3>5. /\ thread'[t].msg.n = Len(got[g]) + 1
          /\ thread'[t].pc = "payload" =>
                /\ stream'[g] # <<>>
                /\ stream'[g][1] = [part |-> "payload", of |-> thread'[t].msg]
          /\ thread'[t].pc = "dispatch" => Starts(stream'[g], Len(got[g]) + 1, sent[g])
      BY <2>3, <2>4, <3>1, <3>2 DEF OpensText
    <3>6. Whole(got[g]) /\ WellSent(stream'[g], sent[g])
      BY <2>2, <3>1, <3>2 DEF StreamOK
    <3> HIDE DEF s
    <3>7. QED
      BY <1>2, <3>3, <3>4, <3>5, <3>6 DEF StreamOK, At
  <2>9. \A c \in Connections : StreamOK(c)'
    BY <2>7, <2>8
  <2>10. QED
    BY <1>2, <2>6, <2>9 DEF TurnsOK, PointerOK
<1>7. QED
  BY <1>1, <1>3, <1>5, <1>6

(* The payload of the record is read. *)
LEMMA PayloadTurn ==
    ASSUME SharedOK, TurnsOK, NEW t \in Threads, ReadPayload(t),
           \A r \in Threads : r # t => At(r, "idle")
    PROVE  TurnsOK'
<1>0. PICK g \in Connections : g = generation
  BY NewestBehind DEF ReadPayload, At
<1> DEFINE s == stream[g]
           m == thread[t].msg
<1>1. /\ thread[t].pc = "payload" /\ At(t, "payload") /\ ~At(t, "idle")
      /\ UNCHANGED <<ipcFd, generation, up, sent, got, pointer, captured>>
  BY DEF ReadPayload, At, socket, history
<1>2. /\ thread[t].fd = ipcFd /\ thread[t].generation = generation /\ ipcFd # NoFd
      /\ Behind(t) = g /\ g # 0
  BY <1>0, <1>1, NewestBehind
<1>3. thread[t].from = g /\ m # Garbage /\ Reads(t, g)
  BY <1>0, <1>1 DEF TurnsOK, TurnOK, Reads
<1>4. /\ StreamOK(g) /\ s \in Seq(StreamUnit) /\ sent[g] \in Nat /\ WellSent(s, sent[g])
      /\ Len(got[g]) \in Nat
  BY NextUnit DEF TurnsOK
<1>5. s # <<>> /\ s[1] = [part |-> "payload", of |-> m] /\ m.n = Len(got[g]) + 1
  BY <1>1, <1>3, <1>4 DEF StreamOK
<1>6. /\ SharedOK' /\ \A r \in Threads : r # t => thread'[r] = thread[r]
      /\ thread'[t].fd = thread[t].fd /\ thread'[t].generation = thread[t].generation
      /\ stream' = [stream EXCEPT ![g] = Tail(@)]
      /\ thread'[t].pc = "dispatch" /\ thread'[t].from = g /\ thread'[t].msg = m
  <2>1. ~EndOfStream(t)
    BY <1>2, <1>5 DEF EndOfStream
  <2>2. QED
    BY <1>2, <1>3, <1>5, <2>1, PayloadShared
<1>7. generation <= generation /\ generation \in 0..MaxGeneration /\ Shapes
  BY BoundsAssumption DEF SharedOK, Shapes
<1>8. \A r \in Threads : TurnOK(r)'
  BY <1>0, <1>1, <1>2, <1>3, <1>6, TurnKept
<1>9. ASSUME NEW c \in Connections, c # g PROVE StreamOK(c)'
  <2>1. \A r \in Threads : thread'[r] = thread[r] \/ (~Reads(r, c) /\ ~Reads(r, c)')
    BY <1>3, <1>6, <1>9 DEF Reads, At
  <2>2. stream'[c] = stream[c] /\ StreamOK(c)
    BY <1>6, <1>7, <1>9 DEF Shapes, TurnsOK
  <2>3. QED
    BY <1>1, <1>7, <2>1, <2>2, StreamKept
<1>10. StreamOK(g)'
  <2>1. ~OpensText(s[1]) /\ s[1].of = m
    BY <1>5 DEF OpensText
  <2>2. WellSent(Tail(s), sent[g]) /\ Starts(Tail(s), Len(got[g]) + 1, sent[g])
    BY <1>4, <1>5, <2>1, FrontRead
  <2>3. stream'[g] = Tail(s)
    BY <1>6, <1>7 DEF Shapes
  <2>4. ~(g > generation) /\ Whole(got[g])
    BY <1>0, <1>4, <1>7 DEF StreamOK
  <2>5. \A r \in Threads : Reads(r, g)' <=> r = t
    BY <1>6 DEF Reads, At
  <2> HIDE DEF s, m
  <2>6. thread'[t].msg.n = Len(got[g]) + 1 /\ thread'[t].pc = "dispatch"
    BY <1>5, <1>6
  <2>7. QED
    BY <1>1, <2>2, <2>3, <2>4, <2>5, <2>6 DEF StreamOK, At
<1>11. \A c \in Connections : StreamOK(c)'
  BY <1>9, <1>10
<1>12. QED
  BY <1>1, <1>8, <1>11 DEF TurnsOK, PointerOK

(* The record is dispatched as the next one of its connection. *)
LEMMA DispatchTurn ==
    ASSUME SharedOK, TurnsOK, NEW t \in Threads, Dispatch(t),
           \A r \in Threads : r # t => At(r, "idle")
    PROVE  TurnsOK'
<1>0. PICK g \in Connections : g = generation
  BY NewestBehind DEF Dispatch, At
<1> DEFINE m == thread[t].msg
<1>1. /\ thread[t].pc = "dispatch" /\ At(t, "dispatch") /\ ~At(t, "idle")
      /\ UNCHANGED <<ipcFd, generation, up, stream, sent>>
      /\ got' = [got EXCEPT ![thread[t].from] = Append(@, m)]
  BY DEF Dispatch, At, socket
<1>2. thread[t].from = g /\ thread[t].generation = g /\ m # Garbage /\ Reads(t, g)
  BY <1>0, <1>1 DEF TurnsOK, TurnOK, Reads
<1>3. /\ StreamOK(g) /\ got[g] \in Seq(Message \cup {Garbage}) /\ Len(got[g]) \in Nat
  BY NextUnit DEF TurnsOK
<1>4. m.n = Len(got[g]) + 1 /\ Starts(stream[g], Len(got[g]) + 1, sent[g])
  <2>1. \A r \in Threads : Reads(r, g) =>
          /\ thread[r].msg.n = Len(got[g]) + 1
          /\ At(r, "dispatch") => Starts(stream[g], Len(got[g]) + 1, sent[g])
    BY <1>3 DEF StreamOK
  <2>2. QED
    BY <1>1, <1>2, <2>1
<1>5. /\ SharedOK' /\ \A r \in Threads : r # t => thread'[r] = thread[r]
      /\ thread'[t].pc = "idle"
  BY DispatchShared
<1>6. /\ generation <= generation /\ generation \in 0..MaxGeneration /\ Shapes
      /\ m \in Message \cup {Garbage}
  <2>1. Shapes
    BY DEF SharedOK
  <2>2. thread[t] \in ThreadRecord /\ generation \in 0..MaxGeneration
    BY <2>1 DEF Shapes
  <2>3. QED
    BY <2>1, <2>2, BoundsAssumption DEF ThreadRecord
<1>7. \A r \in Threads : TurnOK(r)'
  BY <1>5, TurnKept
<1>8. ASSUME NEW c \in Connections, c # g PROVE StreamOK(c)'
  <2>1. \A r \in Threads : thread'[r] = thread[r] \/ (~Reads(r, c) /\ ~Reads(r, c)')
    BY <1>2, <1>5, <1>8 DEF Reads, At
  <2>2. got'[c] = got[c] /\ StreamOK(c)
    BY <1>1, <1>2, <1>6, <1>8 DEF Shapes, TurnsOK
  <2>3. QED
    BY <1>1, <1>6, <2>1, <2>2, StreamKept
<1>9. StreamOK(g)'
  <2> DEFINE q == Append(got[g], m)
  <2> HIDE DEF m
  <2>1. got'[g] = q
    BY <1>1, <1>2, <1>6 DEF Shapes
  <2>2. /\ Len(q) = Len(got[g]) + 1 /\ q[Len(got[g]) + 1] = m
        /\ \A i \in 1..Len(got[g]) : q[i] = got[g][i]
    BY <1>3, <1>6, AppendProperties
  <2> HIDE DEF q
  <2>3. Whole(q)
    <3>1. Whole(got[g])
      BY <1>3 DEF StreamOK
    <3>2. ASSUME NEW i \in 1..(Len(got[g]) + 1) PROVE q[i] # Garbage /\ q[i].n = i
      <4>1. CASE i = Len(got[g]) + 1
        BY <1>2, <1>4, <2>2, <4>1 DEF m
      <4>2. CASE i \in 1..Len(got[g])
        BY <2>2, <3>1, <4>2 DEF Whole
      <4>3. QED
        BY <1>3, <4>1, <4>2
    <3>3. QED
      BY <2>2, <3>2 DEF Whole
  <2>4. ~(g > generation) /\ WellSent(stream[g], sent[g])
    BY <1>0, <1>3, <1>6 DEF StreamOK
  <2>5. \A r \in Threads : ~Reads(r, g)'
    BY <1>5 DEF Reads, At
  <2>6. QED
    BY <1>1, <1>4, <2>1, <2>2, <2>3, <2>4, <2>5 DEF StreamOK
<1>10. \A c \in Connections : StreamOK(c)'
  BY <1>8, <1>9
<1>11. PointerOK'
  <2>1. PointerOK
    BY DEF TurnsOK
  <2>2. CASE UNCHANGED <<pointer, captured>>
    BY <2>1, <2>2 DEF PointerOK
  <2>3. CASE ~IsText(m) /\ PointerEvent(t)
    <3>1. \A p \in captured' : p[1] = p[2]
      BY <1>2, <2>1, <2>3 DEF PointerEvent, PointerOK, Captures
    <3>2. m.kind \in {"down", "up", "move"}
      BY <1>6, <2>3, PointerKinds
    <3>3. pointer \in [down : BOOLEAN, generation : 0..MaxGeneration, from : 0..MaxGeneration]
      BY <1>6 DEF Shapes
    <3>4. CASE m.kind = "down"
      <4>1. pointer' = [down |-> TRUE, from |-> thread[t].from,
                        generation |-> thread[t].generation]
        BY <2>3, <3>4 DEF PointerEvent
      <4>2. QED
        BY <1>2, <3>1, <4>1 DEF PointerOK
    <3>5. CASE m.kind = "up"
      <4>1. pointer' = [pointer EXCEPT !.down = FALSE]
        BY <2>3, <3>5 DEF PointerEvent
      <4>2. pointer'.down = FALSE
        BY <3>3, <4>1
      <4>3. QED
        BY <3>1, <4>2 DEF PointerOK
    <3>6. CASE m.kind = "move"
      <4>1. pointer' = pointer
        BY <2>3, <3>6 DEF PointerEvent
      <4>2. QED
        BY <2>1, <3>1, <4>1 DEF PointerOK
    <3>7. QED
      BY <3>2, <3>4, <3>5, <3>6
  <2>4. QED
    BY <2>2, <2>3 DEF Dispatch
<1>12. QED
  BY <1>7, <1>10, <1>11 DEF TurnsOK

(* The host ends a connection, or sends one more record. *)
LEMMA HostTurn ==
    ASSUME SharedOK, TurnsOK, NEW c \in Connections,
           HostEnds(c) \/ \E k \in Kinds : HostSends(c, k)
    PROVE  TurnsOK'
<1>1. /\ UNCHANGED <<ipcFd, generation, thread, pointer, got, captured>> /\ up[c]
  BY DEF HostEnds, HostSends, socket, history
<1>2. /\ Shapes /\ generation \in 0..MaxGeneration /\ generation <= generation
  BY BoundsAssumption DEF SharedOK, Shapes
<1>3. (\A t \in Threads : TurnOK(t)') /\ PointerOK'
  BY <1>1 DEF TurnsOK, TurnOK, PointerOK, At
<1>4. ASSUME NEW d \in Connections, stream'[d] = stream[d], sent'[d] = sent[d],
             up'[d] = up[d] \/ ~up'[d]
      PROVE  StreamOK(d)'
  BY <1>1, <1>2, <1>4, StreamKept DEF TurnsOK
<1>5. \A d \in Connections : StreamOK(d)'
  <2>1. CASE HostEnds(c)
    BY <1>2, <1>4, <2>1 DEF HostEnds, Shapes, history
  <2>2. ASSUME NEW k \in Kinds, HostSends(c, k) PROVE \A d \in Connections : StreamOK(d)'
    <3> DEFINE s == stream[c]
               q == Written(s, k, sent[c])
    <3>1. /\ StreamOK(c) /\ s \in Seq(StreamUnit) /\ sent[c] \in Nat /\ WellSent(s, sent[c])
          /\ Len(got[c]) \in Nat
      BY NextUnit DEF TurnsOK
    <3>2. /\ stream' = [stream EXCEPT ![c] = q] /\ up' = up
          /\ sent' = [sent EXCEPT ![c] = @ + 1]
      BY <2>2 DEF HostSends, Written
    <3>3. /\ WellSent(q, sent[c] + 1) /\ q # <<>>
          /\ s # <<>> => q[1] = s[1]
          /\ s = <<>> => q[1].part = "header" /\ q[1].of.n = sent[c] + 1
      BY <3>1, BackWritten
    <3> HIDE DEF q
    <3>4. /\ stream'[c] = q /\ sent'[c] = sent[c] + 1
          /\ \A d \in Connections : d # c => stream'[d] = stream[d] /\ sent'[d] = sent[d]
      BY <1>2, <3>2 DEF Shapes
    <3>5. ~(c > generation) /\ Whole(got[c])
      BY <1>1, <3>1 DEF StreamOK
    <3>6. ASSUME NEW j \in Nat, Starts(s, j, sent[c]) PROVE Starts(q, j, sent[c] + 1)
      BY <3>1, <3>3, <3>6 DEF Starts
    <3>7. (\A t \in Threads : ~Reads(t, c)) => Starts(q, Len(got[c]), sent[c] + 1)
      BY <3>1, <3>6 DEF StreamOK
    <3>8. ASSUME NEW t \in Threads, Reads(t, c)
          PROVE  /\ thread[t].msg.n = Len(got[c]) + 1
                 /\ At(t, "payload") =>
                       q # <<>> /\ q[1] = [part |-> "payload", of |-> thread[t].msg]
                 /\ At(t, "dispatch") => Starts(q, Len(got[c]) + 1, sent[c] + 1)
      <4>1. /\ thread[t].msg.n = Len(got[c]) + 1
            /\ At(t, "payload") => s # <<>> /\ s[1] = [part |-> "payload", of |-> thread[t].msg]
            /\ At(t, "dispatch") => Starts(s, Len(got[c]) + 1, sent[c])
        BY <3>1, <3>8 DEF StreamOK
      <4>2. Len(got[c]) + 1 \in Nat
        BY <3>1
      <4>3. QED
        BY <3>3, <3>6, <4>1, <4>2
    <3> HIDE DEF s
    <3>9. \A t \in Threads : /\ Reads(t, c)' <=> Reads(t, c)
                             /\ At(t, "payload")' <=> At(t, "payload")
                             /\ At(t, "dispatch")' <=> At(t, "dispatch")
      BY <1>1 DEF Reads, At
    <3>10. StreamOK(c)'
      <4>1. (\A t \in Threads : ~Reads(t, c)') => Starts(q, Len(got[c]), sent[c] + 1)
        BY <3>7, <3>9
      <4>2. ASSUME NEW t \in Threads, Reads(t, c)'
            PROVE  /\ thread[t].msg.n = Len(got[c]) + 1
                   /\ At(t, "payload")' =>
                         q # <<>> /\ q[1] = [part |-> "payload", of |-> thread[t].msg]
                   /\ At(t, "dispatch")' => Starts(q, Len(got[c]) + 1, sent[c] + 1)
        BY <3>8, <3>9, <4>2
      <4>3. QED
        BY <1>1, <3>3, <3>4, <3>5, <4>1, <4>2 DEF StreamOK
    <3>11. QED
      BY <1>4, <3>2, <3>4, <3>10
  <2>3. QED
    BY <2>1, <2>2
<1>6. QED
  BY <1>3, <1>5 DEF TurnsOK

(* A thread that draws connects or disconnects while no thread is inside the loop. *)
LEMMA PaintsTurn ==
    ASSUME SharedOK, TurnsOK, PaintsOn, \A r \in Threads : At(r, "idle")
    PROVE  TurnsOK'
<1>1. UNCHANGED <<stream, thread, pointer, sent, got, captured>>
  BY DEF PaintsOn, history
<1>2. Shapes /\ generation \in Nat /\ generation \in 0..MaxGeneration
  BY BoundsAssumption DEF SharedOK, Shapes
<1>3. /\ generation <= generation' /\ generation' \in 0..MaxGeneration
      /\ \A c \in Connections : c > generation' => up'[c] = up[c]
  <2>1. CASE Connect
    <3>1. /\ generation' = generation + 1 /\ up' = [up EXCEPT ![generation'] = TRUE]
          /\ generation' \in 0..MaxGeneration
      BY <1>2, <2>1, Connects
    <3>2. ASSUME NEW c \in Connections, c > generation' PROVE c # generation'
      BY <1>2, <3>1, <3>2 DEF Connections
    <3>3. ASSUME NEW c \in Connections, c > generation' PROVE up'[c] = up[c]
      BY <1>2, <3>1, <3>2, <3>3 DEF Shapes
    <3>4. generation <= generation'
      BY <1>2, <3>1
    <3>5. QED
      BY <3>1, <3>3, <3>4
  <2>2. CASE Disconnect /\ UNCHANGED up
    BY <1>2, <2>2 DEF Disconnect
  <2>3. QED
    BY <2>1, <2>2 DEF PaintsOn
<1>4. (\A r \in Threads : TurnOK(r)') /\ PointerOK'
  BY <1>1 DEF TurnsOK, TurnOK, PointerOK, At
<1>5. \A c \in Connections : StreamOK(c)'
  BY <1>1, <1>2, <1>3, StreamKept DEF TurnsOK
<1>6. QED
  BY <1>4, <1>5 DEF TurnsOK

-----------------------------------------------------------------------------
(* The invariant holds when the process starts. *)
LEMMA InitOK == Init => InputOK
<1> SUFFICES ASSUME Init PROVE InputOK
  OBVIOUS
<1>1. Idle \in ThreadRecord /\ Idle.pc = "idle" /\ Idle.handle = 0
  BY BoundsAssumption DEF Idle, ThreadRecord, PC
<1>2. 0 \in 0..MaxGeneration /\ NoFd \in Numbers \cup {NoFd} /\ 0 \in Nat /\ FALSE \in BOOLEAN
  BY BoundsAssumption
<1>3. \A S : <<>> \in Seq(S)
  BY EmptySeq
<1>4. pointer \in [down : BOOLEAN, generation : 0..MaxGeneration, from : 0..MaxGeneration]
  BY <1>2 DEF Init
<1>5. thread \in [Threads -> ThreadRecord] /\ \A t \in Threads : thread[t] = Idle
  BY <1>1 DEF Init
<1>6. Shapes
  BY <1>2, <1>3, <1>4, <1>5 DEF Init, Shapes
<1>7. SocketOK /\ \A t \in Threads : RegistrationOK(t)
  BY <1>1, <1>5 DEF Init, SocketOK, RegistrationOK, At
<1>8. \A t \in Threads : TurnOK(t)
  BY <1>1, <1>5 DEF TurnOK, At
<1>9. ASSUME NEW c \in Connections PROVE StreamOK(c)
  <2>1. stream[c] = <<>> /\ got[c] = <<>> /\ sent[c] = 0 /\ up[c] = FALSE
    BY DEF Init
  <2>2. Len(<<>>) = 0
    OBVIOUS
  <2>3. Whole(<<>>) /\ WellSent(<<>>, 0) /\ Starts(<<>>, 0, 0)
    BY <2>2 DEF Whole, WellSent, Starts
  <2>4. \A t \in Threads : ~Reads(t, c)
    BY <1>1, <1>5 DEF Reads, At
  <2>5. QED
    BY <2>1, <2>2, <2>3, <2>4 DEF StreamOK
<1>10. PointerOK
  BY DEF Init, PointerOK
<1>11. QED
  BY <1>6, <1>7, <1>8, <1>9, <1>10 DEF InputOK, SharedOK, SequentialOK, TurnsOK

(* Every step keeps the invariant. *)
LEMMA StepOK == InputOK /\ [Next]_vars => InputOK'
<1> SUFFICES ASSUME InputOK, [Next]_vars PROVE InputOK'
  OBVIOUS
<1>1. SharedOK /\ SharedOK'
  BY SharedStep DEF InputOK
<1>2. CASE UNCHANGED vars
  BY <1>1, <1>2 DEF InputOK, SequentialOK, TurnsOK, TurnOK, StreamOK, PointerOK, Reads, At,
     vars, socket, history
<1>3. CASE Next
  <2>1. CASE concurrent
    BY <1>1, <1>3, <2>1 DEF Next, InputOK, SequentialOK
  <2>2. CASE ~concurrent
    <3>1. TurnsOK
      BY <2>2 DEF InputOK, SequentialOK
    <3>2. ASSUME NEW t \in Threads, Turn(Threads \ {t}), ThreadStep(t) PROVE TurnsOK'
      <4>1. \A r \in Threads : r # t => At(r, "idle")
        BY <2>2, <3>2 DEF Turn
      <4>2. QED
        BY <1>1, <3>1, <3>2, <4>1, SnapshotTurn, RegisterTurn, PeekTurn, HeaderTurn,
           PayloadTurn, DispatchTurn, DropTurn DEF ThreadStep
    <3>3. ASSUME Turn(Threads), PaintsOn PROVE TurnsOK'
      <4>1. \A r \in Threads : At(r, "idle")
        BY <2>2, <3>3 DEF Turn
      <4>2. QED
        BY <1>1, <3>1, <3>3, <4>1, PaintsTurn
    <3>4. QED
      <4>1. ASSUME NEW c \in Connections, HostEnds(c) \/ \E k \in Kinds : HostSends(c, k)
            PROVE  TurnsOK'
        BY <1>1, <3>1, <4>1, HostTurn
      <4>2. TurnsOK'
        BY <1>3, <3>2, <3>3, <4>1 DEF Next
      <4>3. QED
        BY <1>1, <4>2 DEF InputOK, SequentialOK
  <2>3. QED
    BY <2>1, <2>2
<1>4. QED
  BY <1>2, <1>3

LEMMA InputOKAlways == Spec => []InputOK
BY InitOK, StepOK, PTL DEF Spec

-----------------------------------------------------------------------------
(* However the GUI threads interleave, a thread that believes its queue registered for
   the socket in use is woken by that socket (ios_ipc_register_queue). *)
THEOREM QueuesAreWoken == Spec => []RegisteredQueueIsWoken
<1>1. InputOK => RegisteredQueueIsWoken
  BY DEF InputOK, SharedOK, RegistrationOK, RegisteredQueueIsWoken
<1>2. QED
  BY <1>1, InputOKAlways, PTL

(* While the GUI threads take turns, every record is dispatched whole, once and in the
   order sent, and a drag captures no event of a later connection. *)
THEOREM DispatchIsFaithful == Spec => []DispatchFollowsTheStream
<1>1. InputOK => DispatchFollowsTheStream
  BY DEF InputOK, SequentialOK, TurnsOK, StreamOK, PointerOK, Whole,
     DispatchFollowsTheStream
<1>2. QED
  BY <1>1, InputOKAlways, PTL

(* disconnect_ipc_fd never closes a newer connection that has come to have the number of
   the one the thread took its snapshot of, however the threads interleave. *)
THEOREM ReadersSpareNewSockets == Spec => OldReaderSparesNewSocket
<1> DEFINE Spared(t) ==
      At(t, "drop") /\ ~At(t, "drop")' /\ ipcFd # NoFd /\ ipcFd' = NoFd
      => generation = thread[t].generation
<1>1. ASSUME InputOK, [Next]_vars, NEW t \in Threads PROVE Spared(t)
  <2>0. SharedOK
    BY <1>1 DEF InputOK
  <2>1. CASE thread'[t] = thread[t]
    BY <2>1 DEF At
  <2>2. CASE Drop(t)
    BY <2>2 DEF Drop, socket
  <2>3. CASE ThreadStep(t) /\ ~Drop(t)
    BY <2>3 DEF ThreadStep, Snapshot, RegisterQueue, SetQueueFd, ConfirmQueue, Peek,
       ReadHeader, ReadPayload, Dispatch, At
  <2>4. ASSUME NEW r \in Threads, r # t, ThreadStep(r) PROVE thread'[t] = thread[t]
    BY <2>0, <2>4, SnapshotShared, RegisterShared, PeekShared, HeaderShared, PayloadShared,
       DispatchShared, DropShared DEF ThreadStep
  <2>5. CASE UNCHANGED thread
    BY <2>1, <2>5
  <2>6. QED
    BY <1>1, <2>1, <2>2, <2>3, <2>4, <2>5 DEF Next, HostEnds, HostSends, PaintsOn, vars
<1>2. InputOK /\ [Next]_vars => [\A t \in Threads : Spared(t)]_vars
  BY <1>1
<1>3. QED
  BY <1>2, InputOKAlways, PTL DEF Spec, OldReaderSparesNewSocket

-----------------------------------------------------------------------------
(* The host's routing of input.  The stacking order is not part of the invariant:
   whichever of the given windows it puts on top, the routes stay coherent. *)

(* The topmost of some windows is one of them, or there is none. *)
LEMMA TopmostIsOneOfThem ==
    ASSUME NEW hs
    PROVE  Topmost(hs) \in hs \cup {None}
<1>1. CASE \E h \in hs : IsTopmost(h, hs)
  BY <1>1 DEF Topmost
<1>2. CASE ~ \E h \in hs : IsTopmost(h, hs)
  BY <1>2 DEF Topmost
<1>3. QED
  BY <1>1, <1>2

(* The window a pointer event goes to is drawable, so it is tracked. *)
LEMMA TargetIsTracked ==
    ASSUME NEW press, NEW under
    PROVE  Target(press, under) \in Drawable \cup {None}
<1>1. Topmost(under \cap Drawable) \in (under \cap Drawable) \cup {None}
  BY TopmostIsOneOfThem
<1>2. QED
  BY <1>1 DEF Target

(* What a composite selects is drawable too. *)
LEMMA SelectionIsDrawable ==
    ASSUME NEW shown, shown \subseteq Drawable
    PROVE  (IF canvas \in Drawable THEN canvas ELSE Topmost(shown))
               \in Drawable \cup {None}
<1>1. Topmost(shown) \in shown \cup {None}
  BY TopmostIsOneOfThem
<1>2. QED
  BY <1>1

(* A tracked window's state has an owner field. *)
LEMMA TrackedState ==
    ASSUME RoutesOK, NEW h \in Tracked
    PROVE  h \in Hwnds /\ windows[h] \in WindowState /\ windows[h].fd \in Fds \cup {None}
BY DEF RoutesOK, Tracked, WindowState

-----------------------------------------------------------------------------
(* Every step keeps the types of the routes. *)
LEMMA RoutesOKStep ==
    ASSUME RoutesOK, [RoutingNext]_routingVars
    PROVE  RoutesOK'
<1> USE NoneAssumption
<1>1. ASSUME NEW fd \in Fds, Accept(fd) \/ ReaderEnds(fd) \/ Close(fd)
      PROVE  RoutesOK'
  BY <1>1 DEF Accept, ReaderEnds, Close, RoutesOK, Connection, routes, screen
<1>2. ASSUME NEW fd \in Fds, RemoveWindowsForClient(fd)
      PROVE  RoutesOK'
  BY <1>2 DEF RemoveWindowsForClient, RoutesOK, Connection, screen, WindowState, Tracked,
              Capture, NoCapture
<1>3. ASSUME NEW fd \in Fds, NEW h \in Hwnds, PresentFrame(fd, h)
      PROVE  RoutesOK'
  <2>1. windows' \in [Hwnds -> WindowState \cup {None}]
    BY <1>3 DEF PresentFrame, RoutesOK, WindowState
  <2>2. legacy' \in Capture
    BY <1>3 DEF PresentFrame, Capture
  <2>3. scheduled' \in BOOLEAN
    BY <1>3 DEF PresentFrame, RequestComposite
  <2>4. QED
    BY <1>3, <2>1, <2>2, <2>3 DEF PresentFrame, RoutesOK
<1>4. ASSUME NEW fd \in Fds, NEW h \in Hwnds, DestroyWindow(fd, h)
      PROVE  RoutesOK'
  BY <1>4 DEF DestroyWindow, RoutesOK, RequestComposite, Capture, NoCapture
<1>5. ASSUME NEW fd \in Fds, NEW h \in Hwnds, NEW v \in BOOLEAN, UpdateWindow(fd, h, v)
      PROVE  RoutesOK'
  <2>1. windows' \in [Hwnds -> WindowState \cup {None}]
    BY <1>5 DEF UpdateWindow, RoutesOK, WindowState
  <2>2. input' \in Capture
    BY <1>5 DEF UpdateWindow, RoutesOK, Capture, NoCapture
  <2>3. scheduled' \in BOOLEAN
    BY <1>5 DEF UpdateWindow, RequestComposite
  <2>4. QED
    BY <1>5, <2>1, <2>2, <2>3 DEF UpdateWindow, RoutesOK
<1>6. ASSUME NEW hs \in SUBSET Hwnds, PruneWindows(hs)
      PROVE  RoutesOK'
  BY <1>6 DEF PruneWindows, RoutesOK, RequestComposite, routes
<1>7. ASSUME NEW hs \in SUBSET Hwnds, RenderComposite(hs)
      PROVE  RoutesOK'
  <2> DEFINE kept == IF input = NoCapture THEN None ELSE locked
             selected == IF canvas \in Drawable THEN canvas ELSE Topmost(hs)
  <2>1. selected \in Drawable \cup {None}
    BY <1>7, SelectionIsDrawable DEF RenderComposite
  <2>2. selected # None => windows[selected].fd \in Fds \cup {None}
    BY <2>1, TrackedState DEF Drawable
  <2>3. selected \in Hwnds \cup {None}
    BY <2>1 DEF Drawable, Tracked
  <2>4. CASE multi
    <3>1. /\ locked' = kept /\ canvas' = selected
          /\ viewport' = IF kept = None THEN hs ELSE kept
          /\ active' = IF selected = None THEN None ELSE windows[selected].fd
          /\ scheduled' = FALSE
          /\ UNCHANGED <<conn, windows, multi, input, legacy>>
      BY <1>7, <2>4 DEF RenderComposite
    <3>2. kept \in (SUBSET Hwnds) \cup {None}
      BY DEF RoutesOK
    <3> HIDE DEF kept, selected
    <3>3. QED
      BY <2>2, <2>3, <3>1, <3>2 DEF RoutesOK
  <2>5. CASE ~multi
    BY <1>7, <2>5 DEF RenderComposite, RoutesOK
  <2>6. QED
    BY <2>4, <2>5
<1>8. ASSUME NEW hs \in SUBSET Hwnds, PointerDown(hs)
      PROVE  RoutesOK'
  <2> DEFINE target == Target(TRUE, hs)
  <2>1. target \in Drawable \cup {None}
    BY TargetIsTracked
  <2>2. target # None => target \in Hwnds /\ windows[target].fd \in Fds \cup {None}
    BY <2>1, TrackedState DEF Drawable
  <2>3. /\ locked' = IF locked = None THEN viewport ELSE locked
        /\ \/ /\ target # None /\ windows[target].fd # None
              /\ input' = [fd |-> windows[target].fd, hwnd |-> target]
              /\ canvas' = target /\ active' = windows[target].fd
           \/ UNCHANGED <<input, canvas, active>>
        /\ UNCHANGED <<conn, windows, order, multi, legacy, viewport, scheduled>>
    BY <1>8 DEF PointerDown
  <2> HIDE DEF target
  <2>4. QED
    BY <2>2, <2>3 DEF RoutesOK, Capture
<1>9. ASSUME NEW hs \in SUBSET Hwnds, PointerUp(hs)
      PROVE  RoutesOK'
  BY <1>9 DEF PointerUp, RoutesOK, RequestComposite, Capture, NoCapture
<1>10. CASE ApplyMultiWindow
  <2>1. legacy.fd \in Fds \cup {None} /\ legacy.hwnd \in Hwnds \cup {None}
    BY DEF RoutesOK, Capture
  <2>2. multi' \in BOOLEAN /\ scheduled' \in BOOLEAN
    BY <1>10 DEF ApplyMultiWindow, RoutesOK
  <2>3. canvas' \in Hwnds \cup {None} /\ active' \in Fds \cup {None}
    BY <1>10, <2>1 DEF ApplyMultiWindow, RoutesOK
  <2>4. input' \in Capture
    BY <1>10 DEF ApplyMultiWindow, Capture, NoCapture
  <2>5. QED
    BY <1>10, <2>2, <2>3, <2>4 DEF ApplyMultiWindow, RoutesOK
<1>11. CASE MetalRedraw \/ EnteredBackground
  BY <1>11 DEF MetalRedraw, EnteredBackground, RoutesOK, RequestComposite, routes, screen,
               Capture, NoCapture
<1>12. CASE MemoryWarning
  BY <1>12 DEF MemoryWarning, RoutesOK, RequestComposite, routes, WindowState, Tracked
<1>13. CASE UNCHANGED routingVars
  BY <1>13 DEF routingVars, routes, screen, RoutesOK
<1>14. QED
  BY <1>1, <1>2, <1>3, <1>4, <1>5, <1>6, <1>7, <1>8, <1>9, <1>10, <1>11, <1>12, <1>13
     DEF RoutingNext

(* Capture, active client and windows have the types the code gives them,
   for any number of connections and windows. *)
THEOREM RoutesTyped == RoutingSpec => []RoutesOK
<1>1. RoutingInit => RoutesOK
  BY DEF RoutingInit, RoutesOK, Connection, Capture, NoCapture
<1>2. QED
  BY <1>1, RoutesOKStep, PTL DEF RoutingSpec

-----------------------------------------------------------------------------
(* A step that at most ends the capture. *)
LEMMA CaptureCleared ==
    ASSUME CaptureNamesAnOpenConnection, UNCHANGED <<conn, windows>>,
           input' = input \/ input' = NoCapture
    PROVE  CaptureNamesAnOpenConnection'
<1>1. NoCapture.fd = None
  BY DEF NoCapture
<1>2. input'.fd # None => input' = input
  BY <1>1
<1>3. QED
  BY <1>2 DEF CaptureNamesAnOpenConnection, Tracked

(* Every step keeps captures and windows on connections that are not torn
   down: teardown clears both, and nothing assigns a torn descriptor. *)
LEMMA CaptureStep ==
    ASSUME RoutesOK, CaptureNamesAnOpenConnection, [RoutingNext]_routingVars
    PROVE  CaptureNamesAnOpenConnection'
<1> USE NoneAssumption DEF CaptureNamesAnOpenConnection, Tracked
<1>1. ASSUME NEW fd \in Fds, Accept(fd) \/ ReaderEnds(fd) \/ Close(fd)
      PROVE  CaptureNamesAnOpenConnection'
  BY <1>1 DEF Accept, ReaderEnds, Close, RoutesOK, routes, screen, WindowState, Capture
<1>2. ASSUME NEW fd \in Fds, RemoveWindowsForClient(fd)
      PROVE  CaptureNamesAnOpenConnection'
  <2>1. input'.fd # None => input'.fd \in Fds \ {fd} /\ input' = input
    BY <1>2 DEF RemoveWindowsForClient, RoutesOK, Capture, NoCapture
  <2>2. ASSUME NEW h \in Hwnds, windows'[h] # None, windows'[h].fd # None
        PROVE  windows[h] # None /\ windows'[h].fd = windows[h].fd
               /\ windows[h].fd \in Fds \ {fd}
    BY <1>2, <2>2 DEF RemoveWindowsForClient, RoutesOK, WindowState
  <2>3. \A f \in Fds \ {fd} : conn'[f] = conn[f]
    BY <1>2 DEF RemoveWindowsForClient, RoutesOK
  <2>4. QED
    BY <2>1, <2>2, <2>3
<1>3. ASSUME NEW fd \in Fds, NEW h \in Hwnds, PresentFrame(fd, h)
      PROVE  CaptureNamesAnOpenConnection'
  BY <1>3 DEF PresentFrame, RoutesOK
<1>4. ASSUME NEW fd \in Fds, NEW h \in Hwnds, DestroyWindow(fd, h)
      PROVE  CaptureNamesAnOpenConnection'
  BY <1>4 DEF DestroyWindow, RoutesOK, NoCapture
<1>5. ASSUME NEW fd \in Fds, NEW h \in Hwnds, NEW v \in BOOLEAN, UpdateWindow(fd, h, v)
      PROVE  CaptureNamesAnOpenConnection'
  BY <1>5 DEF UpdateWindow, RoutesOK, NoCapture
<1>6. ASSUME NEW hs \in SUBSET Hwnds, PruneWindows(hs)
      PROVE  CaptureNamesAnOpenConnection'
  BY <1>6 DEF PruneWindows, RoutesOK, routes
<1>7. ASSUME NEW hs \in SUBSET Hwnds, RenderComposite(hs)
      PROVE  CaptureNamesAnOpenConnection'
  BY <1>7 DEF RenderComposite
<1>8. ASSUME NEW hs \in SUBSET Hwnds, PointerDown(hs)
      PROVE  CaptureNamesAnOpenConnection'
  <2> DEFINE target == Target(TRUE, hs)
  <2>1. target # None => target \in Hwnds /\ windows[target] # None
    BY TargetIsTracked DEF Drawable
  <2>2. /\ \/ /\ target # None /\ windows[target].fd # None
              /\ input' = [fd |-> windows[target].fd, hwnd |-> target]
           \/ UNCHANGED input
        /\ UNCHANGED <<conn, windows>>
    BY <1>8 DEF PointerDown
  <2> HIDE DEF target
  <2>3. QED
    BY <2>1, <2>2
<1>9. ASSUME NEW hs \in SUBSET Hwnds, PointerUp(hs)
      PROVE  CaptureNamesAnOpenConnection'
  BY <1>9, CaptureCleared DEF PointerUp
<1>10. CASE ApplyMultiWindow \/ MetalRedraw \/ EnteredBackground
  BY <1>10, CaptureCleared DEF ApplyMultiWindow, MetalRedraw, EnteredBackground, routes
<1>11. CASE MemoryWarning
  <2>1. \A h \in Hwnds : windows'[h] # None =>
          windows[h] # None /\ windows'[h].fd = windows[h].fd
    BY <1>11 DEF MemoryWarning, RoutesOK, WindowState
  <2>2. UNCHANGED <<conn, input>>
    BY <1>11 DEF MemoryWarning, routes
  <2>3. QED
    BY <2>1, <2>2
<1>12. CASE UNCHANGED routingVars
  BY <1>12 DEF routingVars, routes
<1>13. QED
  BY <1>1, <1>2, <1>3, <1>4, <1>5, <1>6, <1>7, <1>8, <1>9, <1>10, <1>11, <1>12 DEF RoutingNext

(* A drag or a window never names a descriptor whose teardown block has run,
   so none names a number that may be reused, for any number of connections. *)
THEOREM CaptureIsSafe == RoutingSpec => []CaptureNamesAnOpenConnection
<1>1. RoutingInit => CaptureNamesAnOpenConnection
  BY DEF RoutingInit, CaptureNamesAnOpenConnection, Tracked, NoCapture
<1>2. QED
  BY <1>1, RoutesTyped, CaptureStep, PTL DEF RoutingSpec

-----------------------------------------------------------------------------
(* The locked viewport stays the one on the screen: only a press locks it, and
   a composite that finds it locked draws it again. *)
THEOREM LockHoldsTheScreen == RoutingSpec => []LockedViewportIsOnScreen
<1>1. RoutingInit => LockedViewportIsOnScreen
  BY DEF RoutingInit, LockedViewportIsOnScreen
<1>2. LockedViewportIsOnScreen /\ [RoutingNext]_routingVars => LockedViewportIsOnScreen'
  <2> SUFFICES ASSUME LockedViewportIsOnScreen, [RoutingNext]_routingVars
               PROVE  LockedViewportIsOnScreen'
    OBVIOUS
  <2> USE DEF LockedViewportIsOnScreen
  <2>1. ASSUME NEW hs, PointerDown(hs) \/ PointerUp(hs)
        PROVE  LockedViewportIsOnScreen'
    BY <2>1 DEF PointerDown, PointerUp
  <2>2. ASSUME NEW hs, RenderComposite(hs)
        PROVE  LockedViewportIsOnScreen'
    BY <2>2 DEF RenderComposite
  <2>3. CASE UNCHANGED <<viewport, locked>>
    BY <2>3
  <2>4. QED
    BY <2>1, <2>2, <2>3 DEF RoutingNext, routingVars, screen, Accept, ReaderEnds, Close,
       RemoveWindowsForClient, PresentFrame, UpdateWindow, DestroyWindow, PruneWindows,
       ApplyMultiWindow, MetalRedraw, EnteredBackground, MemoryWarning
<1>3. QED
  BY <1>1, <1>2, PTL DEF RoutingSpec

-----------------------------------------------------------------------------
(* The inductive part of KeysFollowThePointer: the selected window is tracked
   and the active client is its owner. *)
Coherent ==
    multi /\ ~scheduled =>
        /\ canvas # None => canvas \in Tracked /\ active = windows[canvas].fd
        /\ canvas = None => active = None

(* A step after which a composite is due, or the single-window mode is on,
   owes nothing yet. *)
LEMMA CompositeDue ==
    ASSUME RequestComposite(TRUE), UNCHANGED multi
    PROVE  Coherent'
BY DEF RequestComposite, Coherent

(* Every step keeps selection and active client coherent: each handler that
   touches one of them alone also asks for a composite. *)
LEMMA CoherentStep ==
    ASSUME RoutesOK, Coherent, [RoutingNext]_routingVars
    PROVE  Coherent'
<1> USE NoneAssumption
<1>1. CASE UNCHANGED <<windows, multi, scheduled, canvas, active>>
  BY <1>1 DEF Coherent, Tracked
<1>2. ASSUME NEW fd \in Fds, RemoveWindowsForClient(fd)
      PROVE  Coherent'
  <2>1. ASSUME NEW h \in Hwnds, windows[h] # None
        PROVE  /\ windows'[h] # None
               /\ windows'[h].fd = IF windows[h].fd = fd THEN None ELSE windows[h].fd
    BY <1>2, <2>1 DEF RemoveWindowsForClient, RoutesOK, WindowState, Tracked
  <2>2. /\ UNCHANGED <<multi, scheduled, canvas>>
        /\ active' = IF active = fd THEN None ELSE active
    BY <1>2 DEF RemoveWindowsForClient, screen
  <2>3. canvas \in Hwnds \cup {None}
    BY DEF RoutesOK
  <2>4. QED
    BY <2>1, <2>2, <2>3 DEF Coherent, Tracked
<1>3. ASSUME NEW fd \in Fds, NEW h \in Hwnds,
             PresentFrame(fd, h) \/ DestroyWindow(fd, h)
      PROVE  Coherent'
  BY <1>3, CompositeDue DEF PresentFrame, DestroyWindow
<1>4. ASSUME NEW fd \in Fds, NEW h \in Hwnds, NEW v \in BOOLEAN, UpdateWindow(fd, h, v)
      PROVE  Coherent'
  BY <1>4, CompositeDue DEF UpdateWindow
<1>5. ASSUME NEW hs \in SUBSET Hwnds, PruneWindows(hs)
      PROVE  Coherent'
  BY <1>5, CompositeDue DEF PruneWindows
<1>6. ASSUME NEW hs \in SUBSET Hwnds, RenderComposite(hs)
      PROVE  Coherent'
  <2> DEFINE selected == IF canvas \in Drawable THEN canvas ELSE Topmost(hs)
  <2>1. selected \in Tracked \cup {None}
    BY <1>6, SelectionIsDrawable DEF RenderComposite, Drawable
  <2>2. multi => /\ canvas' = selected
                 /\ active' = IF selected = None THEN None ELSE windows[selected].fd
    BY <1>6 DEF RenderComposite
  <2>3. UNCHANGED <<windows, multi>>
    BY <1>6 DEF RenderComposite
  <2> HIDE DEF selected
  <2>4. QED
    BY <2>1, <2>2, <2>3 DEF Coherent, Tracked
<1>7. ASSUME NEW hs \in SUBSET Hwnds, PointerDown(hs)
      PROVE  Coherent'
  <2> DEFINE target == Target(TRUE, hs)
  <2>1. target # None => target \in Tracked
    BY TargetIsTracked DEF Drawable
  <2>2. /\ \/ /\ target # None
              /\ canvas' = target /\ active' = windows[target].fd
           \/ UNCHANGED <<canvas, active>>
        /\ UNCHANGED <<windows, multi, scheduled>>
    BY <1>7 DEF PointerDown
  <2> HIDE DEF target
  <2>3. QED
    BY <2>1, <2>2 DEF Coherent, Tracked
<1>8. ASSUME NEW hs \in SUBSET Hwnds, PointerUp(hs)
      PROVE  Coherent'
  BY <1>8, <1>1, CompositeDue DEF PointerUp
<1>9. CASE ApplyMultiWindow
  BY <1>9 DEF ApplyMultiWindow, Coherent
<1>10. CASE MetalRedraw
  BY <1>10, CompositeDue DEF MetalRedraw
<1>11. CASE MemoryWarning
  <2>1. ASSUME NEW h \in Hwnds, windows[h] # None
        PROVE  windows'[h] # None /\ windows'[h].fd = windows[h].fd
    BY <1>11, <2>1 DEF MemoryWarning, RoutesOK, WindowState, Tracked
  <2>2. UNCHANGED <<multi, canvas, active>> /\ (scheduled => scheduled')
    BY <1>11 DEF MemoryWarning, routes, RequestComposite
  <2>3. canvas \in Hwnds \cup {None}
    BY DEF RoutesOK
  <2>4. QED
    BY <2>1, <2>2, <2>3 DEF Coherent, Tracked
<1>12. QED
  BY <1>1, <1>2, <1>3, <1>4, <1>5, <1>6, <1>7, <1>8, <1>9, <1>10, <1>11
     DEF RoutingNext, routingVars, routes, screen, Accept, ReaderEnds, Close, EnteredBackground

(* With a composite mode at rest, keys, text and the active client agree on
   one connection, for any number of windows and connections. *)
THEOREM KeysAndPointerAgree == RoutingSpec => []KeysFollowThePointer
<1>1. RoutingInit => Coherent
  BY DEF RoutingInit, Coherent
<1>2. Coherent => KeysFollowThePointer
  BY DEF Coherent, KeysFollowThePointer, KeyClient, Tracked
<1>3. QED
  BY <1>1, <1>2, RoutesTyped, CoherentStep, PTL DEF RoutingSpec

-----------------------------------------------------------------------------
(* TextStreams: the packets of a paste.  FlattenSeq is a recursive function of the
   positions; what it does to a longer sequence follows from its equation, position by
   position, up to the least one where it would not. *)
Flattens(g, s, n) == g = [i \in 1..n |-> IF i = 1 THEN s[i] ELSE g[i - 1] \o s[i]]

LEMMA FlatteningExists == ASSUME NEW s, NEW m \in Nat PROVE \E g : Flattens(g, s, m)
<1> DEFINE B == {n \in Nat : ~\E g : Flattens(g, s, n)}
<1> SUFFICES ASSUME B # {} PROVE FALSE
  OBVIOUS
<1>1. PICK n \in B : \A k \in B : n <= k
  <2>1. B \subseteq Nat
    OBVIOUS
  <2> HIDE DEF B
  <2> QED BY <2>1, LeastNatural
<1>2. n \in Nat /\ ~\E g : Flattens(g, s, n)
  BY <1>1
<1>3. n # 0
  <2> DEFINE e == [i \in 1..0 |-> s]
  <2>1. Flattens(e, s, 0)
    BY DEF Flattens
  <2> QED BY <1>2, <2>1
<1>4. PICK g : Flattens(g, s, n - 1)
  <2>1. n - 1 \in Nat /\ ~(n <= n - 1)
    BY <1>2, <1>3
  <2>2. n - 1 \notin B
    BY <1>1, <2>1
  <2> QED BY <2>1, <2>2
<1> DEFINE h == [i \in 1..n |-> IF i = n THEN IF n = 1 THEN s[n] ELSE g[n - 1] \o s[n] ELSE g[i]]
<1>5. \A i \in 1..n - 1 : h[i] = g[i] /\ i \in 1..n /\ i # n
  BY <1>2
<1>6. ASSUME NEW i \in 1..n PROVE h[i] = IF i = 1 THEN s[i] ELSE h[i - 1] \o s[i]
  <2>1. CASE i = n
    <3>1. i # 1 => i - 1 \in 1..n - 1
      BY <1>2, <2>1
    <3> QED BY <1>5, <2>1, <3>1
  <2>2. CASE i # n
    <3>1. i \in 1..n - 1 /\ (i # 1 => i - 1 \in 1..n - 1)
      BY <1>2, <2>2
    <3>2. g[i] = IF i = 1 THEN s[i] ELSE g[i - 1] \o s[i]
      BY <1>4, <3>1 DEF Flattens
    <3> HIDE DEF h
    <3> QED BY <1>5, <3>1, <3>2
  <2> QED BY <2>1, <2>2
<1>7. h = [i \in 1..n |-> h[i]]
  OBVIOUS
<1> HIDE DEF h
<1>8. Flattens(h, s, n)
  BY <1>6, <1>7 DEF Flattens
<1> QED BY <1>2, <1>8

LEMMA FlatteningsAgree ==
    ASSUME NEW s, NEW t, NEW g, NEW h, NEW m \in Nat, NEW n \in Nat, m <= n,
           Flattens(g, s, m), Flattens(h, t, n), \A i \in 1..m : s[i] = t[i]
    PROVE  \A i \in 1..m : g[i] = h[i]
<1> DEFINE B == {i \in 1..m : g[i] # h[i]}
<1> SUFFICES ASSUME B # {} PROVE FALSE
  OBVIOUS
<1>1. PICK i \in B : \A k \in B : i <= k
  <2>1. B \subseteq Nat
    OBVIOUS
  <2> HIDE DEF B
  <2> QED BY <2>1, LeastNatural
<1>2. i \in 1..m /\ i \in 1..n /\ g[i] # h[i]
  BY <1>1
<1>3. g[i] = IF i = 1 THEN s[i] ELSE g[i - 1] \o s[i]
  BY <1>2 DEF Flattens
<1>4. h[i] = IF i = 1 THEN t[i] ELSE h[i - 1] \o t[i]
  BY <1>2 DEF Flattens
<1>5. i # 1 => g[i - 1] = h[i - 1]
  <2>1. i # 1 => i - 1 \in 1..m /\ ~(i <= i - 1)
    BY <1>2
  <2> QED BY <1>1, <2>1
<1> QED BY <1>2, <1>3, <1>4, <1>5

LEMMA FlatteningIs ==
    ASSUME NEW s, NEW n \in Nat \ {0}, Len(s) = n, NEW g, Flattens(g, s, n)
    PROVE  FlattenSeq(s) = g[n]
<1> DEFINE f == CHOOSE h : Flattens(h, s, n)
<1>1. Flattens(f, s, n)
  OBVIOUS
<1>2. FlattenSeq(s) = f[n]
  BY DEF FlattenSeq, Flattens
<1> HIDE DEF f
<1> QED BY <1>1, <1>2, FlatteningsAgree

LEMMA FlattenNothing == FlattenSeq(<<>>) = <<>>
<1>1. Len(<<>>) = 0
  OBVIOUS
<1> QED BY <1>1, Zenon DEF FlattenSeq

LEMMA FlattenType ==
    ASSUME NEW X, NEW s \in Seq(Seq(X)) PROVE FlattenSeq(s) \in Seq(X)
<1>1. PICK m \in Nat : m = Len(s)
  OBVIOUS
<1>2. CASE m = 0
  <2>1. s = <<>> /\ <<>> \in Seq(X)
    BY <1>1, <1>2, EmptySeq
  <2> QED BY <2>1, FlattenNothing
<1>3. CASE m # 0
  <2>1. PICK g : Flattens(g, s, m)
    BY FlatteningExists
  <2> DEFINE B == {i \in 1..m : g[i] \notin Seq(X)}
  <2>2. B = {}
    <3> SUFFICES ASSUME B # {} PROVE FALSE
      OBVIOUS
    <3>1. PICK i \in B : \A k \in B : i <= k
      <4>1. B \subseteq Nat
        OBVIOUS
      <4> HIDE DEF B
      <4> QED BY <4>1, LeastNatural
    <3>2. i \in 1..m /\ g[i] \notin Seq(X)
      BY <3>1
    <3>3. g[i] = IF i = 1 THEN s[i] ELSE g[i - 1] \o s[i]
      BY <2>1, <3>2 DEF Flattens
    <3>4. i # 1 => g[i - 1] \in Seq(X)
      <4>1. i # 1 => i - 1 \in 1..m /\ ~(i <= i - 1)
        BY <3>2
      <4> QED BY <3>1, <4>1
    <3>5. s[i] \in Seq(X)
      BY <1>1, <3>2
    <3> QED BY <3>2, <3>3, <3>4, <3>5
  <2>3. g[m] \in Seq(X)
    BY <1>3, <2>2
  <2> HIDE DEF B
  <2> QED BY <1>1, <1>3, <2>1, <2>3, FlatteningIs
<1> QED BY <1>2, <1>3

(* A packet more is its units more. *)
LEMMA FlattenAppend ==
    ASSUME NEW X, NEW s \in Seq(Seq(X)), NEW p \in Seq(X)
    PROVE  FlattenSeq(Append(s, p)) = FlattenSeq(s) \o p
<1>1. PICK m \in Nat : m = Len(s)
  OBVIOUS
<1>2. PICK t : t = Append(s, p)
  OBVIOUS
<1>3. Len(t) = m + 1 /\ t[m + 1] = p /\ \A i \in 1..m : t[i] = s[i]
  <2>1. PICK W : W = Seq(X)
    OBVIOUS
  <2>2. s \in Seq(W) /\ p \in W
    BY <2>1
  <2> QED BY ONLY <1>1, <1>2, <2>2, AppendProperties
<1>4. PICK h : Flattens(h, t, m + 1)
  <2>1. m + 1 \in Nat
    OBVIOUS
  <2> QED BY <2>1, FlatteningExists
<1>5. FlattenSeq(t) = h[m + 1]
  <2>1. m + 1 \in Nat \ {0}
    OBVIOUS
  <2> QED BY <1>3, <1>4, <2>1, FlatteningIs
<1>6. h[m + 1] = IF m + 1 = 1 THEN p ELSE h[m] \o p
  <2>1. m + 1 \in 1..m + 1 /\ (m + 1) - 1 = m
    OBVIOUS
  <2> QED BY <1>3, <1>4, <2>1 DEF Flattens
<1>7. CASE m = 0
  <2>1. FlattenSeq(s) = <<>>
    <3>1. s = <<>>
      BY <1>1, <1>7, EmptySeq
    <3> QED BY <3>1, FlattenNothing
  <2>2. h[m + 1] = p
    BY <1>6, <1>7
  <2> QED BY <1>2, <1>5, <2>1, <2>2
<1>8. CASE m # 0
  <2>1. PICK g : Flattens(g, s, m)
    BY FlatteningExists
  <2>2. FlattenSeq(s) = g[m]
    BY <1>1, <1>8, <2>1, FlatteningIs
  <2>3. \A i \in 1..m : g[i] = h[i]
    <3>1. m + 1 \in Nat /\ m <= m + 1
      OBVIOUS
    <3> QED BY <1>3, <1>4, <2>1, <3>1, FlatteningsAgree
  <2>4. m \in 1..m
    BY <1>8
  <2>5. h[m + 1] = h[m] \o p
    BY ONLY m \in Nat, <1>6, <1>8
  <2>6. g[m] = h[m]
    BY <2>3, <2>4
  <2> QED BY ONLY <1>2, <1>5, <2>2, <2>5, <2>6
<1> QED BY <1>7, <1>8

(* What has been sent is the beginning of the paste, and the next unit does not continue
   a pair that the last packet has begun. *)
SentUnits == Len(FlattenSeq(packets))
Splits(k) == paste[k] = "high" /\ paste[k + 1] = "low"

PacketsOK ==
    \A i \in 1..Len(packets) :
        /\ packets[i] # <<>> /\ 2 * Len(packets[i]) <= ChunkBytes
        /\ i < Len(packets) =>
              ~(packets[i][Len(packets[i])] = "high" /\ packets[i + 1][1] = "low")

PasteOK ==
    /\ paste \in Seq(UTF16) /\ packets \in Seq(Seq(UTF16))
    /\ SentUnits <= Len(paste) /\ FlattenSeq(packets) = SubSeq(paste, 1, SentUnits)
    /\ PacketsOK
    /\ packets # <<>> =>
          /\ SentUnits > 0
          /\ packets[Len(packets)][Len(packets[Len(packets)])] = paste[SentUnits]
          /\ SentUnits < Len(paste) => ~Splits(SentUnits)

LEMMA Halves ==
    ASSUME NEW k \in Nat, NEW d \in Nat
    PROVE  (2 * k + 2 * d) \div 2 = k + d /\ (2 * k) \div 2 = k /\ (2 * d) % 2 = 0
OBVIOUS

LEMMA EvenPart ==
    ASSUME NEW n \in Nat, n >= 4
    PROVE  \E q \in Nat : n - (n % 2) = 2 * q /\ q >= 2 /\ 2 * q <= n
<1>1. PICK q : q = n \div 2
  OBVIOUS
<1>2. q \in Nat /\ n - (n % 2) = 2 * q /\ q >= 2 /\ 2 * q <= n
  BY <1>1
<1> QED BY <1>2

(* JuiceUTF16ChunkLength: an even number of bytes, within the limit and what remains,
   after which no pair is split. *)
LEMMA Chunk ==
    ASSUME PasteOK, NEW k \in Nat, k = SentUnits, NEW r \in Nat, r = Len(paste) - k, r > 0
    PROVE  \E d \in Nat : /\ ChunkLength(2 * r) = 2 * d /\ d > 0 /\ d <= r /\ 2 * d <= ChunkBytes
                          /\ d < r => ~Splits(k + d)
<1>1. Offset = 2 * k
  BY DEF Offset, SentUnits
<1>2. ChunkBytes \in Nat /\ ChunkBytes >= 4
  BY LimitsAssumption
<1>3. CASE 2 * r < ChunkBytes
  <2>1. (2 * r) % 2 = 0 /\ 2 * r - 0 = 2 * r /\ ~(2 * r < 2 * r)
    BY Halves
  <2>2. ChunkLength(2 * r) = 2 * r
    BY <1>3, <2>1 DEF ChunkLength
  <2>3. r <= r /\ 2 * r <= ChunkBytes /\ ~(r < r)
    BY <1>2, <1>3
  <2> QED BY <2>2, <2>3
<1>4. CASE ~(2 * r < ChunkBytes)
  <2>1. PICK q \in Nat : ChunkBytes - (ChunkBytes % 2) = 2 * q /\ q >= 2 /\ 2 * q <= ChunkBytes
    BY <1>2, EvenPart
  <2>2. (2 * k + 2 * q) \div 2 = k + q
    BY Halves
  <2>3. ChunkLength(2 * r) = IF 2 * q < 2 * r /\ Splits(k + q) THEN 2 * q - 2 ELSE 2 * q
    BY <1>1, <1>4, <2>1, <2>2 DEF ChunkLength, Splits
  <2>4. q <= r /\ (2 * q < 2 * r <=> q < r)
    BY <1>2, <1>4, <2>1
  <2>5. CASE q < r /\ Splits(k + q)
    <3>1. q - 1 \in Nat /\ 2 * q - 2 = 2 * (q - 1) /\ q - 1 > 0 /\ q - 1 <= r
          /\ 2 * (q - 1) <= ChunkBytes /\ k + (q - 1) + 1 = k + q
      BY <1>2, <2>1, <2>5
    <3>2. ~Splits(k + (q - 1))
      BY <2>5, <3>1 DEF Splits
    <3>3. ChunkLength(2 * r) = 2 * (q - 1)
      BY <2>3, <2>4, <2>5, <3>1
    <3> QED BY <3>1, <3>2, <3>3
  <2>6. CASE ~(q < r /\ Splits(k + q))
    <3>1. ChunkLength(2 * r) = 2 * q
      BY <2>3, <2>4, <2>6
    <3>2. q > 0
      BY <2>1
    <3> QED BY <2>1, <2>4, <2>6, <3>1, <3>2
  <2> QED BY <2>5, <2>6
<1> QED BY <1>3, <1>4

(* The d units of the paste behind the first k. *)
Units(k, d) == SubSeq(paste, k + 1, k + d)
Continues(p, k, d) ==
    /\ p \in Seq(UTF16) /\ Len(p) = d /\ p # <<>>
    /\ p[1] = paste[k + 1] /\ p[d] = paste[k + d]
    /\ SubSeq(paste, 1, k) \o p = SubSeq(paste, 1, k + d)

LEMMA PacketParts ==
    ASSUME paste \in Seq(UTF16), NEW k \in Nat, NEW d \in Nat, d > 0, k + d <= Len(paste)
    PROVE  Continues(Units(k, d), k, d)
<1>1. PICK p : p = SubSeq(paste, k + 1, k + d)
  OBVIOUS
<1>2. PICK n \in Nat : n = Len(paste)
  OBVIOUS
<1>3. k + 1 \in 1..n /\ k + d \in 1..n /\ k + 1 <= k + d + 1
  BY <1>2
<1>4. p \in Seq(UTF16) /\ Len(p) = d
  BY <1>1, <1>2, <1>3
<1>5. \A j \in 1..d : p[j] = paste[k + j]
  BY <1>1, <1>2, <1>3
<1>6. 1 \in 1..d /\ d \in 1..d
  OBVIOUS
<1>7. SubSeq(paste, 1, k) \o p = SubSeq(paste, 1, k + d)
  BY <1>1, <1>2, <1>3, ConcatAdjacentSubSeq
<1>8. p # <<>>
  BY <1>4
<1> QED BY <1>1, <1>4, <1>5, <1>6, <1>7, <1>8 DEF Continues, Units

LEMMA PacketSent ==
    ASSUME PasteOK, NEW k \in Nat, k = SentUnits, NEW d \in Nat, d > 0, k + d <= Len(paste),
           2 * d <= ChunkBytes, k + d < Len(paste) => ~Splits(k + d),
           packets' = Append(packets, Units(k, d)), UNCHANGED paste
    PROVE  PasteOK'
<1>1. paste \in Seq(UTF16) /\ packets \in Seq(Seq(UTF16)) /\ PacketsOK
  BY DEF PasteOK
<1>2. PICK p : p = Units(k, d)
  OBVIOUS
<1>3. /\ p \in Seq(UTF16) /\ Len(p) = d /\ p # <<>>
      /\ p[1] = paste[k + 1] /\ p[d] = paste[k + d]
      /\ SubSeq(paste, 1, k) \o p = SubSeq(paste, 1, k + d)
  <2>1. Continues(p, k, d)
    BY <1>1, <1>2, PacketParts
  <2> QED BY <2>1 DEF Continues
<1>4. PICK m \in Nat : m = Len(packets)
  <2>1. PICK W : W = Seq(UTF16)
    OBVIOUS
  <2>2. packets \in Seq(W)
    BY <1>1, <2>1
  <2>3. Len(packets) \in Nat
    BY ONLY <2>2, LenProperties
  <2> QED BY <2>3
<1>5. /\ packets' \in Seq(Seq(UTF16)) /\ Len(packets') = m + 1 /\ packets' # <<>>
      /\ packets'[m + 1] = p /\ \A i \in 1..m : packets'[i] = packets[i]
  <2>1. PICK W : W = Seq(UTF16)
    OBVIOUS
  <2>2. packets \in Seq(W) /\ p \in W /\ packets' = Append(packets, p)
    BY <1>1, <1>2, <1>3, <2>1
  <2>3. packets' \in Seq(W)
    BY ONLY <2>2, AppendProperties
  <2>4. /\ Len(packets') = m + 1 /\ packets' # <<>>
        /\ packets'[m + 1] = p /\ \A i \in 1..m : packets'[i] = packets[i]
    BY ONLY <1>4, <2>2, AppendProperties
  <2> QED BY <2>1, <2>3, <2>4
<1>6. FlattenSeq(packets') = SubSeq(paste, 1, k + d)
  <2>1. FlattenSeq(packets') = FlattenSeq(packets) \o p
    BY <1>1, <1>2, <1>3, FlattenAppend
  <2> QED BY <1>3, <2>1 DEF PasteOK
<1>7. SentUnits' = k + d
  <2>1. Len(SubSeq(paste, 1, k + d)) = k + d
    BY <1>1
  <2> QED BY <1>6, <2>1 DEF SentUnits
<1>8. ASSUME NEW i \in 1..m + 1
      PROVE  /\ packets'[i] # <<>> /\ 2 * Len(packets'[i]) <= ChunkBytes
             /\ i < m + 1 => ~(packets'[i][Len(packets'[i])] = "high" /\ packets'[i + 1][1] = "low")
  <2>1. CASE i = m + 1
    <3>1. ~(i < m + 1) /\ packets'[i] = p
      BY <1>5, <2>1
    <3> QED BY <1>3, <3>1
  <2>2. CASE i \in 1..m - 1
    <3>1. i \in 1..m /\ i + 1 \in 1..m /\ i < m
      BY <2>2
    <3>2. /\ packets[i] # <<>> /\ 2 * Len(packets[i]) <= ChunkBytes
          /\ ~(packets[i][Len(packets[i])] = "high" /\ packets[i + 1][1] = "low")
      BY <1>1, <1>4, <3>1 DEF PacketsOK
    <3>3. packets'[i] = packets[i] /\ packets'[i + 1] = packets[i + 1]
      BY <1>5, <3>1
    <3> QED BY <3>2, <3>3
  <2>3. CASE i = m
    <3>1. m \in 1..m /\ packets # <<>>
      BY <1>4, <1>8, <2>3, EmptySeq
    <3>2. packets[m] # <<>> /\ 2 * Len(packets[m]) <= ChunkBytes
      BY <1>1, <1>4, <3>1 DEF PacketsOK
    <3>3. packets[m][Len(packets[m])] = paste[k] /\ ~Splits(k)
      <4>1. k < Len(paste)
        BY <1>1
      <4> QED BY <1>4, <3>1, <4>1 DEF PasteOK
    <3>4. packets'[m] = packets[m] /\ packets'[m + 1][1] = paste[k + 1]
      BY <1>3, <1>5, <3>1
    <3> QED BY <2>3, <3>2, <3>3, <3>4 DEF Splits
  <2>4. i = m + 1 \/ i = m \/ i \in 1..m - 1
    BY <1>8
  <2> QED BY <2>1, <2>2, <2>3, <2>4
<1>9. PacketsOK'
  BY <1>5, <1>8 DEF PacketsOK
<1>10. packets'[Len(packets')][Len(packets'[Len(packets')])] = paste'[SentUnits']
  BY <1>3, <1>5, <1>7
<1>11. SentUnits' < Len(paste') => ~Splits(SentUnits)'
  BY <1>7 DEF Splits
<1>12. SentUnits' > 0 /\ SentUnits' <= Len(paste')
  BY <1>7
<1> QED BY <1>1, <1>5, <1>6, <1>7, <1>9, <1>10, <1>11, <1>12 DEF PasteOK

LEMMA PasteInit == ASSUME TextInit PROVE PasteOK
<1>1. paste \in Seq(UTF16)
  <2>1. CASE paste = <<>>
    BY <2>1, EmptySeq
  <2>2. CASE paste \in BoundedSeq(UTF16, MaxPaste)
    BY <2>2 DEF BoundedSeq, SeqOf
  <2> QED BY <2>1, <2>2 DEF TextInit
<1>2. packets = <<>> /\ packets \in Seq(Seq(UTF16)) /\ Len(packets) = 0
  BY EmptySeq DEF TextInit
<1>3. FlattenSeq(packets) = <<>> /\ SentUnits = 0
  BY <1>2, FlattenNothing, EmptySeq DEF SentUnits
<1>4. SubSeq(paste, 1, 0) = <<>> /\ 0 <= Len(paste)
  BY <1>1
<1>5. PacketsOK
  BY <1>2 DEF PacketsOK
<1> QED BY <1>1, <1>2, <1>3, <1>4, <1>5 DEF PasteOK

LEMMA PasteStep == ASSUME PasteOK, [TextNext]_textVars PROVE PasteOK'
<1>1. CASE UNCHANGED <<paste, packets>>
  BY <1>1 DEF PasteOK, PacketsOK, SentUnits, Splits
<1>2. CASE SendChunk
  <2>1. FlattenSeq(packets) \in Seq(UTF16) /\ paste \in Seq(UTF16)
    BY FlattenType DEF PasteOK
  <2>2. PICK k \in Nat : k = SentUnits
    BY <2>1, LenProperties DEF SentUnits
  <2>3. PICK n \in Nat : n = Len(paste)
    BY <2>1, LenProperties
  <2>4. PICK r \in Nat : r = n - k
    <3>1. k <= n
      BY <2>2, <2>3 DEF PasteOK
    <3> QED BY ONLY k \in Nat, n \in Nat, <3>1
  <2>5. Offset = 2 * k /\ 2 * Len(paste) - Offset = 2 * r
    BY <2>2, <2>3, <2>4 DEF Offset, SentUnits
  <2>6. r > 0
    BY <1>2, <2>5 DEF SendChunk
  <2>7. PICK d \in Nat : /\ ChunkLength(2 * r) = 2 * d /\ d > 0 /\ d <= r /\ 2 * d <= ChunkBytes
                         /\ d < r => ~Splits(k + d)
    BY <2>2, <2>3, <2>4, <2>6, Chunk
  <2>8. \/ packets' = Append(packets, SubSeq(paste, Offset \div 2 + 1, (Offset + 2 * d) \div 2))
        \/ UNCHANGED packets
    BY <1>2, <2>5, <2>7 DEF SendChunk
  <2>9. Offset \div 2 = k /\ (Offset + 2 * d) \div 2 = k + d
    BY <2>5, Halves
  <2>10. UNCHANGED paste
    BY <1>2 DEF SendChunk
  <2>11. k + d <= Len(paste) /\ (k + d < Len(paste) => d < r)
    BY <2>3, <2>4, <2>7
  <2>12. packets' = Append(packets, Units(k, d)) \/ UNCHANGED packets
    BY <2>8, <2>9 DEF Units
  <2> QED BY <1>1, <2>2, <2>7, <2>10, <2>11, <2>12, PacketSent
<1>3. CASE End \/ \E n \in 1..Len(output) - read : Read(n)
  BY <1>1, <1>3 DEF End, Read
<1> QED BY <1>1, <1>2, <1>3 DEF TextNext, textVars

(* What JuiceSendTextPayload sends of a paste of any length, in packets of any limit, is
   its text in order; no packet exceeds the limit or ends inside a surrogate pair. *)
THEOREM PacketsAreWhole == TextSpec => []PacketsKeepPairs
<1>1. TextInit => PasteOK
  BY PasteInit
<1>2. PasteOK /\ [TextNext]_textVars => PasteOK'
  BY PasteStep
<1>3. PasteOK => PacketsKeepPairs
  <2> SUFFICES ASSUME PasteOK PROVE PacketsKeepPairs
    OBVIOUS
  <2>1. FlattenSeq(packets) \in Seq(UTF16) /\ packets \in Seq(Seq(UTF16)) /\ paste \in Seq(UTF16)
    BY FlattenType DEF PasteOK
  <2>2. PICK t \in Seq(UTF16) : t = FlattenSeq(packets)
    BY <2>1
  <2>3. SentUnits = Len(t) /\ t = SubSeq(paste, 1, Len(t)) /\ Len(t) <= Len(paste)
    BY <2>2 DEF PasteOK, SentUnits
  <2>4. SubSeq(t, 1, Len(t)) = t
    BY <2>2
  <2>5. IsPrefix(t, paste)
    BY <2>3, <2>4 DEF IsPrefix
  <2>6. DOMAIN packets = 1..Len(packets)
    BY <2>1, LenProperties
  <2>7. \A s : Last(s) = s[Len(s)] /\ Head(s) = s[1]
    BY DEF Last
  <2> QED BY <2>2, <2>5, <2>6, <2>7 DEF PacketsKeepPairs, PasteOK, PacketsOK
<1> QED BY <1>1, <1>2, <1>3, PTL DEF TextSpec
=============================================================================
