---------------------------- MODULE DriverInput -----------------------------
(***************************************************************************)
(* The input side of the display driver (wine/dlls/wineios.drv/ipc.c):     *)
(* every GUI thread of the process runs ios_ipc_process_input on the one   *)
(* shared socket and registers that socket with its own Wine queue.  The   *)
(* lock is held only to look at or change the connection; the socket is    *)
(* read without it, by number.                                             *)
(*                                                                         *)
(* A record of the host is a header and, for TEXT, a payload that is taken *)
(* to be as long as a header (24 UTF-16 units), so that a stream is a      *)
(* sequence of equal units.  A thread that takes a unit for something it   *)
(* is not has Garbage.                                                     *)
(***************************************************************************)
EXTENDS Integers, Sequences, FiniteSetsExt

CONSTANTS
    Threads,        \* GUI threads
    Numbers,        \* descriptor numbers the process can get
    NoFd,           \* -1
    Garbage,
    MaxGeneration,  \* bound on the connections made
    MaxSent         \* bound on the records the host sends

ASSUME NumbersAssumption == Numbers \subseteq Nat /\ NoFd \notin Numbers
ASSUME BoundsAssumption == MaxGeneration \in Nat /\ MaxSent \in Nat

VARIABLES
    ipcFd,       \* ipc_fd
    generation,  \* ipc_generation
    table,       \* number -> the connection it stands for in this process, or 0
    stream,      \* connection -> units not read yet
    up,          \* connection -> the host has it open
    thread,      \* where each thread stands in ios_ipc_process_input
    queue,       \* thread -> queue_generation
    polled,      \* thread -> the connection the Wine server polls for its queue
    pointer,     \* pointer_down, pointer_generation, and where the press came from
    concurrent,  \* fixed: the threads do not take turns
    sent,        \* history: connection -> number of records the host has sent
    got,         \* history: connection -> records dispatched
    captured     \* history: <<connection of an event, connection of the press>>

socket == <<ipcFd, generation, table>>
history == <<sent, got, captured>>
vars == <<socket, stream, up, thread, queue, polled, pointer, concurrent, history>>

Connections == 1..MaxGeneration
Kinds == {"down", "move", "up", "text"}

ASSUME GarbageAssumption == Garbage \notin [kind : Kinds, n : Nat]

Record == [kind : Kinds, n : 1..MaxSent]
Unit == [part : {"header", "payload"}, of : Record]
PC == {"idle", "register", "server", "confirm", "peek", "header", "payload",
       "dispatch", "drop"}
Thread == [pc : PC, fd : Numbers \cup {NoFd}, generation : 0..MaxGeneration,
           handle : 0..MaxGeneration, msg : Record \cup {Garbage},
           from : 0..MaxGeneration]

Idle == [pc |-> "idle", fd |-> NoFd, generation |-> 0, handle |-> 0,
         msg |-> Garbage, from |-> 0]

Init == /\ ipcFd = NoFd /\ generation = 0
        /\ table = [n \in Numbers |-> 0]
        /\ stream = [c \in Connections |-> <<>>]
        /\ up = [c \in Connections |-> FALSE]
        /\ thread = [t \in Threads |-> Idle]
        /\ queue = [t \in Threads |-> 0]
        /\ polled = [t \in Threads |-> 0]
        /\ pointer = [down |-> FALSE, generation |-> 0, from |-> 0]
        /\ sent = [c \in Connections |-> 0]
        /\ got = [c \in Connections |-> <<>>]
        /\ concurrent \in BOOLEAN
        /\ captured = {}

At(t, pc) == thread[t].pc = pc
Goto(t, pc) == thread' = [thread EXCEPT ![t].pc = pc]
Break(t) == thread' = [thread EXCEPT ![t] = Idle]

-----------------------------------------------------------------------------
(* The host. *)

HostSends(c, kind) ==
    LET m == [kind |-> kind, n |-> sent[c] + 1] IN
    /\ up[c] /\ MapThenSumSet(LAMBDA d : sent[d], Connections) < MaxSent
    /\ sent' = [sent EXCEPT ![c] = @ + 1]
    /\ stream' = [stream EXCEPT ![c] = @ \o <<[part |-> "header", of |-> m]>> \o
                     IF kind = "text" THEN <<[part |-> "payload", of |-> m]>> ELSE <<>>]
    /\ UNCHANGED <<socket, up, thread, queue, polled, pointer, got, captured>>

(* What was sent before stays readable. *)
HostEnds(c) ==
    /\ up[c]
    /\ up' = [up EXCEPT ![c] = FALSE]
    /\ UNCHANGED <<socket, stream, thread, queue, polled, pointer, history>>

-----------------------------------------------------------------------------
(* The connection, under the lock. *)

FreeNumbers == {n \in Numbers : table[n] = 0}

(* connect_ipc_locked: the kernel hands out the lowest free number. *)
Connect ==
    /\ ipcFd = NoFd /\ generation < MaxGeneration /\ FreeNumbers # {}
    /\ ipcFd' = Min(FreeNumbers)
    /\ generation' = generation + 1
    /\ table' = [table EXCEPT ![ipcFd'] = generation']
    /\ up' = [up EXCEPT ![generation'] = TRUE]

(* disconnect_ipc_locked *)
Disconnect ==
    /\ ipcFd' = NoFd
    /\ table' = [table EXCEPT ![ipcFd] = 0]
    /\ UNCHANGED generation

(* A thread that draws: send_msg or ios_ipc_present reconnects, or fails to write
   to a connection the host has ended. *)
PaintsOn ==
    /\ \/ Connect
       \/ /\ ipcFd # NoFd /\ ~up[generation]
          /\ Disconnect /\ UNCHANGED up
    /\ UNCHANGED <<stream, thread, queue, polled, pointer, history>>

-----------------------------------------------------------------------------
(* ios_ipc_process_input, one turn of its loop. *)

Snapshot(t) ==
    /\ At(t, "idle")
    /\ \/ ipcFd = NoFd /\ Connect
       \/ ipcFd # NoFd /\ UNCHANGED <<socket, up>>
    /\ thread' = [thread EXCEPT ![t].pc = "register", ![t].fd = ipcFd',
                                ![t].generation = generation']
    /\ UNCHANGED <<stream, queue, polled, pointer, history>>

(* ios_ipc_register_queue: a handle to the socket, made under the lock... *)
RegisterQueue(t) ==
    /\ At(t, "register")
    /\ \/ /\ ipcFd = NoFd \/ queue[t] = generation
          /\ Goto(t, "peek")
       \/ /\ ipcFd # NoFd /\ queue[t] # generation
          /\ thread' = [thread EXCEPT ![t].pc = "server", ![t].handle = generation]
    /\ UNCHANGED <<socket, stream, up, queue, polled, pointer, history>>

(* ... given to the server without it... *)
SetQueueFd(t) ==
    /\ At(t, "server")
    /\ \/ /\ polled' = [polled EXCEPT ![t] = thread[t].handle]
          /\ Goto(t, "confirm")
       \/ UNCHANGED polled /\ Goto(t, "peek")
    /\ UNCHANGED <<socket, stream, up, queue, pointer, history>>

ConfirmUnchecked(t) ==   \* mutant: the connection is not compared again
    /\ At(t, "confirm")
    /\ queue' = [queue EXCEPT ![t] = generation]
    /\ Goto(t, "peek")
    /\ UNCHANGED <<socket, stream, up, polled, pointer, history>>

(* ... and remembered only if the connection is still the same. *)
ConfirmQueue(t) ==
    /\ At(t, "confirm")
    /\ queue' = [queue EXCEPT ![t] =
                    IF ipcFd # NoFd /\ generation = thread[t].handle
                    THEN thread[t].handle ELSE @]
    /\ Goto(t, "peek")
    /\ UNCHANGED <<socket, stream, up, polled, pointer, history>>

(* The connection that the thread's descriptor number stands for by now. *)
Behind(t) == table[thread[t].fd]

EndOfStream(t) == Behind(t) # 0 => stream[Behind(t)] = <<>> /\ ~up[Behind(t)]

(* recv with MSG_PEEK and MSG_DONTWAIT *)
Peek(t) ==
    /\ At(t, "peek")
    /\ \/ EndOfStream(t) /\ Goto(t, "drop")
       \/ /\ ~EndOfStream(t)
          /\ IF stream[Behind(t)] = <<>> THEN Break(t) ELSE Goto(t, "header")
    /\ UNCHANGED <<socket, stream, up, queue, polled, pointer, history>>

Take(t) == stream' = [stream EXCEPT ![Behind(t)] = Tail(@)]

(* read_all blocks while the stream is empty.  What is not a header has any size
   and the wrong magic: the thread gives the connection up or goes on. *)
ReadHeader(t) ==
    /\ At(t, "header")
    /\ \/ EndOfStream(t) /\ Goto(t, "drop") /\ UNCHANGED stream
       \/ /\ ~EndOfStream(t) /\ stream[Behind(t)] # <<>>
          /\ LET u == Head(stream[Behind(t)]) IN
             \/ /\ u.part = "header"
                /\ thread' = [thread EXCEPT ![t].msg = u.of, ![t].from = Behind(t),
                                 ![t].pc = IF u.of.kind = "text" THEN "payload"
                                           ELSE "dispatch"]
             \/ /\ u.part = "payload"
                /\ \E pc \in {"drop", "idle"} :
                      thread' = [thread EXCEPT ![t].msg = Garbage, ![t].pc = pc,
                                               ![t].from = Behind(t)]
          /\ Take(t)
    /\ UNCHANGED <<socket, up, queue, polled, pointer, history>>

ReadPayload(t) ==
    /\ At(t, "payload")
    /\ \/ EndOfStream(t) /\ Goto(t, "drop") /\ UNCHANGED stream
       \/ /\ ~EndOfStream(t) /\ stream[Behind(t)] # <<>>
          /\ LET mine == [part |-> "payload", of |-> thread[t].msg] IN
             thread' = [thread EXCEPT ![t].pc = "dispatch",
                           ![t].msg = IF /\ Head(stream[Behind(t)]) = mine
                                         /\ Behind(t) = thread[t].from
                                      THEN @ ELSE Garbage]
          /\ Take(t)
    /\ UNCHANGED <<socket, up, queue, polled, pointer, history>>

CapturesAnyGeneration(t, kind) == pointer.down /\ kind # "down"   \* mutant

(* An event without a press goes to the pressed window while the button is down
   and the connection is the one the press came on; otherwise by position. *)
Captures(t, kind) ==
    pointer.down /\ pointer.generation = thread[t].generation /\ kind # "down"

PointerEvent(t) ==
    LET m == thread[t].msg IN
    /\ captured' = IF Captures(t, m.kind)
                   THEN captured \cup {<<thread[t].from, pointer.from>>} ELSE captured
    /\ pointer' = CASE m.kind = "down" -> [down |-> TRUE, from |-> thread[t].from,
                                           generation |-> thread[t].generation]
                    [] m.kind = "up" -> [pointer EXCEPT !.down = FALSE]
                    [] m.kind = "move" -> pointer

(* TEXT and key records leave the pointer alone; a torn payload is text too. *)
IsText(m) == m # Garbage => m.kind = "text"

Dispatch(t) ==
    LET m == thread[t].msg IN
    /\ At(t, "dispatch")
    /\ \/ ~IsText(m) /\ PointerEvent(t)
       \/ IsText(m) /\ UNCHANGED <<pointer, captured>>
    /\ got' = [got EXCEPT ![thread[t].from] = Append(@, m)]
    /\ Break(t)
    /\ UNCHANGED <<socket, stream, up, queue, polled, sent>>

DropByNumber(t) ==   \* mutant: only the number is compared
    /\ At(t, "drop")
    /\ \/ ipcFd = thread[t].fd /\ Disconnect
       \/ ipcFd # thread[t].fd /\ UNCHANGED socket
    /\ Break(t)
    /\ UNCHANGED <<stream, up, queue, polled, pointer, history>>

(* disconnect_ipc_fd *)
Drop(t) ==
    LET same == ipcFd = thread[t].fd /\ generation = thread[t].generation IN
    /\ At(t, "drop")
    /\ \/ same /\ Disconnect
       \/ ~same /\ UNCHANGED socket
    /\ Break(t)
    /\ UNCHANGED <<stream, up, queue, polled, pointer, history>>

-----------------------------------------------------------------------------
ThreadStep(t) == \/ Snapshot(t) \/ RegisterQueue(t) \/ SetQueueFd(t) \/ ConfirmQueue(t)
                 \/ Peek(t) \/ ReadHeader(t) \/ ReadPayload(t) \/ Dispatch(t) \/ Drop(t)

Turn(others) == concurrent \/ \A t \in others : At(t, "idle")

Next == /\ \/ \E t \in Threads : Turn(Threads \ {t}) /\ ThreadStep(t)
           \/ \E c \in Connections : HostEnds(c) \/ \E k \in Kinds : HostSends(c, k)
           \/ Turn(Threads) /\ PaintsOn
        /\ UNCHANGED concurrent

Spec == Init /\ [][Next]_vars

-----------------------------------------------------------------------------
TypeOK ==
    /\ ipcFd \in Numbers \cup {NoFd} /\ generation \in 0..MaxGeneration
    /\ table \in [Numbers -> 0..MaxGeneration]
    /\ stream \in [Connections -> Seq(Unit)]
    /\ up \in [Connections -> BOOLEAN]
    /\ thread \in [Threads -> Thread]
    /\ queue \in [Threads -> 0..MaxGeneration]
    /\ polled \in [Threads -> 0..MaxGeneration]
    /\ pointer \in [down : BOOLEAN, generation : 0..MaxGeneration,
                    from : 0..MaxGeneration]
    /\ concurrent \in BOOLEAN
    /\ sent \in [Connections -> 0..MaxSent]
    /\ got \in [Connections -> Seq(Record \cup {Garbage})]
    /\ captured \subseteq Connections \X Connections

(* "an old input reader can never tear down a newer socket that received the same
   descriptor number" (ipc.c:69-72): a thread closes only the connection it took
   its snapshot of. *)
OldReaderSparesNewSocket ==
    [][\A t \in Threads :
          At(t, "drop") /\ ~At(t, "drop")' /\ ipcFd # NoFd /\ ipcFd' = NoFd
          => generation = thread[t].generation]_vars

(* A thread that believes its queue registered for the connection in use is woken
   by that connection and not by an older one, although the server call is made
   without the lock (ios_ipc_register_queue). *)
RegisteredQueueIsWoken ==
    \A t \in Threads :
        ipcFd # NoFd /\ queue[t] = generation => polled[t] = generation

(* As long as the threads take turns, the records of a connection are dispatched whole,
   once and in the order sent, as the key and button state of the receiver needs them,
   and a drag that was under way when the connection broke does not capture the events
   of the next one (pointer_generation). *)
DispatchFollowsTheStream ==
    ~concurrent =>
        /\ \A c \in Connections : \A i \in 1..Len(got[c]) :
              got[c][i] # Garbage /\ got[c][i].n = i
        /\ \A p \in captured : p[1] = p[2]
=============================================================================
