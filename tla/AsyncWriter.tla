----------------------------- MODULE AsyncWriter -----------------------------
(***************************************************************************)
(* The host's ordered, bounded, non-blocking output to its display clients *)
(* (app/JuiceAsyncWriter.m, app/JuiceIO.c and the registry of              *)
(* app/JuiceHostIOHardening.m).  A writer owns a duplicate of its          *)
(* connection's descriptor and a serial queue of packet blocks; the        *)
(* registry names one writer per descriptor number, and the kernel hands a *)
(* closed number out again.                                                *)
(*                                                                         *)
(* A packet is known by its length and by its place among those accepted   *)
(* for its connection.  The peer may read slowly, never, or go away; time  *)
(* is whether the deadline of a writer's oldest packet has passed.         *)
(***************************************************************************)
EXTENDS Naturals, Sequences, FiniteSets, Functions

CONSTANTS
    Fds,            \* descriptor numbers of the accepted connections
    Conns,          \* connections, each accepted at most once
    Writers,        \* identities of JuiceAsyncWriter objects
    None,
    Lengths,        \* packet lengths
    Limit,          \* the writer's _limit
    MaxPackets,     \* JUICE_IO_MAX_PACKETS
    GlobalBytes,    \* JUICE_IO_GLOBAL_BYTES
    MaxSends        \* bound on the packets accepted for one connection

ASSUME NoneAssumption == None \notin Conns \cup Writers
ASSUME FiniteAssumption == IsFiniteSet(Writers)
ASSUME LengthsAssumption == Lengths \subseteq Nat \ {0}
ASSUME BoundsAssumption == Limit \in Nat /\ MaxPackets \in Nat
                           /\ GlobalBytes \in Nat /\ MaxSends \in Nat

VARIABLES
    conn,       \* the connection a descriptor number names, or None
    clients,    \* descriptor numbers that may be sent to
    registry,   \* descriptor number -> its writer, or None
    writer,     \* the writer objects
    buffered,   \* JuiceBufferedBytes
    down,       \* connections that are shut down or whose peer is gone
    accepted,   \* history: lengths of the packets accepted for a connection
    wire        \* history: what a connection carried, <<number, bytes>> each

hostVars == <<conn, clients, registry>>
vars == <<hostVars, writer, buffered, down, accepted, wire>>

-----------------------------------------------------------------------------
Packet == [kind : {"packet"}, number : 1..MaxSends, length : Lengths]
CloseBlock == [kind |-> "close"]

(* pc: where the worker stands in the first block of its queue; sent: bytes
   of that packet already written; late: its deadline has passed. *)
WorkerState == {"idle", "check", "send", "failed", "shutdown", "done"}
FreeWriter == [conn |-> None, open |-> FALSE, cancelled |-> FALSE, queue |-> <<>>,
               bytes |-> 0, packets |-> 0, pc |-> "idle", sent |-> 0, late |-> FALSE]
NewWriter(c) == [FreeWriter EXCEPT !.conn = c, !.open = TRUE]

Set(w, value) == writer' = [writer EXCEPT ![w] = value]
First(w) == Head(writer[w].queue)
Registered(w) == \E fd \in Fds : registry[fd] = w

Init ==
    /\ conn = [fd \in Fds |-> None]
    /\ clients = {}
    /\ registry = [fd \in Fds |-> None]
    /\ writer = [w \in Writers |-> FreeWriter]
    /\ buffered = 0
    /\ down = {}
    /\ accepted = [c \in Conns |-> <<>>]
    /\ wire = [c \in Conns |-> <<>>]

-----------------------------------------------------------------------------
(* The connection: accepted under any free number, ended by its peer. *)

Accept(fd, c) ==
    /\ conn[fd] = None /\ c \notin down
    /\ accepted[c] = <<>> /\ \A f \in Fds : conn[f] # c
    /\ \A w \in Writers : writer[w].conn # c
    /\ conn' = [conn EXCEPT ![fd] = c]
    /\ clients' = clients \cup {fd}
    /\ UNCHANGED <<registry, writer, buffered, down, accepted, wire>>

PeerCloses(c) ==
    /\ c \notin down
    /\ down' = down \cup {c}
    /\ UNCHANGED <<hostVars, writer, buffered, accepted, wire>>

CancelCloses(x) == [x EXCEPT !.cancelled = TRUE, !.open = FALSE]   \* mutant

(* cancel: the descriptor is closed by a block of its own, after the blocks
   queued before it. *)
Cancel(x) == [x EXCEPT !.cancelled = TRUE, !.queue = Append(@, CloseBlock)]

DropClient(fd) ==                     \* mutant: the registry keeps its writer
    /\ fd \in clients
    /\ clients' = clients \ {fd}
    /\ UNCHANGED <<conn, registry, writer, buffered, down, accepted, wire>>

(* The reader's teardown: membership and writer go under one lock... *)
CancelDisplayWriter(fd) ==
    /\ fd \in clients
    /\ clients' = clients \ {fd}
    /\ registry' = [registry EXCEPT ![fd] = None]
    /\ IF registry[fd] = None THEN UNCHANGED writer
                              ELSE Set(registry[fd], Cancel(writer[registry[fd]]))
    /\ UNCHANGED <<conn, buffered, down, accepted, wire>>

(* ... and then the number is given back.  The connection itself ends here
   unless a writer's duplicate keeps it alive. *)
CloseNumber(fd) ==
    /\ conn[fd] # None /\ fd \notin clients
    /\ conn' = [conn EXCEPT ![fd] = None]
    /\ down' = IF \E w \in Writers : writer[w].conn = conn[fd] /\ writer[w].open
               THEN down ELSE down \cup {conn[fd]}
    /\ UNCHANGED <<clients, registry, writer, buffered, accepted, wire>>

-----------------------------------------------------------------------------
(* JuiceHostEnqueue with enqueueData:. *)

(* The limits of one writer and of the process. *)
Fits(x, n) ==
    /\ n <= Limit /\ x.bytes <= Limit - n
    /\ x.packets < MaxPackets
    /\ n <= GlobalBytes /\ buffered <= GlobalBytes - n

Queued(x, packet) == [x EXCEPT !.queue = Append(@, packet), !.packets = @ + 1,
                               !.bytes = @ + packet.length]

(* The registered writer, or a new one on a duplicate of the descriptor. *)
WriterFor(fd, w) ==
    \/ registry[fd] = w
    \/ registry[fd] = None /\ writer[w] = FreeWriter /\ ~Registered(w)

Enqueue(fd, w, n) ==
    LET c == conn[fd]
        x == IF registry[fd] = w THEN writer[w] ELSE NewWriter(c)
        packet == [kind |-> "packet", number |-> Len(accepted[c]) + 1, length |-> n]
    IN
    /\ fd \in clients /\ WriterFor(fd, w) /\ Len(accepted[c]) < MaxSends
    /\ ~x.cancelled /\ Fits(x, n)
    /\ Set(w, Queued(x, packet))
    /\ registry' = [registry EXCEPT ![fd] = w]
    /\ buffered' = buffered + n
    /\ accepted' = [accepted EXCEPT ![c] = Append(@, n)]
    /\ UNCHANGED <<conn, clients, down, wire>>

RejectQuietly(fd) ==                  \* mutant: the connection stays up
    /\ fd \in clients
    /\ registry' = [registry EXCEPT ![fd] = None]
    /\ IF registry[fd] = None THEN UNCHANGED writer
                              ELSE Set(registry[fd], Cancel(writer[registry[fd]]))
    /\ UNCHANGED <<conn, clients, buffered, down, accepted, wire>>

(* A packet that is refused (a limit, a cancelled writer, or the clock, memory
   or dup failing) ends the connection.  The number stays in `clients`. *)
Reject(fd) ==
    /\ fd \in clients
    /\ down' = down \cup {conn[fd]}
    /\ registry' = [registry EXCEPT ![fd] = None]
    /\ IF registry[fd] = None THEN UNCHANGED writer
                              ELSE Set(registry[fd], Cancel(writer[registry[fd]]))
    /\ UNCHANGED <<conn, clients, buffered, accepted, wire>>

-----------------------------------------------------------------------------
(* The worker: one block after the other. *)

At(w, pc) == writer[w].pc = pc /\ writer[w].queue # <<>>
Goto(w, pc) == writer' = [writer EXCEPT ![w].pc = pc]

(* Two seconds after the packet was queued, whether or not its block runs. *)
DeadlinePasses(w) ==
    /\ writer[w].queue # <<>> /\ First(w).kind = "packet" /\ ~writer[w].late
    /\ writer' = [writer EXCEPT ![w].late = TRUE]
    /\ UNCHANGED <<hostVars, buffered, down, accepted, wire>>

(* "Queue residence consumes the same deadline as the syscall". *)
BlockStarts(w) ==
    /\ At(w, "idle") /\ First(w).kind = "packet"
    /\ Goto(w, IF writer[w].late THEN "failed" ELSE "check")
    /\ UNCHANGED <<hostVars, buffered, down, accepted, wire>>

ChecksCancelOnly(w) ==                \* mutant: a slow peer is waited for
    /\ At(w, "check")
    /\ Goto(w, IF writer[w].cancelled THEN "failed" ELSE "send")
    /\ UNCHANGED <<hostVars, buffered, down, accepted, wire>>

(* The head of JuiceWriteWithDeadline's loop. *)
WriteChecks(w) ==
    /\ At(w, "check")
    /\ Goto(w, IF writer[w].cancelled \/ writer[w].late THEN "failed" ELSE "send")
    /\ UNCHANGED <<hostVars, buffered, down, accepted, wire>>

(* A send carries some bytes: the packet's first ones add it to the stream. *)
Carried(w, n) ==
    LET c == writer[w].conn
        number == First(w).number
        s == wire[c]
    IN  IF writer[w].sent = 0 THEN Append(s, <<number, n>>)
        ELSE [s EXCEPT ![Len(s)] = <<number, writer[w].sent + n>>]

SendSome(w) ==
    LET x == writer[w] IN
    /\ At(w, "send") /\ x.conn \notin down /\ x.open
    /\ \E n \in 1..First(w).length - x.sent :
         /\ wire' = [wire EXCEPT ![x.conn] = Carried(w, n)]
         /\ Set(w, [x EXCEPT !.sent = @ + n,
                             !.pc = IF x.sent + n = First(w).length THEN "done" ELSE "check"])
    /\ UNCHANGED <<hostVars, buffered, down, accepted>>

(* The send would block, and the poll slice ends or the peer reads. *)
SendBlocks(w) ==
    /\ At(w, "send")
    /\ Goto(w, "check")
    /\ UNCHANGED <<hostVars, buffered, down, accepted, wire>>

(* The connection is down, or any other error. *)
SendFails(w) ==
    /\ At(w, "send")
    /\ Goto(w, "failed")
    /\ UNCHANGED <<hostVars, buffered, down, accepted, wire>>

(* Only the first failure shuts the connection down. *)
WriterFails(w) ==
    /\ At(w, "failed")
    /\ Set(w, [writer[w] EXCEPT !.cancelled = TRUE,
                                !.pc = IF writer[w].cancelled THEN "done" ELSE "shutdown"])
    /\ UNCHANGED <<hostVars, buffered, down, accepted, wire>>

ShutDown(w) ==
    /\ At(w, "shutdown")
    /\ down' = down \cup {writer[w].conn}
    /\ Goto(w, "done")
    /\ UNCHANGED <<hostVars, buffered, accepted, wire>>

Idle(x) == [x EXCEPT !.pc = "idle", !.sent = 0, !.late = FALSE]
Dequeued(x, n) == [Idle(x) EXCEPT !.queue = Tail(@), !.packets = @ - 1, !.bytes = @ - n]

ReleaseSent(w) ==                     \* mutant: only what was sent is released
    /\ At(w, "done")
    /\ Set(w, Dequeued(writer[w], First(w).length))
    /\ buffered' = buffered - writer[w].sent
    /\ UNCHANGED <<hostVars, down, accepted, wire>>

Release(w) ==
    /\ At(w, "done")
    /\ Set(w, Dequeued(writer[w], First(w).length))
    /\ buffered' = buffered - First(w).length
    /\ UNCHANGED <<hostVars, down, accepted, wire>>

CloseRuns(w) ==
    /\ At(w, "idle") /\ First(w).kind = "close"
    /\ Set(w, [writer[w] EXCEPT !.open = FALSE, !.queue = Tail(@)])
    /\ UNCHANGED <<hostVars, buffered, down, accepted, wire>>

(* Neither the registry nor a block refers to the object any more. *)
Dealloc(w) ==
    /\ writer[w] # FreeWriter /\ ~Registered(w) /\ writer[w].queue = <<>>
    /\ Set(w, FreeWriter)
    /\ UNCHANGED <<hostVars, buffered, down, accepted, wire>>

Worker(w) ==
    \/ BlockStarts(w) \/ WriteChecks(w) \/ SendSome(w)
    \/ SendFails(w) \/ WriterFails(w) \/ ShutDown(w) \/ Release(w) \/ CloseRuns(w)

Reader(fd) == (conn[fd] \in down /\ CancelDisplayWriter(fd)) \/ CloseNumber(fd)

Next ==
    \/ \E fd \in Fds : \/ \E c \in Conns : Accept(fd, c)
                       \/ \E w \in Writers, n \in Lengths : Enqueue(fd, w, n)
                       \/ Reject(fd) \/ CancelDisplayWriter(fd) \/ CloseNumber(fd)
    \/ \E c \in Conns : PeerCloses(c)
    \/ \E w \in Writers : Worker(w) \/ SendBlocks(w) \/ DeadlinePasses(w) \/ Dealloc(w)

Spec == Init /\ [][Next]_vars

(* The queues run, time passes, a reader notices that
   its connection is down, and unreferenced objects are released. *)
FairSpec == Spec /\ \A w \in Writers : /\ WF_vars(Worker(w)) /\ WF_vars(Dealloc(w))
                                        /\ WF_vars(DeadlinePasses(w))
                 /\ \A fd \in Fds : WF_vars(Reader(fd))

-----------------------------------------------------------------------------
(* The types; a worker stands inside a block only while it has one. *)
TypeOK ==
    /\ conn \in [Fds -> Conns \cup {None}]
    /\ clients \subseteq Fds
    /\ registry \in [Fds -> Writers \cup {None}]
    /\ \A w \in Writers :
         /\ writer[w].conn \in Conns \cup {None}
         /\ writer[w].open \in BOOLEAN /\ writer[w].cancelled \in BOOLEAN
         /\ \A i \in 1..Len(writer[w].queue) :
              writer[w].queue[i] \in Packet \cup {CloseBlock}
         /\ writer[w].bytes \in 0..Limit /\ writer[w].packets \in 0..MaxPackets
         /\ writer[w].late \in BOOLEAN /\ writer[w].pc \in WorkerState /\ writer[w].sent \in Nat
         /\ writer[w].pc # "idle" => writer[w].queue # <<>> /\ First(w).kind = "packet"
    /\ buffered \in 0..GlobalBytes
    /\ down \subseteq Conns

PacketBytes(block) == IF block.kind = "packet" THEN block.length ELSE 0
QueueBytes(q) == SumFunction([i \in DOMAIN q |-> PacketBytes(q[i])])
QueuedBytes(w) == QueueBytes(writer[w].queue)

(* Every byte reserved for a writer and for the process belongs to a packet
   that is still queued: cancellation, time-outs and failed writes neither
   leak the shared budget nor release it twice. *)
BytesAreConserved ==
    /\ \A w \in Writers : writer[w].bytes = QueuedBytes(w)
    /\ buffered = SumFunction([w \in Writers |-> QueuedBytes(w)])

(* "Close only on the worker, after in-flight syscalls have stopped": no
   worker is inside a write once its duplicate is closed and its number may be
   somebody else's. *)
NoWriteAfterClose ==
    \A w \in Writers : writer[w].pc \in {"check", "send", "shutdown"} => writer[w].open

(* A queued packet is delivered, fails or is cancelled: no queue and no part
   of the budget is held for ever by a peer that does not read. *)
QueuesDrain == \A w \in Writers : writer[w].queue # <<>> ~> writer[w].queue = <<>>

(* A connection that is down gives back every descriptor the host holds for
   it: its number and each writer's duplicate. *)
BrokenConnectionsAreReleased ==
    \A c \in Conns : c \in down ~> /\ \A fd \in Fds : conn[fd] # c
                                   /\ \A w \in Writers : writer[w].conn # c
-----------------------------------------------------------------------------
(* The abstract streams, which see neither writers nor descriptor numbers. *)
Streams == INSTANCE OrderedStreams WITH carried <- wire, broken <- down

(* The writers of a connection, one after the other or left over from a refused
   packet, together implement one ordered stream ("Never append another packet to
   that partial one"): each step of the model is a step of OrderedStreams or leaves
   the stream alone. *)
ImplementsOrderedStreams == Streams!Spec
=============================================================================
