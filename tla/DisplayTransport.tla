-------------------------- MODULE DisplayTransport --------------------------
(***************************************************************************)
(* The host side of the display connection                                 *)
(* (app/JuiceDisplayTransportHardening.m): one reader thread per           *)
(* connection, shared framebuffers, one serial snapshot queue, the main    *)
(* queue that presents, and the teardown that gives a descriptor number    *)
(* back to the kernel.                                                     *)
(*                                                                         *)
(* A connection is named by its descriptor number, as in the code, and the *)
(* kernel hands a closed number out again.  Pixels are left out: a frame   *)
(* is known by its size (geometry and byte count) and by the generation    *)
(* its contents have.  Descriptors are never -1 here; Detached is the -1 a *)
(* retained window state gets.                                             *)
(***************************************************************************)
EXTENDS Integers, Sequences, FiniteSets, Functions

CONSTANTS
    Fds,                \* descriptor numbers
    Hwnds,              \* window handles
    Peers,              \* process identifiers announced by HELLO
    Sizes,              \* frame geometries, each with its byte count
    Frames,             \* identities of JuiceDisplayFramebuffer objects
    None, Detached,
    MaxInFlight,        \* JUICE_DISPLAY_MAX_BYTES
    MaxRetained,        \* JUICE_DISPLAY_MAX_RETAINED_BYTES
    MaxWindows,         \* JUICE_DISPLAY_MAX_RETAINED_WINDOWS
    MaxGeneration,      \* bound on a frame's generation
    MaxBacklog          \* bound on window blocks waiting on the main queue

ASSUME NamesAssumption == /\ None \notin Fds \cup Frames
                          /\ Detached \notin Fds \cup {None}
                          /\ 0 \notin Peers
ASSUME FiniteAssumption == IsFiniteSet(Fds) /\ IsFiniteSet(Hwnds)
ASSUME SizesAssumption == Sizes \subseteq Nat \ {0}
ASSUME BoundsAssumption == MaxInFlight \in Nat /\ MaxRetained \in Nat
                           /\ MaxWindows \in Nat /\ MaxGeneration \in Nat \ {0}
                           /\ MaxBacklog \in Nat

VARIABLES
    reader,     \* per descriptor: where its reader thread stands
    clients,    \* descriptors input may be sent to
    frames,     \* hwnd -> framebuffer object
    buffer,     \* the framebuffer objects
    pending,    \* reserved in-flight payload bytes
    passes,     \* DeliverFrame blocks on the snapshot queue, per object
    mainQueue,  \* blocks posted to the main queue, first in first out
    windows,    \* hwnd -> clientFD of its WineWindowState, Detached or None
    shown       \* history: generation of each object last presented

hostVars == <<frames, buffer>>
vars == <<reader, clients, hostVars, pending, passes, mainQueue, windows, shown>>

-----------------------------------------------------------------------------
(* A framebuffer.  Once invalidated its bytes are nil and no other field but
   `scheduled` is read again. *)
Invalidated == [live |-> FALSE, scheduled |-> FALSE]
Buffer == [live : {FALSE}, scheduled : BOOLEAN]
          \cup [live : {TRUE}, scheduled : BOOLEAN, hwnd : Hwnds, size : Sizes,
                fd : Fds, pid : Peers \cup {0}, gen : 1..MaxGeneration]
Invalidate(b) == [Invalidated EXCEPT !.scheduled = b.scheduled]

(* The message a reader is busy with; the frame it is about to schedule. *)
Message == [hwnd : Hwnds, size : Sizes, dirty : BOOLEAN]
ReaderState == {"closed", "reading", "payload", "schedule", "destroy", "broken",
                "invalidated", "waiting", "torn"}
Reader == [st : ReaderState, pid : Peers \cup {0},
           msg : Message \cup Hwnds \cup {None}, frame : Frames \cup {None}]
ClosedReader == [st |-> "closed", pid |-> 0, msg |-> None, frame |-> None]
NewReader == [ClosedReader EXCEPT !.st = "reading"]

Block == [kind : {"window", "destroy"}, hwnd : Hwnds, fd : Fds]
         \cup [kind : {"teardown"}, fd : Fds]
         \cup [kind : {"present", "show", "presented"}, frame : Frames, hwnd : Hwnds,
               fd : Fds, pid : Peers \cup {0}, gen : 1..MaxGeneration]

Init == /\ reader = [fd \in Fds |-> ClosedReader]
        /\ clients = {}
        /\ frames = [h \in Hwnds |-> None]
        /\ buffer = [o \in Frames |-> Invalidated]
        /\ pending = 0
        /\ passes = [o \in Frames |-> 0]
        /\ mainQueue = <<>>
        /\ windows = [h \in Hwnds |-> None]
        /\ shown = [o \in Frames |-> 0]

Goto(fd, st) == reader' = [reader EXCEPT ![fd].st = st]
Finish(fd, st) == reader' = [reader EXCEPT ![fd] =
                               [@ EXCEPT !.st = st, !.msg = None, !.frame = None]]
Post(block) == mainQueue' = Append(mainQueue, block)

-----------------------------------------------------------------------------
(* The accept loop: the number is registered before the reader starts. *)
Accept(fd) ==
    /\ reader[fd].st = "closed"
    /\ reader' = [reader EXCEPT ![fd] = NewReader]
    /\ clients' = clients \cup {fd}
    /\ UNCHANGED <<hostVars, pending, passes, mainQueue, windows, shown>>

(* End of file, a read error, or a header the reader rejects. *)
ReadFails(fd) ==
    /\ reader[fd].st = "reading"
    /\ Goto(fd, "broken")
    /\ UNCHANGED <<clients, hostVars, pending, passes, mainQueue, windows, shown>>

Hello(fd, pid) ==
    /\ reader[fd].st = "reading"
    /\ reader' = [reader EXCEPT ![fd].pid = pid]
    /\ UNCHANGED <<clients, hostVars, pending, passes, mainQueue, windows, shown>>

WindowMessage(fd, h) ==
    /\ reader[fd].st = "reading" /\ Len(mainQueue) < MaxBacklog
    /\ Post([kind |-> "window", hwnd |-> h, fd |-> fd])
    /\ UNCHANGED <<reader, clients, hostVars, pending, passes, windows, shown>>

InvalidateNothing(h, fd) == UNCHANGED hostVars   \* mutant: the frame survives

(* JuiceInvalidateHWND: only the connection that owns the frame. *)
InvalidateHWND(h, fd) ==
    LET o == frames[h] IN
    \/ /\ o # None /\ buffer[o].fd = fd
       /\ buffer' = [buffer EXCEPT ![o] = Invalidate(@)]
       /\ frames' = [frames EXCEPT ![h] = None]
    \/ /\ o # None => buffer[o].fd # fd
       /\ UNCHANGED hostVars

(* DESTROY: first the framebuffer, then the block for the window. *)
DestroyMessage(fd, h) ==
    /\ reader[fd].st = "reading" /\ Len(mainQueue) < MaxBacklog
    /\ InvalidateHWND(h, fd)
    /\ reader' = [reader EXCEPT ![fd].st = "destroy", ![fd].msg = h]
    /\ UNCHANGED <<clients, pending, passes, mainQueue, windows, shown>>

DestroyPosted(fd) ==
    /\ reader[fd].st = "destroy"
    /\ Post([kind |-> "destroy", hwnd |-> reader[fd].msg, fd |-> fd])
    /\ Finish(fd, "reading")
    /\ UNCHANGED <<clients, hostVars, pending, passes, windows, shown>>

-----------------------------------------------------------------------------
(* FRAME: JuiceReserveDisplayPayload, the payload, JuiceApplyFull or
   JuiceApplyDirty, JuiceScheduleFrame, and the release in @finally. *)
FrameHeader(fd, m) ==
    /\ reader[fd].st = "reading"
    /\ \/ /\ m.size <= MaxInFlight - pending
          /\ pending' = pending + m.size
          /\ reader' = [reader EXCEPT ![fd].st = "payload", ![fd].msg = m]
       \/ /\ m.size > MaxInFlight - pending
          /\ Goto(fd, "broken")
          /\ UNCHANGED pending
    /\ UNCHANGED <<clients, hostVars, passes, mainQueue, windows, shown>>

PayloadFailsKeepsBytes(fd) ==   \* mutant: no @finally on this path
    /\ reader[fd].st = "payload"
    /\ Finish(fd, "broken")
    /\ UNCHANGED <<clients, hostVars, pending, passes, mainQueue, windows, shown>>

PayloadFails(fd) ==
    /\ reader[fd].st = "payload"
    /\ pending' = pending - reader[fd].msg.size
    /\ Finish(fd, "broken")
    /\ UNCHANGED <<clients, hostVars, passes, mainQueue, windows, shown>>

Bytes(h) == IF frames[h] = None THEN 0 ELSE buffer[frames[h]].size
RetainedBytes(hs) == SumFunctionOnSet([h \in Hwnds |-> Bytes(h)], hs)
Tracked == {h \in Hwnds : frames[h] # None}

(* Objects nobody refers to any more, so that identities can be used again. *)
FreeFrames == {o \in Frames : /\ buffer[o] = Invalidated
                              /\ \A fd \in Fds : reader[fd].frame # o}

OverBudget(m) ==
    \/ frames[m.hwnd] = None /\ Cardinality(Tracked) >= MaxWindows
    \/ m.size > MaxRetained - RetainedBytes(Hwnds \ {m.hwnd})

SameGeometry(m) == frames[m.hwnd] # None /\ buffer[frames[m.hwnd]].size = m.size

(* Take over the framebuffer of the same geometry, whoever owned it. *)
TakeOver(fd, m, o) ==
    /\ buffer[o].gen < MaxGeneration
    /\ buffer' = [buffer EXCEPT ![o].fd = fd, ![o].pid = reader[fd].pid,
                                ![o].gen = @ + 1]
    /\ UNCHANGED <<frames, shown>>

(* Invalidate the old object, if any, and install a new one. *)
Install(fd, m, o) ==
    LET old == frames[m.hwnd] IN
    /\ buffer' = [[b \in Frames |-> IF b = old THEN Invalidate(buffer[b]) ELSE buffer[b]]
                     EXCEPT ![o] = [live |-> TRUE, scheduled |-> FALSE,
                                    hwnd |-> m.hwnd, size |-> m.size, fd |-> fd,
                                    pid |-> reader[fd].pid, gen |-> 1]]
    /\ frames' = [frames EXCEPT ![m.hwnd] = o]
    /\ shown' = [shown EXCEPT ![o] = 0]

ApplyFull(fd) ==
    LET m == reader[fd].msg IN
    /\ reader[fd].st = "payload" /\ ~m.dirty
    /\ \/ /\ OverBudget(m)
          /\ pending' = pending - m.size
          /\ Finish(fd, "broken")
          /\ UNCHANGED <<hostVars, shown>>
       \/ /\ ~OverBudget(m)
          /\ \E o \in Frames :
                /\ \/ SameGeometry(m) /\ o = frames[m.hwnd] /\ TakeOver(fd, m, o)
                   \/ ~SameGeometry(m) /\ o \in FreeFrames /\ Install(fd, m, o)
                /\ reader' = [reader EXCEPT ![fd].st = "schedule", ![fd].frame = o]
          /\ UNCHANGED pending
    /\ UNCHANGED <<clients, passes, mainQueue, windows>>

(* A dirty rectangle needs the sender's own baseline that contains it; anything
   else is dropped without a word and the connection stays up. *)
Accepts(fd, m) ==
    LET o == frames[m.hwnd] IN
    /\ o # None
    /\ buffer[o].fd = fd /\ buffer[o].pid = reader[fd].pid
    /\ m.size <= buffer[o].size

ApplyDirty(fd) ==
    LET m == reader[fd].msg
        o == frames[m.hwnd] IN
    /\ reader[fd].st = "payload" /\ m.dirty
    /\ \/ /\ Accepts(fd, m) /\ buffer[o].gen < MaxGeneration
          /\ buffer' = [buffer EXCEPT ![o].gen = @ + 1]
          /\ reader' = [reader EXCEPT ![fd].st = "schedule", ![fd].frame = o]
          /\ UNCHANGED pending
       \/ /\ ~Accepts(fd, m)
          /\ pending' = pending - m.size
          /\ Finish(fd, "reading")
          /\ UNCHANGED buffer
    /\ UNCHANGED <<clients, frames, passes, mainQueue, windows, shown>>

ScheduleAlways(fd) ==   \* mutant: the scheduled flag is not consulted
    LET o == reader[fd].frame IN
    /\ reader[fd].st = "schedule" /\ passes[o] < 2
    /\ buffer' = [buffer EXCEPT ![o].scheduled = buffer[o].live \/ @]
    /\ passes' = [passes EXCEPT ![o] = IF buffer[o].live THEN @ + 1 ELSE @]
    /\ pending' = pending - reader[fd].msg.size
    /\ Finish(fd, "reading")
    /\ UNCHANGED <<clients, frames, mainQueue, windows, shown>>

ScheduleFrame(fd) ==
    LET o == reader[fd].frame
        schedule == buffer[o].live /\ ~buffer[o].scheduled IN
    /\ reader[fd].st = "schedule"
    /\ buffer' = [buffer EXCEPT ![o].scheduled = schedule \/ @]
    /\ passes' = [passes EXCEPT ![o] = IF schedule THEN @ + 1 ELSE @]
    /\ pending' = pending - reader[fd].msg.size
    /\ Finish(fd, "reading")
    /\ UNCHANGED <<clients, frames, mainQueue, windows, shown>>

-----------------------------------------------------------------------------
(* JuiceDeliverFrame on the snapshot queue.  The rate limit only delays the
   block: it stays queued and `scheduled` stays set. *)
DeliverFrame(o) ==
    /\ passes[o] > 0
    /\ passes' = [passes EXCEPT ![o] = @ - 1]
    /\ \/ /\ ~buffer[o].live
          /\ buffer' = [buffer EXCEPT ![o].scheduled = FALSE]
          /\ UNCHANGED mainQueue
       \/ /\ buffer[o].live
          /\ Post([kind |-> "present", frame |-> o, hwnd |-> buffer[o].hwnd,
                   fd |-> buffer[o].fd, pid |-> buffer[o].pid, gen |-> buffer[o].gen])
          /\ UNCHANGED buffer
    /\ UNCHANGED <<reader, clients, frames, pending, windows, shown>>

(* The head of the main queue, when it is a block of this kind. *)
AtHead(kind) == mainQueue # <<>> /\ Head(mainQueue).kind = kind

(* Ownership is checked again on the main queue, at the last moment before the
   image is shown... *)
PresentChecks ==
    LET b == Head(mainQueue)
        f == buffer[b.frame]
        present == f.live /\ f.fd = b.fd /\ f.pid = b.pid IN
    /\ AtHead("present")
    /\ mainQueue' = [mainQueue EXCEPT ![1].kind = IF present THEN "show" ELSE "presented"]
    /\ UNCHANGED <<reader, clients, hostVars, pending, passes, windows, shown>>

(* ... but the lock is not held while the image is shown. *)
PresentFrame ==
    LET b == Head(mainQueue) IN
    /\ AtHead("show")
    /\ windows' = [windows EXCEPT ![b.hwnd] = b.fd]
    /\ shown' = [shown EXCEPT ![b.frame] = b.gen]
    /\ mainQueue' = [mainQueue EXCEPT ![1].kind = "presented"]
    /\ UNCHANGED <<reader, clients, hostVars, pending, passes>>

PresentEndsOnce ==   \* mutant: a frame that changed meanwhile is not delivered again
    LET b == Head(mainQueue) IN
    /\ AtHead("presented")
    /\ buffer' = [buffer EXCEPT ![b.frame].scheduled = FALSE]
    /\ mainQueue' = Tail(mainQueue)
    /\ UNCHANGED <<reader, clients, frames, pending, passes, windows, shown>>

(* After presenting: deliver once more if the contents changed meanwhile. *)
PresentEnds ==
    LET b == Head(mainQueue)
        f == buffer[b.frame]
        again == f.live /\ f.gen # b.gen IN
    /\ AtHead("presented")
    /\ buffer' = [buffer EXCEPT ![b.frame].scheduled = again]
    /\ passes' = [passes EXCEPT ![b.frame] = IF again THEN @ + 1 ELSE @]
    /\ mainQueue' = Tail(mainQueue)
    /\ UNCHANGED <<reader, clients, frames, pending, windows, shown>>

(* -updateWindowMessage:client: assigns the window to the sending connection. *)
WindowBlock ==
    LET b == Head(mainQueue) IN
    /\ AtHead("window")
    /\ windows' = [windows EXCEPT ![b.hwnd] = b.fd]
    /\ mainQueue' = Tail(mainQueue)
    /\ UNCHANGED <<reader, clients, hostVars, pending, passes, shown>>

(* A window another connection has taken over is not destroyed. *)
DestroyBlock ==
    LET b == Head(mainQueue) IN
    /\ AtHead("destroy")
    /\ windows' = [windows EXCEPT ![b.hwnd] = IF @ = b.fd THEN None ELSE @]
    /\ mainQueue' = Tail(mainQueue)
    /\ UNCHANGED <<reader, clients, hostVars, pending, passes, shown>>

-----------------------------------------------------------------------------
(* Teardown. *)

(* JuiceInvalidateClient *)
InvalidateClient(fd) ==
    LET own == {h \in Hwnds : frames[h] # None /\ buffer[frames[h]].fd = fd} IN
    /\ reader[fd].st = "broken"
    /\ buffer' = [o \in Frames |-> IF \E h \in own : frames[h] = o
                                    THEN Invalidate(buffer[o]) ELSE buffer[o]]
    /\ frames' = [h \in Hwnds |-> IF h \in own THEN None ELSE frames[h]]
    /\ Goto(fd, "invalidated")
    /\ UNCHANGED <<clients, pending, passes, mainQueue, windows, shown>>

RemoveClientAsync(fd) ==   \* mutant: dispatch_async instead of dispatch_sync
    /\ reader[fd].st = "invalidated"
    /\ clients' = clients \ {fd}
    /\ Post([kind |-> "teardown", fd |-> fd])
    /\ Goto(fd, "torn")
    /\ UNCHANGED <<hostVars, pending, passes, windows, shown>>

(* Out of the set that sendMessage: consults; then dispatch_sync. *)
RemoveClient(fd) ==
    /\ reader[fd].st = "invalidated"
    /\ clients' = clients \ {fd}
    /\ Post([kind |-> "teardown", fd |-> fd])
    /\ Goto(fd, "waiting")
    /\ UNCHANGED <<hostVars, pending, passes, windows, shown>>

(* -removeWindowsForClient:, as JuiceReconnectGrace.m replaces it: the states are
   retained for the grace period, without the descriptor. *)
TeardownBlock ==
    LET fd == Head(mainQueue).fd IN
    /\ AtHead("teardown")
    /\ windows' = [h \in Hwnds |-> IF windows[h] = fd THEN Detached ELSE windows[h]]
    /\ mainQueue' = Tail(mainQueue)
    /\ Goto(fd, "torn")
    /\ UNCHANGED <<clients, hostVars, pending, passes, shown>>

CloseDescriptorRetried(fd) ==   \* mutant: a failing close() repeats the teardown
    /\ reader[fd].st = "torn"
    /\ reader' = [reader EXCEPT ![fd] = [ClosedReader EXCEPT !.st = "broken"]]
    /\ UNCHANGED <<clients, hostVars, pending, passes, mainQueue, windows, shown>>

(* The number goes back to the kernel last. *)
CloseDescriptor(fd) ==
    /\ reader[fd].st = "torn"
    /\ reader' = [reader EXCEPT ![fd] = ClosedReader]
    /\ UNCHANGED <<clients, hostVars, pending, passes, mainQueue, windows, shown>>

(* The grace timer of JuiceReconnectGrace.m found the window unclaimed and its
   process gone. *)
GraceEnds(h) ==
    /\ windows[h] = Detached /\ ~AtHead("show") /\ ~AtHead("presented")
    /\ windows' = [windows EXCEPT ![h] = None]
    /\ UNCHANGED <<reader, clients, hostVars, pending, passes, mainQueue, shown>>

-----------------------------------------------------------------------------
ReadMessage(fd) == \/ ReadFails(fd)
                   \/ \E p \in Peers : Hello(fd, p)
                   \/ \E h \in Hwnds : WindowMessage(fd, h) \/ DestroyMessage(fd, h)
                   \/ \E m \in Message : FrameHeader(fd, m)

ReadPayload(fd) == PayloadFails(fd) \/ ApplyFull(fd) \/ ApplyDirty(fd)

Teardown(fd) == InvalidateClient(fd) \/ RemoveClient(fd) \/ CloseDescriptor(fd)

MainStep == \/ PresentChecks \/ PresentFrame \/ PresentEnds
            \/ WindowBlock \/ DestroyBlock \/ TeardownBlock

Next == \/ \E fd \in Fds : \/ Accept(fd) \/ ReadMessage(fd) \/ ReadPayload(fd)
                           \/ DestroyPosted(fd) \/ ScheduleFrame(fd) \/ Teardown(fd)
        \/ \E o \in Frames : DeliverFrame(o)
        \/ MainStep
        \/ \E h \in Hwnds : GraceEnds(h)

Spec == Init /\ [][Next]_vars

(* The two queues keep running, the rate limit is a finite delay, and a reader
   that waits for no input goes on.  Nothing is assumed about the peer. *)
Fairness == /\ WF_vars(MainStep)
            /\ \A o \in Frames : WF_vars(DeliverFrame(o))
            /\ \A fd \in Fds : /\ WF_vars(Teardown(fd)) /\ WF_vars(ScheduleFrame(fd))
                               /\ WF_vars(DestroyPosted(fd))

FairSpec == Spec /\ Fairness

-----------------------------------------------------------------------------
TypeOK ==
    /\ reader \in [Fds -> Reader]
    /\ clients \subseteq Fds
    /\ frames \in [Hwnds -> Frames \cup {None}]
    /\ buffer \in [Frames -> Buffer]
    /\ pending \in 0..MaxInFlight
    /\ passes \in [Frames -> Nat]
    /\ mainQueue \in Seq(Block)
    /\ windows \in [Hwnds -> Fds \cup {Detached, None}]
    /\ shown \in [Frames -> 0..MaxGeneration]

(* "A numeric descriptor must not become reusable until every host-side route
   has stopped naming it" (496-500): no client entry, framebuffer, window state or
   queued window, destroy or teardown block names a closed number, so none can
   come to mean the next connection that gets it. *)
RoutesNameOpenDescriptors ==
    \A fd \in Fds : reader[fd].st = "closed" =>
        /\ fd \notin clients
        /\ \A o \in Frames : buffer[o].live => buffer[o].fd # fd
        /\ \A h \in Hwnds : windows[h] # fd
        /\ \A i \in 1..Len(mainQueue) :
              mainQueue[i].kind \in {"window", "destroy", "teardown"} =>
                  mainQueue[i].fd # fd

(* A scheduled framebuffer has exactly one pass under way, on the snapshot queue
   or on the main queue, and an unscheduled one has none: packets are merged
   rather than copied at the producer's rate (306-316, 339-344, 368-375). *)
OnePassPerFrame ==
    \A o \in Frames :
        passes[o] + Cardinality({i \in 1..Len(mainQueue) :
                        /\ mainQueue[i].kind \in {"present", "show", "presented"}
                        /\ mainQueue[i].frame = o})
        = IF buffer[o].scheduled THEN 1 ELSE 0

(* What the reader of a connection has reserved and not given back yet. *)
Reserved(fd) == IF reader[fd].st \in {"payload", "schedule"} THEN reader[fd].msg.size ELSE 0

(* Reservations are given back on every path and never exceed the aggregate limit
   (90-111, 438-453), and all framebuffers together stay inside the retained limit
   although readers install them concurrently (241-249). *)
ByteBudgetsHold ==
    /\ pending = SumFunction([fd \in Fds |-> Reserved(fd)])
    /\ pending <= MaxInFlight
    /\ RetainedBytes(Hwnds) <= MaxRetained /\ Cardinality(Tracked) <= MaxWindows

(* A DESTROY does not take away contents that nobody presents again: a presentation
   that waits, or is under way, in front of a DESTROY of the same connection and window
   is of a framebuffer that the DESTROY invalidated (478-486), or of one that two
   connections take from each other and that has newer contents to deliver by now. *)
DestroySeparatesFrames ==
    \A i, j \in 1..Len(mainQueue) :
        /\ i < j /\ mainQueue[i].kind \in {"present", "show", "presented"}
        /\ mainQueue[j].kind = "destroy"
        /\ mainQueue[i].hwnd = mainQueue[j].hwnd /\ mainQueue[i].fd = mainQueue[j].fd
        => LET f == buffer[mainQueue[i].frame] IN f.live => f.gen # mainQueue[i].gen

(* The newest contents of a framebuffer are shown in the end, unless they are
   invalidated first: merging packets loses none of the last ones, also when the
   frame changes hands while a snapshot is in flight (319-378). *)
LatestFrameIsShown ==
    \A o \in Frames : (buffer[o].live /\ shown[o] < buffer[o].gen)
                      ~> (buffer[o].live => shown[o] = buffer[o].gen)

(* The dispatch_sync of a teardown always returns, and the number becomes usable
   again (506-516). *)
TeardownCompletes ==
    \A fd \in Fds : reader[fd].st = "broken" ~> reader[fd].st = "closed"
=============================================================================
