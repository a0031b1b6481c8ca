--------------------------- MODULE DriverDisplay ----------------------------
(***************************************************************************)
(* How a window's pixels get from a Wine process to the host's framebuffer *)
(* (wine/dlls/wineios.drv/iosdrv.c and ipc.c), end to end: the window      *)
(* surfaces with their dirty bounds, the driver's table of baselines, one  *)
(* socket per connection generation, and the host's reader of each         *)
(* connection (app/JuiceDisplayTransportHardening.m, whose own details are *)
(* in DisplayTransport).                                                   *)
(*                                                                         *)
(* A picture is a function from tiles to contents: its domain is the       *)
(* geometry of the surface, a set of tiles is a dirty rectangle, and 0 is  *)
(* the blank a surface starts with.  A connection is named by its          *)
(* generation; descriptor numbers are the business of DriverInput and      *)
(* DisplayTransport.  Both ends run under a lock while they send or apply  *)
(* one message, so that is one step.                                       *)
(***************************************************************************)
EXTENDS Integers, Sequences

CONSTANTS
    Hwnds,           \* top-level windows, whose handles are used again
    Geometries,      \* sets of tiles a surface can have
    MaxGeneration,   \* bound on the connections made
    MaxContent,      \* bound on the drawing done
    MaxWire,         \* bound on the messages waiting in a socket
    CrossThread,     \* other threads of the process flush and handle text too
    PromptTeardown,  \* a reader ends before the next connection is served
    None

ASSUME BoundsAssumption == MaxGeneration \in Nat /\ MaxContent \in Nat /\ MaxWire \in Nat
ASSUME ThreadsAssumption == CrossThread \in BOOLEAN /\ PromptTeardown \in BOOLEAN

VARIABLES
    generation,  \* ipc_generation
    open,        \* ipc_fd >= 0
    baseline,    \* surface_generations: hwnd -> generation, 0 without an entry
    life,        \* how far the creation or destruction of a window has come
    current,     \* the surface of the window, in the list Wine flushes
    created,     \* a surface created for it that is not in that list yet
    content,     \* the number of drawing operations so far
    wire,        \* generation -> messages in the socket
    conn,        \* generation -> how far the host is with the connection
    hand,        \* generation -> the message its reader has read, not applied
    host         \* hwnd -> the host's framebuffer

driver == <<generation, open, baseline>>
windows == <<life, current, created, content>>
hostVars == <<conn, hand, host>>
vars == <<driver, windows, wire, hostVars>>

Generations == 1..MaxGeneration
Tiles == UNION Geometries
Picture == UNION {[t -> 0..MaxContent] : t \in SUBSET Tiles}
Surface == {s \in [bits : Picture, bounds : SUBSET Tiles, presented : BOOLEAN] :
               s.bounds \subseteq DOMAIN s.bits}
Message == [kind : {"full", "dirty"}, hwnd : Hwnds, bits : Picture]
           \cup [kind : {"destroy"}, hwnd : Hwnds]
Framebuffer == [owner : Generations, bits : Picture]

ASSUME NoneAssumption == None \notin Surface \cup Message \cup Framebuffer

Init == /\ generation = 0 /\ open = FALSE
        /\ baseline = [h \in Hwnds |-> 0]
        /\ life = [h \in Hwnds |-> "free"]
        /\ current = [h \in Hwnds |-> None]
        /\ created = [h \in Hwnds |-> None]
        /\ content = 0
        /\ wire = [g \in Generations |-> <<>>]
        /\ conn = [g \in Generations |-> "none"]
        /\ hand = [g \in Generations |-> None]
        /\ host = [h \in Hwnds |-> None]

-----------------------------------------------------------------------------
(* The connection. *)

(* The generation a message sent now belongs to: connect_ipc_locked makes a new
   connection when there is none. *)
Sending == IF open THEN generation ELSE generation + 1

(* The host may or may not accept; it serves connections concurrently. *)
CanConnect ==
    \/ open
    \/ /\ generation < MaxGeneration
       /\ PromptTeardown => \A g \in 1..generation : conn[g] = "ended"

ConnectKeepsNumber ==   \* mutant: a reconnect does not count the generation
    /\ CanConnect
    /\ generation' = IF generation = 0 THEN 1 ELSE generation
    /\ open' = TRUE
    /\ conn' = [conn EXCEPT ![generation'] = IF open THEN @ ELSE "up"]

Connect ==
    /\ CanConnect
    /\ generation' = Sending
    /\ open' = TRUE
    /\ conn' = [conn EXCEPT ![Sending] = IF open THEN @ ELSE "up"]

(* The host is not listening: ipc_fd stays -1. *)
CannotConnect == ~open /\ UNCHANGED <<driver, wire, conn>>

(* write_all or writev_all fails: the host has shut the connection down. *)
WriteFails ==
    /\ open /\ conn[generation] # "up"
    /\ open' = FALSE
    /\ UNCHANGED <<generation, baseline, wire, conn>>

Written(m) == /\ Connect
              /\ conn'[generation'] = "up" /\ Len(wire[generation']) < MaxWire
              /\ wire' = [wire EXCEPT ![generation'] = Append(@, m)]

(* send_msg for a message that changes no baseline. *)
Send(m) == \/ Written(m) /\ UNCHANGED baseline
           \/ WriteFails \/ CannotConnect

(* A rectangle smaller than the surface is sent as such only when this
   connection has had a complete framebuffer of the window. *)
Partial(h, bits, dirty) == dirty # DOMAIN bits /\ baseline[h] = Sending

Frame(h, bits, dirty) ==
    IF Partial(h, bits, dirty)
    THEN [kind |-> "dirty", hwnd |-> h, bits |-> [t \in dirty |-> bits[t]]]
    ELSE [kind |-> "full", hwnd |-> h, bits |-> bits]

(* ios_ipc_present *)
Present(h, bits, dirty) ==
    \/ /\ Written(Frame(h, bits, dirty))
       /\ baseline' = [baseline EXCEPT ![h] = generation']
    \/ WriteFails \/ CannotConnect

(* WINDOW messages and the input side of any thread also reconnect... *)
Reconnect ==
    /\ ~open /\ Connect
    /\ UNCHANGED <<baseline, windows, wire, hand, host>>

(* ... and find out that the host has gone (recv returns 0). *)
SeesHostGone ==
    /\ WriteFails
    /\ UNCHANGED <<windows, hand, host>>

(* The input side gives up a connection the host still serves: an oversized
   header, no memory for a payload. *)
InputGivesUp ==
    /\ open /\ conn[generation] = "up"
    /\ open' = FALSE
    /\ UNCHANGED <<generation, baseline, windows, wire, hostVars>>

-----------------------------------------------------------------------------
(* Windows and surfaces.  The thread that owns a window creates its surface and
   replaces it in Wine's list; a step of another thread may fall in between. *)

Quiet(h) == created[h] = None /\ life[h] = "live"
MayInterfere(h) == CrossThread \/ Quiet(h)

CreateWindow(h) ==
    /\ life[h] = "free"
    /\ life' = [life EXCEPT ![h] = "live"]
    /\ UNCHANGED <<driver, current, created, content, wire, hostVars>>

NewSurfaceSeeded(geometry) ==   \* mutant: a resized surface keeps `presented'
    [bits |-> [t \in geometry |-> 0], bounds |-> {}, presented |-> TRUE]

NewSurface(geometry) ==
    [bits |-> [t \in geometry |-> 0], bounds |-> {}, presented |-> FALSE]

(* ios_CreateWindowSurface: the same size keeps the surface it has. *)
CreateSurface(h, geometry) ==
    /\ Quiet(h)
    /\ current[h] # None => DOMAIN current[h].bits # geometry
    /\ created' = [created EXCEPT ![h] = NewSurface(geometry)]
    /\ UNCHANGED <<driver, life, current, content, wire, hostVars>>

(* register_window_surface; the old surface is released. *)
RegisterSurface(h) ==
    /\ created[h] # None
    /\ current' = [current EXCEPT ![h] = created[h]]
    /\ created' = [created EXCEPT ![h] = None]
    /\ UNCHANGED <<driver, life, content, wire, hostVars>>

Drawn(s, t) == [bits |-> [s.bits EXCEPT ![t] = content + 1],
                bounds |-> s.bounds \cup {t}, presented |-> s.presented]

Draw(h, t) ==
    /\ current[h] # None /\ life[h] = "live" /\ t \in DOMAIN current[h].bits
    /\ content < MaxContent
    /\ content' = content + 1
    /\ current' = [current EXCEPT ![h] = Drawn(current[h], t)]
    /\ UNCHANGED <<driver, life, created, wire, hostVars>>

(* surface_flush: whatever becomes of the frame, the surface counts as presented
   and Wine clears its bounds. *)
Flush(h) ==
    LET s == current[h] IN
    /\ s # None /\ s.bounds # {} /\ MayInterfere(h)
    /\ Present(h, s.bits, IF s.presented THEN s.bounds ELSE DOMAIN s.bits)
    /\ current' = [current EXCEPT ![h].presented = TRUE, ![h].bounds = {}]
    /\ UNCHANGED <<life, created, content, hand, host>>

(* iosdrv_present_now, after a TEXT message: the newest surface in the driver's own
   list, in full. *)
PresentNow(h) ==
    LET s == IF created[h] # None THEN created[h] ELSE current[h] IN
    /\ s # None /\ MayInterfere(h)
    /\ Present(h, s.bits, DOMAIN s.bits)
    /\ IF created[h] # None
         THEN /\ created' = [created EXCEPT ![h].presented = TRUE]
              /\ UNCHANGED current
         ELSE /\ current' = [current EXCEPT ![h].presented = TRUE]
              /\ UNCHANGED created
    /\ UNCHANGED <<life, content, hand, host>>

(* destroy_window: the surface goes first. *)
DestroyWindow(h) ==
    /\ Quiet(h)
    /\ life' = [life EXCEPT ![h] = "destroying"]
    /\ current' = [current EXCEPT ![h] = None]
    /\ UNCHANGED <<driver, created, content, wire, hostVars>>

(* destroy_thread_windows: the surface goes last. *)
ThreadExits(h) ==
    /\ Quiet(h)
    /\ life' = [life EXCEPT ![h] = "destroying"]
    /\ UNCHANGED <<driver, current, created, content, wire, hostVars>>

(* ios_ipc_destroy sends in one critical section... *)
SendDestroy(h) ==
    /\ life[h] = "destroying"
    /\ Send([kind |-> "destroy", hwnd |-> h])
    /\ life' = [life EXCEPT ![h] = "forgetting"]
    /\ UNCHANGED <<current, created, content, hand, host>>

(* ... and forgets the baseline in another. *)
Forget(h) ==
    /\ life[h] = "forgetting"
    /\ baseline' = [baseline EXCEPT ![h] = 0]
    /\ life' = [life EXCEPT ![h] = "releasing"]
    /\ UNCHANGED <<generation, open, current, created, content, wire, hostVars>>

ReleaseSurface(h) ==
    /\ life[h] = "releasing"
    /\ life' = [life EXCEPT ![h] = "free"]
    /\ current' = [current EXCEPT ![h] = None]
    /\ UNCHANGED <<driver, created, content, wire, hostVars>>

-----------------------------------------------------------------------------
(* The host's reader of connection g. *)

HostReads(g) ==
    /\ conn[g] = "up" /\ hand[g] = None /\ wire[g] # <<>>
    /\ hand' = [hand EXCEPT ![g] = Head(wire[g])]
    /\ wire' = [wire EXCEPT ![g] = Tail(@)]
    /\ UNCHANGED <<driver, windows, conn, host>>

Merge(old, new) == [t \in DOMAIN old |-> IF t \in DOMAIN new THEN new[t] ELSE old[t]]

Accepted(g, m) == /\ host[m.hwnd] # None
                  /\ host[m.hwnd].owner = g
                  /\ DOMAIN m.bits \subseteq DOMAIN host[m.hwnd].bits

DestroyOwn(g, m) ==
    host' = [host EXCEPT ![m.hwnd] =
                IF @ # None /\ @.owner = g THEN None ELSE @]

(* JuiceApplyDirty: a rectangle without its own baseline is dropped. *)
ApplyDirty(g, m) ==
    \/ Accepted(g, m) /\ host' = [host EXCEPT ![m.hwnd].bits = Merge(@, m.bits)]
    \/ ~Accepted(g, m) /\ UNCHANGED host

(* JuiceApplyFull takes the framebuffer over, whoever owned it. *)
HostApplies(g) ==
    LET m == hand[g] IN
    /\ m # None
    /\ \/ /\ m.kind = "full"
          /\ host' = [host EXCEPT ![m.hwnd] = [owner |-> g, bits |-> m.bits]]
       \/ m.kind = "dirty" /\ ApplyDirty(g, m)
       \/ m.kind = "destroy" /\ DestroyOwn(g, m)
    /\ hand' = [hand EXCEPT ![g] = None]
    /\ UNCHANGED <<driver, windows, wire, conn>>

(* The input writer of the connection failed or its queue was full: shutdown() of
   both directions, the unread bytes are gone. *)
HostShutsDown(g) ==
    /\ conn[g] = "up"
    /\ conn' = [conn EXCEPT ![g] = "shut"]
    /\ wire' = [wire EXCEPT ![g] = <<>>]
    /\ UNCHANGED <<driver, windows, hand, host>>

DriverClosed(g) == g < generation \/ ~open

(* End of file after what was sent, or the shutdown: JuiceInvalidateClient. *)
HostReaderEnds(g) ==
    /\ hand[g] = None /\ wire[g] = <<>>
    /\ \/ conn[g] = "shut"
       \/ conn[g] = "up" /\ DriverClosed(g)
    /\ conn' = [conn EXCEPT ![g] = "ended"]
    /\ host' = [h \in Hwnds |-> IF host[h] # None /\ host[h].owner = g
                                THEN None ELSE host[h]]
    /\ UNCHANGED <<driver, windows, wire, hand>>

-----------------------------------------------------------------------------
WindowStep(h) == \/ CreateWindow(h) \/ RegisterSurface(h)
                 \/ \E G \in Geometries : CreateSurface(h, G)
                 \/ \E t \in Tiles : Draw(h, t)
                 \/ Flush(h) \/ PresentNow(h)
                 \/ DestroyWindow(h) \/ ThreadExits(h)
                 \/ SendDestroy(h) \/ Forget(h) \/ ReleaseSurface(h)

HostStep(g) == HostReads(g) \/ HostApplies(g) \/ HostShutsDown(g) \/ HostReaderEnds(g)

Next == \/ \E h \in Hwnds : WindowStep(h)
        \/ \E g \in Generations : HostStep(g)
        \/ Reconnect \/ SeesHostGone \/ InputGivesUp

Spec == Init /\ [][Next]_vars

-----------------------------------------------------------------------------
TypeOK ==
    /\ generation \in 0..MaxGeneration /\ open \in BOOLEAN
    /\ baseline \in [Hwnds -> 0..MaxGeneration]
    /\ life \in [Hwnds -> {"free", "live", "destroying", "forgetting", "releasing"}]
    /\ current \in [Hwnds -> Surface \cup {None}]
    /\ created \in [Hwnds -> Surface \cup {None}]
    /\ content \in 0..MaxContent
    /\ wire \in [Generations -> Seq(Message)]
    /\ conn \in [Generations -> {"none", "up", "shut", "ended"}]
    /\ hand \in [Generations -> Message \cup {None}]
    /\ host \in [Hwnds -> Framebuffer \cup {None}]

(* The host has applied everything the driver sent on the connection it uses. *)
Drained == /\ open /\ conn[generation] = "up"
           /\ wire[generation] = <<>> /\ hand[generation] = None

(* The window has been presented, and the driver takes the host to have a complete
   framebuffer of it. *)
Seeded(h) == /\ Quiet(h) /\ current[h] # None /\ current[h].presented
             /\ baseline[h] = generation

(* Merging rectangles gives the right picture: once the messages are applied, the
   framebuffer has the geometry of the surface and equals it everywhere but in the
   bounds that are still to be flushed, across resizes, lost connections and
   recycled handles (ipc.c 452-516, JuiceApplyDirty); a destroyed window has none. *)
PictureIsTheSurface ==
    Drained => \A h \in Hwnds : host[h] # None /\ host[h].owner = generation =>
        /\ life[h] # "free"
        /\ Seeded(h) =>
              /\ DOMAIN host[h].bits = DOMAIN current[h].bits
              /\ \A t \in DOMAIN host[h].bits \ current[h].bounds :
                    host[h].bits[t] = current[h].bits[t]

(* "The Wine transport reconnects on demand and sends a new full baseline per HWND"
   (app/JuiceReconnectGrace.m:8-9): what the driver's table says of the current
   connection is true of the host, and a rectangle that arrives on it finds the
   framebuffer of its own surface, not none and not one of another size: "The receiver
   needs one complete framebuffer before packed dirty updates can be merged"
   (iosdrv.c:145). *)
BaselineIsShared ==
    /\ Drained => \A h \in Hwnds :
          Seeded(h) => host[h] # None /\ host[h].owner = generation
    /\ LET m == hand[generation] IN
          /\ open /\ conn[generation] = "up"
          /\ m # None /\ m.kind = "dirty"
          => Accepted(generation, m)
=============================================================================
