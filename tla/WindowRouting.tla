---------------------------- MODULE WindowRouting ----------------------------
(***************************************************************************)
(* Which connection the host's pointer and keyboard go to: the window      *)
(* states and their stacking order, the two display modes, the selected    *)
(* window (canvas.hwnd with activeClient), the pointer capture and the     *)
(* coalesced composite (app/main.m with the replacements of                *)
(* JuiceMultiWindowFix.m and JuiceReconnectGrace.m).                       *)
(*                                                                         *)
(* All of it runs on the main queue; the display readers' threads only     *)
(* open, end and close the connections.  DisplayTransport shows what is    *)
(* taken from it here: a window, destroy or present block of a connection  *)
(* runs before its teardown block.  Rectangles are left out: a viewport is *)
(* the set of windows it was computed from, {} being the whole desktop.    *)
(***************************************************************************)
EXTENDS Naturals, Sequences, FiniteSets

CONSTANTS
    Fds,        \* descriptor numbers
    Hwnds,      \* window handles
    None        \* -1 as a descriptor, 0 as a handle, nil as an object

(* What is kept of a WineWindowState: its owner (clientFD), `visible`, and
   whether it has an image. *)
WindowState == [fd : Fds \cup {None}, visible : BOOLEAN, image : BOOLEAN]

ASSUME NoneAssumption == None \notin Fds \cup Hwnds \cup WindowState

VARIABLES
    conn,               \* per descriptor: how far its connection has come
    windows,            \* wineWindows: hwnd -> WineWindowState, or None
    order,              \* wineWindowOrder, the topmost last
    multi,              \* experimentalMultiWindow
    canvas,             \* canvas.hwnd
    active,             \* activeClient
    input,              \* inputClient and inputHwnd, the pointer capture
    legacy,             \* lastLegacyClient and lastLegacyHwnd
    viewport,           \* JuiceCompositeViewportKey: what the screen shows
    locked,             \* JuiceCapturedViewportKey
    scheduled           \* JuiceCompositeScheduledKey

routes == <<canvas, active, input, legacy>>
screen == <<viewport, locked, scheduled>>
routingVars == <<conn, windows, order, multi, routes, screen>>

-----------------------------------------------------------------------------
(* open: in `clients`.  ended: its reader has invalidated its frames and
   taken it out of `clients`.  torn: the teardown block has run. *)
Connection == {"closed", "open", "ended", "torn"}
Capture == [fd : Fds, hwnd : Hwnds] \cup {[fd |-> None, hwnd |-> None]}
NoCapture == [fd |-> None, hwnd |-> None]

Tracked == {h \in Hwnds : windows[h] # None}
Drawable == {h \in Tracked : windows[h].visible /\ windows[h].image}
Without(h) == SelectSeq(order, LAMBDA k : k # h)

(* The last window of the stacking order among the given ones, if any. *)
IsTopmost(h, hs) ==
    \E i \in DOMAIN order : /\ order[i] = h
                            /\ \A j \in DOMAIN order : j > i => order[j] \notin hs
Topmost(hs) == IF \E h \in hs : IsTopmost(h, hs)
               THEN CHOOSE h \in hs : IsTopmost(h, hs) ELSE None

(* compositeWineDesktop: requests made before the block runs are merged. *)
RequestComposite(wanted) == scheduled' = (scheduled \/ (wanted /\ multi))

(* JuiceKeyboardClientForHWND and JuiceTextClientForHWND: the client of the
   selected window, or the active client when none is selected, while it is
   connected. *)
KeyClient ==
    LET fd == IF canvas = None THEN active
              ELSE IF windows[canvas] = None THEN None ELSE windows[canvas].fd
    IN  IF fd # None /\ conn[fd] = "open" THEN fd ELSE None

RoutingInit ==
    /\ conn = [fd \in Fds |-> "closed"]
    /\ windows = [h \in Hwnds |-> None]
    /\ order = <<>>
    /\ multi \in BOOLEAN
    /\ canvas = None
    /\ active = None
    /\ input = NoCapture
    /\ legacy = NoCapture
    /\ viewport = {}
    /\ locked = None
    /\ scheduled = FALSE

-----------------------------------------------------------------------------
(* The connection's own thread. *)

Accept(fd) ==
    /\ conn[fd] = "closed"
    /\ conn' = [conn EXCEPT ![fd] = "open"]
    /\ UNCHANGED <<windows, order, multi, routes, screen>>

ReaderEnds(fd) ==
    /\ conn[fd] = "open"
    /\ conn' = [conn EXCEPT ![fd] = "ended"]
    /\ UNCHANGED <<windows, order, multi, routes, screen>>

CloseEarly(fd) ==                     \* mutant: close() without waiting for main
    /\ conn[fd] \in {"ended", "torn"}
    /\ conn' = [conn EXCEPT ![fd] = "closed"]
    /\ UNCHANGED <<windows, order, multi, routes, screen>>

Close(fd) ==
    /\ conn[fd] = "torn"
    /\ conn' = [conn EXCEPT ![fd] = "closed"]
    /\ UNCHANGED <<windows, order, multi, routes, screen>>

-----------------------------------------------------------------------------
(* Blocks of the main queue. *)

DetachKeepsActive(fd) ==              \* mutant: the selected client survives
    /\ conn[fd] = "ended"
    /\ conn' = [conn EXCEPT ![fd] = "torn"]
    /\ windows' = [h \in Hwnds |-> IF h \in Tracked /\ windows[h].fd = fd
                                   THEN [windows[h] EXCEPT !.fd = None]
                                   ELSE windows[h]]
    /\ input' = IF input.fd = fd THEN NoCapture ELSE input
    /\ UNCHANGED <<order, multi, canvas, active, legacy, screen>>

(* removeWindowsForClient: as JuiceReconnectGrace.m replaces it.  Window
   states outlive the connection, their descriptor does not. *)
RemoveWindowsForClient(fd) ==
    /\ conn[fd] = "ended"
    /\ conn' = [conn EXCEPT ![fd] = "torn"]
    /\ windows' = [h \in Hwnds |-> IF h \in Tracked /\ windows[h].fd = fd
                                   THEN [windows[h] EXCEPT !.fd = None]
                                   ELSE windows[h]]
    /\ input' = IF input.fd = fd THEN NoCapture ELSE input
    /\ active' = IF active = fd THEN None ELSE active
    /\ UNCHANGED <<order, multi, canvas, legacy, screen>>

(* The reconnect grace ends for some detached windows whose process is gone. *)
PruneWindows(hs) ==
    /\ hs # {} /\ \A h \in hs : windows[h] # None /\ windows[h].fd = None
    /\ windows' = [h \in Hwnds |-> IF h \in hs THEN None ELSE windows[h]]
    /\ order' = SelectSeq(order, LAMBDA k : k \notin hs)
    /\ RequestComposite(TRUE)
    /\ UNCHANGED <<conn, multi, routes, viewport, locked>>

Raise(h) == Append(Without(h), h)

(* updateWindowMessage:client: - a WINDOW message. *)
UpdateWindow(fd, h, visible) ==
    LET new == windows[h] = None
        appears == visible /\ (new \/ ~windows[h].visible)
    IN
    /\ conn[fd] \in {"open", "ended"}
    /\ windows' = [windows EXCEPT ![h] =
                     [fd |-> fd, visible |-> visible, image |-> ~new /\ windows[h].image]]
    /\ order' = IF new \/ appears THEN Raise(h) ELSE order
    /\ input' = IF ~visible /\ input.hwnd = h THEN NoCapture ELSE input
    /\ RequestComposite(TRUE)
    /\ UNCHANGED <<conn, multi, canvas, active, legacy, viewport, locked>>

(* presentFrameMessage:data:client:peerPID:first: - a frame that was
   current when the main queue looked; its reader may have ended since. *)
PresentFrame(fd, h) ==
    LET new == windows[h] = None IN
    /\ conn[fd] \in {"open", "ended"}
    /\ windows' = [windows EXCEPT ![h] =
                     [fd |-> fd, visible |-> new \/ windows[h].visible, image |-> TRUE]]
    /\ order' = IF new THEN Append(order, h) ELSE order
    /\ legacy' = [fd |-> fd, hwnd |-> h]
    /\ RequestComposite(TRUE)
    /\ IF multi THEN UNCHANGED <<canvas, active>>
                ELSE canvas' = h /\ active' = fd
    /\ UNCHANGED <<conn, multi, input, viewport, locked>>

(* destroyWindowHwnd: - a DESTROY message of the window's own connection; any
   other is dropped. *)
DestroyWindow(fd, h) ==
    /\ conn[fd] \in {"open", "ended"} /\ h \in Tracked /\ windows[h].fd = fd
    /\ windows' = [windows EXCEPT ![h] = None]
    /\ order' = Without(h)
    /\ input' = IF input.hwnd = h THEN NoCapture ELSE input
    /\ canvas' = IF canvas = h THEN None ELSE canvas
    /\ RequestComposite(TRUE)
    /\ UNCHANGED <<conn, multi, active, legacy, viewport, locked>>

(* applyExperimentalMultiWindowEnabled: from the menu's toggle - on to the
   composite, or back to the last frame presented. *)
ApplyMultiWindow ==
    /\ multi' = ~multi
    /\ input' = NoCapture
    /\ \/ /\ ~multi
          /\ scheduled' = TRUE
          /\ UNCHANGED <<canvas, active>>
       \/ /\ multi
          /\ canvas' = legacy.hwnd
          /\ active' = IF legacy.fd # None THEN legacy.fd ELSE active
          /\ UNCHANGED scheduled
    /\ UNCHANGED <<conn, windows, order, legacy, viewport, locked>>

RenderUnlocked(shown) ==              \* mutant: a drag does not hold the viewport
    LET selected == IF canvas \in Drawable THEN canvas ELSE Topmost(shown) IN
    /\ scheduled /\ shown \subseteq Drawable
    /\ scheduled' = FALSE
    /\ IF multi
       THEN /\ viewport' = shown /\ canvas' = selected
            /\ active' = IF selected = None THEN None ELSE windows[selected].fd
       ELSE UNCHANGED <<viewport, canvas, active>>
    /\ UNCHANGED <<conn, windows, order, multi, input, legacy, locked>>

(* The composite's block.  `shown` are the drawable windows that intersect
   the viewport. *)
RenderComposite(shown) ==
    LET kept == IF input = NoCapture THEN None ELSE locked
        selected == IF canvas \in Drawable THEN canvas ELSE Topmost(shown)
    IN
    /\ scheduled /\ shown \subseteq Drawable
    /\ scheduled' = FALSE
    /\ IF multi
       THEN /\ locked' = kept
            /\ viewport' = IF kept = None THEN shown ELSE kept
            /\ canvas' = selected
            /\ active' = IF selected = None THEN None ELSE windows[selected].fd
       ELSE UNCHANGED <<locked, viewport, canvas, active>>
    /\ UNCHANGED <<conn, windows, order, multi, input, legacy>>

(* JuicePresentMetalComposite reports later that the layers must be drawn
   again. *)
MetalRedraw ==
    /\ multi /\ RequestComposite(TRUE)
    /\ UNCHANGED <<conn, windows, order, multi, routes, viewport, locked>>

(* handleCanvasInput: in the composite mode; `under` are the windows under
   the point.  A captured window takes every event but a new press. *)
Target(press, under) ==
    IF ~press /\ input # NoCapture /\ input.hwnd \in Drawable
    THEN input.hwnd ELSE Topmost(under \cap Drawable)

(* A press locks the viewport even when it meets no connected window. *)
PointerDown(under) ==
    LET target == Target(TRUE, under) IN
    /\ multi
    /\ locked' = IF locked = None THEN viewport ELSE locked
    /\ IF target # None /\ windows[target].fd # None
       THEN /\ input' = [fd |-> windows[target].fd, hwnd |-> target]
            /\ canvas' = target
            /\ active' = windows[target].fd
       ELSE UNCHANGED <<input, canvas, active>>
    /\ UNCHANGED <<conn, windows, order, multi, legacy, viewport, scheduled>>

(* A release outside every window only unlocks; over a detached window it is
   dropped; otherwise the capture ends and the desktop is drawn again. *)
PointerUp(under) ==
    LET target == Target(FALSE, under) IN
    /\ multi
    /\ \/ /\ target = None
          /\ locked' = None
          /\ UNCHANGED <<input, scheduled>>
       \/ /\ target # None /\ windows[target].fd = None
          /\ UNCHANGED <<locked, input, scheduled>>
       \/ /\ target # None /\ windows[target].fd # None
          /\ locked' = None
          /\ input' = NoCapture
          /\ RequestComposite(TRUE)
    /\ UNCHANGED <<conn, windows, order, multi, canvas, active, legacy, viewport>>

EnteredBackground ==
    /\ input' = NoCapture
    /\ UNCHANGED <<conn, windows, order, multi, canvas, active, legacy, screen>>

(* A memory warning drops the images of hidden windows. *)
MemoryWarning ==
    LET trimmed == {h \in Tracked : ~windows[h].visible /\ windows[h].image} IN
    /\ windows' = [h \in Hwnds |-> IF h \in trimmed THEN [windows[h] EXCEPT !.image = FALSE]
                                   ELSE windows[h]]
    /\ RequestComposite(trimmed # {})
    /\ UNCHANGED <<conn, order, multi, routes, viewport, locked>>

RoutingNext ==
    \/ \E fd \in Fds : \/ Accept(fd) \/ ReaderEnds(fd) \/ Close(fd)
                       \/ RemoveWindowsForClient(fd)
                       \/ \E h \in Hwnds : \/ PresentFrame(fd, h) \/ DestroyWindow(fd, h)
                                           \/ \E v \in BOOLEAN : UpdateWindow(fd, h, v)
    \/ \E hs \in SUBSET Hwnds : \/ PruneWindows(hs) \/ RenderComposite(hs)
                                \/ PointerDown(hs) \/ PointerUp(hs)
    \/ ApplyMultiWindow \/ MetalRedraw \/ EnteredBackground \/ MemoryWarning

RoutingSpec == RoutingInit /\ [][RoutingNext]_routingVars

-----------------------------------------------------------------------------
(* The types: a capture is both a client and a window or neither, and so is
   the last frame of the single-window mode. *)
RoutesOK ==
    /\ conn \in [Fds -> Connection]
    /\ windows \in [Hwnds -> WindowState \cup {None}]
    /\ multi \in BOOLEAN
    /\ canvas \in Hwnds \cup {None}
    /\ active \in Fds \cup {None}
    /\ input \in Capture
    /\ legacy \in Capture
    /\ viewport \in SUBSET Hwnds
    /\ locked \in (SUBSET Hwnds) \cup {None}
    /\ scheduled \in BOOLEAN
RoutingTypeOK == RoutesOK /\ order \in Seq(Hwnds)

(* A drag and a window never name a descriptor number the kernel may hand out
   to another connection: both are cleared before close(), whichever
   connection took a window over in between. *)
CaptureNamesAnOpenConnection ==
    /\ input.fd # None => conn[input.fd] \in {"open", "ended"}
    /\ \A h \in Tracked : windows[h].fd # None
                            => conn[windows[h].fd] \in {"open", "ended"}

(* In the composite mode, once the scheduled composite has run, keys and text
   (routed by the selected window) and the active client (set by presses,
   composites and teardowns) agree, so an application never gets the pointer
   while another one gets the keys. *)
KeysFollowThePointer ==
    multi /\ ~scheduled =>
        /\ canvas # None => canvas \in Tracked /\ active = windows[canvas].fd
        /\ canvas = None => active = None
        /\ KeyClient = IF active # None /\ conn[active] = "open" THEN active ELSE None

(* Pointer coordinates are translated with the locked viewport if there is
   one; it is always the viewport on the screen, whatever arrives during a
   drag and however the drag ends. *)
LockedViewportIsOnScreen == locked # None => locked = viewport

(* "A numeric descriptor must not become reusable until every host-side route
   has stopped naming it" (JuiceDisplayTransportHardening.m:496): the active
   client is such a route, and single-window pointer input goes to it. *)
ActiveClientIsOpen == active # None => conn[active] # "closed"
=============================================================================
