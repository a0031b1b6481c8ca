----------------------- MODULE DisplayTransportProofs -----------------------
(***************************************************************************)
(* Proofs about DisplayTransport for any set of descriptors, windows and   *)
(* framebuffers: no route names a closed descriptor, a framebuffer has one *)
(* pass under way at most, no DESTROY takes current contents away, and the *)
(* byte budgets hold.                                                      *)
(***************************************************************************)
EXTENDS DisplayTransport, Sums, FiniteSetTheorems, SequenceTheorems, TLAPS

Presenting == {"present", "show", "presented"}
Routing == {"window", "destroy", "teardown"}

(* The types, without the number of reserved bytes; what a reader is busy with. *)
TypesOK ==
    /\ reader \in [Fds -> Reader]
    /\ clients \subseteq Fds
    /\ frames \in [Hwnds -> Frames \cup {None}]
    /\ buffer \in [Frames -> Buffer]
    /\ passes \in [Frames -> Nat]
    /\ mainQueue \in Seq(Block)
    /\ windows \in [Hwnds -> Fds \cup {Detached, None}]
    /\ shown \in [Frames -> 0..MaxGeneration]

ReadersOK ==
    \A fd \in Fds :
        /\ reader[fd].st \in {"payload", "schedule"} => reader[fd].msg \in Message
        /\ reader[fd].st = "schedule" => reader[fd].frame \in Frames
        /\ reader[fd].st = "destroy" => reader[fd].msg \in Hwnds

(* A live framebuffer is the one of its window, and the other way round. *)
FramesOK ==
    /\ \A h \in Hwnds : frames[h] # None => buffer[frames[h]].live /\ buffer[frames[h]].hwnd = h
    /\ \A o \in Frames : buffer[o].live => frames[buffer[o].hwnd] = o

(* Who may still be named: the owner of a live framebuffer has not begun its teardown,
   an entry of clients has not been removed, the teardown of the connection of a window
   or of a block on the main queue has not run. *)
OwnersOK ==
    \A o \in Frames : buffer[o].live =>
        reader[buffer[o].fd].st \notin {"closed", "invalidated", "waiting", "torn"}

ClientsOK == \A fd \in clients : reader[fd].st \notin {"closed", "waiting", "torn"}

WindowsOK == \A h \in Hwnds : windows[h] \in Fds => reader[windows[h]].st \notin {"closed", "torn"}

(* The block at i of the main queue. *)
BlockOK(q, i) ==
    /\ q[i].kind \in {"window", "destroy", "show"} => reader[q[i].fd].st \notin {"closed", "torn"}
    /\ q[i].kind = "teardown" => reader[q[i].fd].st = "waiting"
    /\ q[i].kind \in {"show", "presented"} => i = 1

(* Behind a teardown no block names its connection. *)
Behind(q) ==
    \A i, j \in 1..Len(q) :
        i < j /\ q[i].kind = "teardown" /\ q[j].kind \in Routing => q[j].fd # q[i].fd

QueueOK == (\A i \in 1..Len(mainQueue) : BlockOK(mainQueue, i)) /\ Behind(mainQueue)

RoutesOK == FramesOK /\ OwnersOK /\ ClientsOK /\ WindowsOK /\ QueueOK

(* A pass is on the snapshot queue or on the main queue, once, while `scheduled`. *)
Presents(q, i, o) == q[i].kind \in Presenting /\ q[i].frame = o

PassOK(o) ==
    /\ passes[o] \in {0, 1}
    /\ \A i, j \in 1..Len(mainQueue) :
          Presents(mainQueue, i, o) /\ Presents(mainQueue, j, o) => i = j
    /\ passes[o] = 1 => \A i \in 1..Len(mainQueue) : ~Presents(mainQueue, i, o)
    /\ buffer[o].scheduled <=>
          passes[o] = 1 \/ \E i \in 1..Len(mainQueue) : Presents(mainQueue, i, o)

PassesOK == \A o \in Frames : PassOK(o)

(* What a presentation says of a framebuffer that is still live. *)
SnapshotOK(b) ==
    buffer[b.frame].live =>
        /\ buffer[b.frame].hwnd = b.hwnd /\ buffer[b.frame].gen >= b.gen
        /\ buffer[b.frame].gen = b.gen => buffer[b.frame].fd = b.fd

SnapshotsOK == \A i \in 1..Len(mainQueue) :
                  mainQueue[i].kind \in Presenting => SnapshotOK(mainQueue[i])

(* A reader that is about to post a DESTROY has no framebuffer of the window. *)
DestroyedOK ==
    \A fd \in Fds : reader[fd].st = "destroy" =>
        \A o \in Frames : buffer[o].live /\ buffer[o].hwnd = reader[fd].msg => buffer[o].fd # fd

DeliveryOK == PassesOK /\ SnapshotsOK /\ DestroyedOK /\ DestroySeparatesFrames

(* The inductive invariant. *)
TransportOK == TypesOK /\ ReadersOK /\ RoutesOK /\ DeliveryOK

-----------------------------------------------------------------------------
(* What blocks, framebuffers and readers are made of. *)
LEMMA BlockParts ==
    ASSUME NEW b \in Block
    PROVE  /\ b.kind \in Presenting \cup Routing /\ b.fd \in Fds
           /\ b.kind # "teardown" => b.hwnd \in Hwnds
           /\ b.kind \in Presenting => b.frame \in Frames /\ b.gen \in 1..MaxGeneration
BY DEF Block, Presenting, Routing

LEMMA BufferParts ==
    ASSUME NEW x \in Buffer
    PROVE  /\ x.live \in BOOLEAN /\ x.scheduled \in BOOLEAN
           /\ x.live => /\ x.hwnd \in Hwnds /\ x.fd \in Fds /\ x.size \in Sizes
                        /\ x.pid \in Peers \cup {0} /\ x.gen \in 1..MaxGeneration
           /\ x = Invalidated => ~x.live /\ ~x.scheduled
<1>1. x = Invalidated => ~x.live /\ ~x.scheduled
  BY DEF Invalidated
<1>2. CASE x \in [live : {FALSE}, scheduled : BOOLEAN]
  BY <1>1, <1>2
<1>3. CASE x \in [live : {TRUE}, scheduled : BOOLEAN, hwnd : Hwnds, size : Sizes,
                  fd : Fds, pid : Peers \cup {0}, gen : 1..MaxGeneration]
  BY <1>1, <1>3
<1>4. QED
  BY <1>2, <1>3 DEF Buffer

LEMMA InvalidateParts ==
    ASSUME NEW x \in Buffer
    PROVE  Invalidate(x) \in Buffer /\ ~Invalidate(x).live /\ Invalidate(x).scheduled = x.scheduled
BY DEF Buffer, Invalidated, Invalidate

(* x and y are the same but for `scheduled`. *)
SameImage(x, y) == /\ y.live = x.live
                   /\ x.live => /\ y.hwnd = x.hwnd /\ y.fd = x.fd /\ y.gen = x.gen
                                /\ y.size = x.size /\ y.pid = x.pid

LEMMA FlagParts ==
    ASSUME NEW x \in Buffer, NEW v \in BOOLEAN, NEW y, y = [x EXCEPT !.scheduled = v]
    PROVE  y \in Buffer /\ y.scheduled = v /\ SameImage(x, y)
<1>1. CASE x \in [live : {FALSE}, scheduled : BOOLEAN]
  BY <1>1 DEF Buffer, SameImage
<1>2. CASE x \in [live : {TRUE}, scheduled : BOOLEAN, hwnd : Hwnds, size : Sizes,
                  fd : Fds, pid : Peers \cup {0}, gen : 1..MaxGeneration]
  BY <1>2 DEF Buffer, SameImage
<1>3. QED
  BY <1>1, <1>2 DEF Buffer

(* One framebuffer has changed. *)
BufferBecomes(o, y) ==
    /\ buffer' \in [Frames -> Buffer] /\ buffer'[o] = y
    /\ \A n \in Frames : n # o => buffer'[n] = buffer[n]

LEMMA BufferSet ==
    ASSUME TypesOK, NEW o \in Frames, NEW y \in Buffer, buffer' = [buffer EXCEPT ![o] = y]
    PROVE  BufferBecomes(o, y)
BY DEF TypesOK, BufferBecomes

FlagBecomes(o, v) == buffer' = [buffer EXCEPT ![o].scheduled = v]

LEMMA FlagSet ==
    ASSUME TypesOK, NEW o \in Frames, NEW v \in BOOLEAN, FlagBecomes(o, v)
    PROVE  /\ buffer' \in [Frames -> Buffer] /\ buffer'[o].scheduled = v
           /\ \A n \in Frames : SameImage(buffer[n], buffer'[n])
           /\ \A n \in Frames : n # o => buffer'[n] = buffer[n]
<1>1. PICK x \in Buffer : x = buffer[o]
  BY DEF TypesOK
<1>2. PICK y : y = [x EXCEPT !.scheduled = v]
  OBVIOUS
<1>3. y \in Buffer /\ y.scheduled = v /\ SameImage(x, y)
  BY <1>2, FlagParts
<1>4. buffer' = [buffer EXCEPT ![o] = y]
  BY <1>1, <1>2 DEF FlagBecomes
<1>5. BufferBecomes(o, y)
  BY <1>3, <1>4, BufferSet
<1>6. QED
  BY <1>1, <1>3, <1>5 DEF BufferBecomes, SameImage

(* One reader has changed. *)
ReaderBecomes(fd, y) ==
    /\ reader' \in [Fds -> Reader] /\ reader'[fd] = y
    /\ \A f \in Fds : f # fd => reader'[f] = reader[f]

LEMMA ReaderSet ==
    ASSUME TypesOK, NEW fd \in Fds, NEW y \in Reader, reader' = [reader EXCEPT ![fd] = y]
    PROVE  ReaderBecomes(fd, y)
BY DEF TypesOK, ReaderBecomes

LEMMA ReaderGoto ==
    ASSUME TypesOK, NEW fd \in Fds, NEW st \in ReaderState, Goto(fd, st)
    PROVE  \E y \in Reader : ReaderBecomes(fd, y) /\ y.st = st /\ y.msg = reader[fd].msg
<1>1. PICK x \in Reader : x = reader[fd]
  BY DEF TypesOK
<1>2. PICK y : y = [x EXCEPT !.st = st]
  OBVIOUS
<1>3. y \in Reader /\ y.st = st /\ y.msg = x.msg
  BY <1>2 DEF Reader
<1>4. reader' = [reader EXCEPT ![fd] = y]
  BY <1>1, <1>2 DEF Goto
<1>5. QED
  BY <1>1, <1>3, <1>4, ReaderSet

LEMMA ReaderFinish ==
    ASSUME TypesOK, NEW fd \in Fds, NEW st \in ReaderState, Finish(fd, st)
    PROVE  \E y \in Reader : ReaderBecomes(fd, y) /\ y.st = st
<1>1. PICK x \in Reader : x = reader[fd]
  BY DEF TypesOK
<1>2. PICK y : y = [x EXCEPT !.st = st, !.msg = None, !.frame = None]
  OBVIOUS
<1>3. y \in Reader /\ y.st = st
  BY <1>2 DEF Reader
<1>4. reader' = [reader EXCEPT ![fd] = y]
  BY <1>1, <1>2 DEF Finish
<1>5. QED
  BY <1>3, <1>4, ReaderSet

StAndMsg(fd, st, m) == reader' = [reader EXCEPT ![fd].st = st, ![fd].msg = m]
StAndFrame(fd, st, o) == reader' = [reader EXCEPT ![fd].st = st, ![fd].frame = o]

LEMMA ReaderStAndMsg ==
    ASSUME TypesOK, NEW fd \in Fds, NEW st \in ReaderState, NEW m \in Message \cup Hwnds,
           StAndMsg(fd, st, m)
    PROVE  \E y \in Reader : ReaderBecomes(fd, y) /\ y.st = st /\ y.msg = m
<1>1. PICK x \in Reader : x = reader[fd]
  BY DEF TypesOK
<1>2. PICK y : y = [x EXCEPT !.st = st, !.msg = m]
  OBVIOUS
<1>3. y \in Reader /\ y.st = st /\ y.msg = m
  BY <1>2 DEF Reader
<1>4. reader' = [reader EXCEPT ![fd] = y]
  BY <1>1, <1>2 DEF StAndMsg, TypesOK
<1>5. QED
  BY <1>3, <1>4, ReaderSet

LEMMA ReaderStAndFrame ==
    ASSUME TypesOK, NEW fd \in Fds, NEW st \in ReaderState, NEW o \in Frames,
           StAndFrame(fd, st, o)
    PROVE  \E y \in Reader : /\ ReaderBecomes(fd, y) /\ y.st = st /\ y.frame = o
                             /\ y.msg = reader[fd].msg
<1>1. PICK x \in Reader : x = reader[fd]
  BY DEF TypesOK
<1>2. PICK y : y = [x EXCEPT !.st = st, !.frame = o]
  OBVIOUS
<1>3. y \in Reader /\ y.st = st /\ y.frame = o /\ y.msg = x.msg
  BY <1>2 DEF Reader
<1>4. reader' = [reader EXCEPT ![fd] = y]
  BY <1>1, <1>2 DEF StAndFrame, TypesOK
<1>5. QED
  BY <1>1, <1>3, <1>4, ReaderSet

-----------------------------------------------------------------------------
(* The main queue: what an append, a removal and a change of the head leave. *)
LEMMA QueueLength ==
    ASSUME TypesOK
    PROVE  \E n \in Nat : n = Len(mainQueue)
BY DEF TypesOK

LEMMA Appended ==
    ASSUME TypesOK, NEW b \in Block, Post(b), NEW n, n = Len(mainQueue)
    PROVE  /\ mainQueue' \in Seq(Block) /\ n \in Nat /\ Len(mainQueue') = n + 1
           /\ \A i \in 1..n : mainQueue'[i] = mainQueue[i] /\ mainQueue[i] \in Block
           /\ mainQueue'[n + 1] = b
           /\ \A i \in 1..n + 1 : i \in 1..n \/ i = n + 1
<1>1. mainQueue \in Seq(Block) /\ mainQueue' = Append(mainQueue, b)
  BY DEF TypesOK, Post
<1>2. n \in Nat /\ \A i \in 1..n : mainQueue[i] \in Block
  BY <1>1
<1>3. mainQueue' \in Seq(Block) /\ Len(mainQueue') = n + 1
  BY <1>1
<1>4. \A i \in 1..n : mainQueue'[i] = mainQueue[i]
  BY <1>1
<1>5. mainQueue'[n + 1] = b
  BY <1>1
<1>6. \A i \in 1..n + 1 : i \in 1..n \/ i = n + 1
  BY <1>2
<1>7. QED
  BY <1>2, <1>3, <1>4, <1>5, <1>6

SameBlock(b, c) ==
    /\ b.kind = c.kind \/ (b.kind \in Presenting /\ c.kind \in Presenting)
    /\ b.fd = c.fd
    /\ b.kind # "teardown" => b.hwnd = c.hwnd
    /\ b.kind \in Presenting => b.frame = c.frame /\ b.gen = c.gen

(* The queue without its first d blocks, up to the kinds of presentations. *)
QueueFrom(d) ==
    /\ mainQueue' \in Seq(Block) /\ Len(mainQueue') = Len(mainQueue) - d
    /\ \A i \in 1..Len(mainQueue') :
          /\ i + d \in 1..Len(mainQueue) /\ SameBlock(mainQueue[i + d], mainQueue'[i])
          /\ mainQueue[i + d] \in Block /\ mainQueue'[i] \in Block

LEMMA HeadRemoved ==
    ASSUME TypesOK, mainQueue # <<>>, mainQueue' = Tail(mainQueue)
    PROVE  /\ QueueFrom(1) /\ 1 \in 1..Len(mainQueue) /\ Head(mainQueue) = mainQueue[1]
           /\ mainQueue[1] \in Block
           /\ \A i \in 1..Len(mainQueue') : mainQueue'[i] = mainQueue[i + 1] /\ i + 1 # 1
<1>1. mainQueue \in Seq(Block)
  BY DEF TypesOK
<1>2. PICK n \in Nat : n = Len(mainQueue)
  BY <1>1
<1>3. n # 0 /\ Head(mainQueue) = mainQueue[1]
  BY <1>1, <1>2
<1>4. mainQueue' \in Seq(Block) /\ Len(mainQueue') = n - 1
  BY <1>1, <1>2
<1>5. \A i \in 1..n - 1 : mainQueue'[i] = mainQueue[i + 1]
  BY <1>1, <1>2, <1>4
<1>6. 1 \in 1..n /\ \A i \in 1..n - 1 : i + 1 \in 1..n /\ i + 1 # 1
  BY <1>3
<1>7. \A i \in 1..n : mainQueue[i] \in Block
  BY <1>1, <1>2
<1>8. \A b : SameBlock(b, b)
  BY DEF SameBlock
<1>9. \A i \in 1..n - 1 : SameBlock(mainQueue[i + 1], mainQueue'[i])
  BY <1>5, <1>8
<1>10. QueueFrom(1)
  BY <1>2, <1>4, <1>5, <1>6, <1>7, <1>9 DEF QueueFrom
<1>11. QED
  BY <1>2, <1>3, <1>4, <1>5, <1>6, <1>7, <1>10

HeadKind(k) == mainQueue' = [mainQueue EXCEPT ![1].kind = k]

LEMMA HeadChanged ==
    ASSUME TypesOK, mainQueue # <<>>, NEW k \in Presenting, mainQueue[1].kind \in Presenting,
           HeadKind(k)
    PROVE  /\ QueueFrom(0) /\ 1 \in 1..Len(mainQueue) /\ Head(mainQueue) = mainQueue[1]
           /\ mainQueue[1] \in Block
           /\ mainQueue'[1].kind = k
           /\ \A i \in 1..Len(mainQueue) : i # 1 => mainQueue'[i] = mainQueue[i]
<1>1. mainQueue \in Seq(Block)
  BY DEF TypesOK
<1>2. PICK n \in Nat : n = Len(mainQueue)
  BY <1>1
<1>3. n # 0 /\ Head(mainQueue) = mainQueue[1] /\ 1 \in 1..n
  BY <1>1, <1>2
<1>4. \A i \in 1..n : mainQueue[i] \in Block
  BY <1>1, <1>2
<1>5. PICK x \in Block : x = mainQueue[1]
  BY <1>3, <1>4
<1>6. PICK y : y = [x EXCEPT !.kind = k]
  OBVIOUS
<1>7. /\ y \in Block /\ y.kind = k /\ SameBlock(x, y)
  <2>1. x \in [kind : Presenting, frame : Frames, hwnd : Hwnds,
               fd : Fds, pid : Peers \cup {0}, gen : 1..MaxGeneration]
    BY <1>5 DEF Block, Presenting
  <2>2. y \in [kind : Presenting, frame : Frames, hwnd : Hwnds,
               fd : Fds, pid : Peers \cup {0}, gen : 1..MaxGeneration]
        /\ y.kind = k /\ y.frame = x.frame /\ y.hwnd = x.hwnd /\ y.fd = x.fd /\ y.gen = x.gen
    BY <1>6, <2>1
  <2>3. y \in Block
    BY <2>2 DEF Block, Presenting
  <2>4. QED
    BY <1>5, <2>2, <2>3 DEF SameBlock
<1>8. mainQueue' = [mainQueue EXCEPT ![1] = y]
  BY <1>5, <1>6 DEF HeadKind
<1>9. mainQueue' \in Seq(Block) /\ Len(mainQueue') = n
  BY <1>1, <1>2, <1>3, <1>7, <1>8
<1>10. mainQueue'[1] = y /\ \A i \in 1..n : i # 1 => mainQueue'[i] = mainQueue[i]
  BY <1>1, <1>2, <1>3, <1>8
<1>11. \A b : SameBlock(b, b)
  BY DEF SameBlock
<1>12. \A i \in 1..n : SameBlock(mainQueue[i], mainQueue'[i]) /\ mainQueue'[i] \in Block
  BY <1>4, <1>5, <1>7, <1>10, <1>11
<1>13. QueueFrom(0)
  <2>1. n - 0 = n /\ \A i \in 1..n : i + 0 = i
    OBVIOUS
  <2>2. QED
    BY <1>2, <1>4, <1>9, <1>12, <2>1 DEF QueueFrom
<1>14. QED
  BY <1>2, <1>3, <1>4, <1>7, <1>10, <1>13

LEMMA QueueUntouched ==
    ASSUME TypesOK, mainQueue' = mainQueue
    PROVE  QueueFrom(0)
<1>1. PICK n \in Nat : n = Len(mainQueue)
  BY DEF TypesOK
<1>2. \A i \in 1..n : mainQueue[i] \in Block
  BY <1>1 DEF TypesOK
<1>3. n - 0 = n /\ \A i \in 1..n : i + 0 = i
  OBVIOUS
<1>4. \A b : SameBlock(b, b)
  BY DEF SameBlock
<1>5. mainQueue' \in Seq(Block)
  BY DEF TypesOK
<1>6. QED
  BY <1>1, <1>2, <1>3, <1>4, <1>5 DEF QueueFrom

-----------------------------------------------------------------------------
(* Framebuffers are invalidated or change their flag, and nothing else. *)
Fewer == \A o \in Frames : buffer'[o].live => buffer[o].live /\ SameImage(buffer[o], buffer'[o])

LEMMA OrderKeeps ==
    ASSUME TypesOK, SnapshotsOK, DestroySeparatesFrames, Behind(mainQueue),
           NEW d \in {0, 1}, QueueFrom(d), Fewer
    PROVE  SnapshotsOK' /\ DestroySeparatesFrames' /\ Behind(mainQueue')
<1>1. PICK n \in Nat, m \in Nat : n = Len(mainQueue) /\ m = Len(mainQueue')
  BY DEF TypesOK, QueueFrom
<1>2. \A i, j \in 1..m : i < j => i + d < j + d
  OBVIOUS
<1>3. \A i \in 1..m : /\ i + d \in 1..n /\ SameBlock(mainQueue[i + d], mainQueue'[i])
                      /\ mainQueue[i + d] \in Block /\ mainQueue'[i] \in Block
  BY <1>1 DEF QueueFrom
<1>4. SnapshotsOK'
  <2> SUFFICES ASSUME NEW i \in 1..m, mainQueue'[i].kind \in Presenting
               PROVE  SnapshotOK(mainQueue[i])'
    BY <1>1 DEF SnapshotsOK
  <2>1. PICK b, c : b = mainQueue[i + d] /\ c = mainQueue'[i]
    OBVIOUS
  <2>2. /\ b.kind \in Presenting /\ b.fd = c.fd /\ b.hwnd = c.hwnd
        /\ b.frame = c.frame /\ b.gen = c.gen /\ b.frame \in Frames
    BY <1>3, <2>1, BlockParts DEF SameBlock, Presenting
  <2>3. SnapshotOK(b)
    BY <1>1, <1>3, <2>1, <2>2 DEF SnapshotsOK
  <2>4. QED
    BY <2>1, <2>2, <2>3 DEF SnapshotOK, Fewer, SameImage
<1>5. DestroySeparatesFrames'
  <2> SUFFICES ASSUME NEW i \in 1..m, NEW j \in 1..m, i < j,
                      mainQueue'[i].kind \in Presenting, mainQueue'[j].kind = "destroy",
                      mainQueue'[i].hwnd = mainQueue'[j].hwnd,
                      mainQueue'[i].fd = mainQueue'[j].fd,
                      buffer'[mainQueue'[i].frame].live
               PROVE  buffer'[mainQueue'[i].frame].gen # mainQueue'[i].gen
    BY <1>1 DEF DestroySeparatesFrames, Presenting
  <2>1. PICK b, c, e, f : /\ b = mainQueue[i + d] /\ c = mainQueue'[i]
                          /\ e = mainQueue[j + d] /\ f = mainQueue'[j]
    OBVIOUS
  <2>2. /\ b.kind \in Presenting /\ b.fd = c.fd /\ b.hwnd = c.hwnd
        /\ b.frame = c.frame /\ b.gen = c.gen /\ b.frame \in Frames
    BY <1>3, <2>1, BlockParts DEF SameBlock, Presenting
  <2>3. e.kind = "destroy" /\ e.fd = f.fd /\ e.hwnd = f.hwnd
    BY <1>3, <2>1 DEF SameBlock, Presenting
  <2>4. buffer[b.frame].live => buffer[b.frame].gen # b.gen
    <3>1. i + d \in 1..n /\ j + d \in 1..n /\ i + d < j + d
      BY <1>2, <1>3
    <3>2. QED
      BY <1>1, <2>1, <2>2, <2>3, <3>1 DEF DestroySeparatesFrames, Presenting
  <2>5. QED
    BY <2>1, <2>2, <2>4 DEF Fewer, SameImage
<1>6. Behind(mainQueue')
  <2> SUFFICES ASSUME NEW i \in 1..m, NEW j \in 1..m, i < j,
                      mainQueue'[i].kind = "teardown", mainQueue'[j].kind \in Routing
               PROVE  mainQueue'[j].fd # mainQueue'[i].fd
    BY <1>1 DEF Behind
  <2>1. /\ mainQueue[i + d].kind = "teardown" /\ mainQueue[j + d].kind \in Routing
        /\ mainQueue[i + d].fd = mainQueue'[i].fd /\ mainQueue[j + d].fd = mainQueue'[j].fd
    BY <1>3 DEF SameBlock, Presenting, Routing
  <2>2. i + d \in 1..n /\ j + d \in 1..n /\ i + d < j + d
    BY <1>2, <1>3
  <2>3. QED
    BY <1>1, <2>1, <2>2 DEF Behind
<1>7. QED
  BY <1>4, <1>5, <1>6

(* A reader moves: who could be named before can be named now. *)
LEMMA NamesKeep ==
    ASSUME TypesOK, ClientsOK, WindowsOK, QueueOK,
           NEW fd \in Fds, NEW y \in Reader, ReaderBecomes(fd, y),
           reader[fd].st = "waiting" => y.st = "waiting",
           y.st \in {"closed", "torn"} => reader[fd].st \in {"closed", "torn"},
           y.st \in {"closed", "waiting", "torn"} => fd \notin clients',
           clients' \subseteq clients \cup {fd},
           windows' = windows, mainQueue' = mainQueue
    PROVE  ClientsOK' /\ WindowsOK' /\ QueueOK'
<1>1. \A f \in Fds : /\ f # fd => reader'[f] = reader[f]
                     /\ f = fd => reader'[f] = y
  BY DEF ReaderBecomes
<1>2. ClientsOK'
  BY <1>1 DEF ClientsOK, TypesOK
<1>3. WindowsOK'
  BY <1>1 DEF WindowsOK
<1>4. \A i \in 1..Len(mainQueue) : mainQueue[i].fd \in Fds
  BY BlockParts DEF TypesOK
<1>5. ASSUME NEW i \in 1..Len(mainQueue) PROVE BlockOK(mainQueue, i)'
  BY <1>1, <1>4 DEF QueueOK, BlockOK
<1>6. QED
  BY <1>2, <1>3, <1>5 DEF QueueOK, Behind

LEMMA ReadersKeep ==
    ASSUME ReadersOK, NEW fd \in Fds, NEW y \in Reader, ReaderBecomes(fd, y),
           y.st \in {"payload", "schedule"} => y.msg \in Message,
           y.st = "schedule" => y.frame \in Frames,
           y.st = "destroy" => y.msg \in Hwnds
    PROVE  ReadersOK'
BY DEF ReadersOK, ReaderBecomes

LEMMA ReaderMoves ==
    ASSUME TransportOK, NEW fd \in Fds, NEW y \in Reader, ReaderBecomes(fd, y),
           reader[fd].st # "waiting",
           y.st \in {"reading", "broken", "payload"} \/ (y.st = "closed" /\ reader[fd].st = "torn"),
           y.st = "payload" => y.msg \in Message,
           clients' = clients \/ (clients' = clients \cup {fd} /\ y.st = "reading"),
           UNCHANGED <<frames, buffer, passes, mainQueue, windows, shown>>
    PROVE  TransportOK'
<1>1. /\ TypesOK /\ ReadersOK /\ FramesOK /\ OwnersOK /\ ClientsOK /\ WindowsOK /\ QueueOK
      /\ PassesOK /\ SnapshotsOK /\ DestroyedOK /\ DestroySeparatesFrames
  BY DEF TransportOK, RoutesOK, DeliveryOK
<1>2. TypesOK'
  BY <1>1 DEF TypesOK, ReaderBecomes
<1>3. ReadersOK'
  BY <1>1, ReadersKeep
<1>4. ClientsOK' /\ WindowsOK' /\ QueueOK'
  <2>1. y.st = "closed" => fd \notin clients'
    BY <1>1 DEF ClientsOK
  <2>2. QED
    BY <1>1, <2>1, NamesKeep
<1>5. OwnersOK'
  BY <1>1, BufferParts DEF OwnersOK, ReaderBecomes, TypesOK
<1>6. DestroyedOK'
  BY <1>1 DEF DestroyedOK, ReaderBecomes
<1>7. FramesOK' /\ PassesOK' /\ SnapshotsOK' /\ DestroySeparatesFrames'
  BY <1>1 DEF FramesOK, PassesOK, PassOK, Presents, SnapshotsOK, SnapshotOK, DestroySeparatesFrames
<1>8. QED
  BY <1>2, <1>3, <1>4, <1>5, <1>6, <1>7 DEF TransportOK, RoutesOK, DeliveryOK

(* Connecting, reading headers and payloads that lead to no framebuffer, and closing. *)
LEMMA ReadingKeeps ==
    ASSUME TransportOK, NEW fd \in Fds,
           \/ Accept(fd) \/ ReadFails(fd) \/ (\E p \in Peers : Hello(fd, p))
           \/ (\E m \in Message : FrameHeader(fd, m)) \/ PayloadFails(fd) \/ CloseDescriptor(fd)
    PROVE  TransportOK'
<1>1. TypesOK
  BY DEF TransportOK
<1> USE DEF hostVars
<1>2. {"reading", "broken", "payload"} \subseteq ReaderState
  BY DEF ReaderState
<1>3. ClosedReader \in Reader /\ NewReader \in Reader
      /\ ClosedReader.st = "closed" /\ NewReader.st = "reading"
  BY DEF ClosedReader, NewReader, Reader, ReaderState
<1>4. CASE Accept(fd)
  <2>1. ReaderBecomes(fd, NewReader)
    BY <1>1, <1>3, <1>4, ReaderSet DEF Accept
  <2>2. QED
    BY <1>3, <1>4, <2>1, ReaderMoves DEF Accept
<1>5. CASE ReadFails(fd)
  <2>1. PICK y \in Reader : ReaderBecomes(fd, y) /\ y.st = "broken"
    BY <1>1, <1>2, <1>5, ReaderGoto DEF ReadFails
  <2>2. QED
    BY <1>5, <2>1, ReaderMoves DEF ReadFails
<1>6. ASSUME NEW p \in Peers, Hello(fd, p) PROVE TransportOK'
  <2>1. PICK x \in Reader : x = reader[fd]
    BY <1>1 DEF TypesOK
  <2>2. PICK y : y = [x EXCEPT !.pid = p]
    OBVIOUS
  <2>3. y \in Reader /\ y.st = x.st
    BY <2>2 DEF Reader
  <2>4. reader' = [reader EXCEPT ![fd] = y]
    BY <1>6, <2>1, <2>2 DEF Hello
  <2>5. ReaderBecomes(fd, y) /\ y.st = "reading"
    BY <1>1, <1>6, <2>1, <2>3, <2>4, ReaderSet DEF Hello
  <2>6. QED
    BY <1>6, <2>3, <2>5, ReaderMoves DEF Hello
<1>7. ASSUME NEW m \in Message, FrameHeader(fd, m) PROVE TransportOK'
  <2>1. CASE StAndMsg(fd, "payload", m)
    <3>1. PICK y \in Reader : ReaderBecomes(fd, y) /\ y.st = "payload" /\ y.msg = m
      BY <1>1, <1>2, <2>1, ReaderStAndMsg
    <3>2. QED
      BY <1>7, <3>1, ReaderMoves DEF FrameHeader
  <2>2. CASE Goto(fd, "broken")
    <3>1. PICK y \in Reader : ReaderBecomes(fd, y) /\ y.st = "broken"
      BY <1>1, <1>2, <2>2, ReaderGoto
    <3>2. QED
      BY <1>7, <3>1, ReaderMoves DEF FrameHeader
  <2>3. QED
    BY <1>7, <2>1, <2>2 DEF FrameHeader, StAndMsg
<1>8. CASE PayloadFails(fd)
  <2>1. PICK y \in Reader : ReaderBecomes(fd, y) /\ y.st = "broken"
    BY <1>1, <1>2, <1>8, ReaderFinish DEF PayloadFails
  <2>2. QED
    BY <1>8, <2>1, ReaderMoves DEF PayloadFails
<1>9. CASE CloseDescriptor(fd)
  <2>1. ReaderBecomes(fd, ClosedReader)
    BY <1>1, <1>3, <1>9, ReaderSet DEF CloseDescriptor
  <2>2. QED
    BY <1>3, <1>9, <2>1, ReaderMoves DEF CloseDescriptor
<1>10. QED
  BY <1>4, <1>5, <1>6, <1>7, <1>8, <1>9

-----------------------------------------------------------------------------
(* The framebuffers of the windows in S are invalidated. *)
Invalidates(S) ==
    /\ frames' \in [Hwnds -> Frames \cup {None}] /\ buffer' \in [Frames -> Buffer]
    /\ \A h \in Hwnds : frames'[h] = IF h \in S THEN None ELSE frames[h]
    /\ \A o \in Frames : /\ buffer'[o].scheduled = buffer[o].scheduled
                         /\ (\E h \in S : frames[h] = o) => ~buffer'[o].live
                         /\ ~(\E h \in S : frames[h] = o) => buffer'[o] = buffer[o]

LEMMA Invalidation ==
    ASSUME TypesOK, FramesOK, NEW S, S \subseteq Hwnds, Invalidates(S)
    PROVE  /\ FramesOK' /\ Fewer
           /\ \A o \in Frames : buffer'[o].live => /\ buffer[o].live /\ buffer'[o] = buffer[o]
                                                   /\ buffer[o].hwnd \in Hwnds \ S
                                                   /\ frames[buffer[o].hwnd] = o
<1>1. \A o \in Frames : buffer'[o].live => buffer'[o] = buffer[o] /\ \A h \in S : frames[h] # o
  BY DEF Invalidates
<1>2. \A o \in Frames : buffer[o].live => buffer[o].hwnd \in Hwnds
  BY BufferParts DEF TypesOK
<1>3. \A o \in Frames : buffer'[o].live => /\ buffer[o].live /\ buffer'[o] = buffer[o]
                                           /\ buffer[o].hwnd \in Hwnds \ S
                                           /\ frames[buffer[o].hwnd] = o
  BY <1>1, <1>2 DEF FramesOK
<1>4. Fewer
  BY <1>3 DEF Fewer, SameImage
<1>5. ASSUME NEW h \in Hwnds, frames'[h] # None
      PROVE  buffer'[frames'[h]].live /\ buffer'[frames'[h]].hwnd = h
  <2>1. h \notin S /\ frames'[h] = frames[h]
    BY <1>5 DEF Invalidates
  <2>2. PICK o \in Frames : o = frames[h]
    BY <1>5, <2>1 DEF TypesOK
  <2>3. buffer[o].live /\ buffer[o].hwnd = h
    BY <1>5, <2>1, <2>2 DEF FramesOK
  <2>4. ~\E g \in S : frames[g] = o
    <3>1. ASSUME NEW g \in S, frames[g] = o PROVE FALSE
      <4>1. g \in Hwnds /\ frames[g] # None
        BY <3>1, NamesAssumption
      <4>2. buffer[o].hwnd = g
        BY <3>1, <4>1 DEF FramesOK
      <4>3. QED
        BY <2>1, <2>3, <3>1, <4>2
    <3>2. QED
      BY <3>1
  <2>5. QED
    BY <2>1, <2>2, <2>3, <2>4 DEF Invalidates
<1>6. FramesOK'
  <2>1. \A o \in Frames : buffer'[o].live => frames'[buffer'[o].hwnd] = o
    BY <1>3 DEF Invalidates
  <2>2. QED
    BY <1>5, <2>1 DEF FramesOK
<1>7. QED
  BY <1>3, <1>4, <1>6

(* Invalidating and moving on: a DESTROY, and the beginning of a teardown. *)
LEMMA InvalidationKeeps ==
    ASSUME TransportOK, NEW fd \in Fds, NEW y \in Reader, ReaderBecomes(fd, y),
           NEW S, S \subseteq Hwnds, Invalidates(S), reader[fd].st # "waiting",
           \/ y.st = "destroy" /\ y.msg \in Hwnds /\ reader[fd].st = "reading"
              /\ \A o \in Frames :
                    frames[y.msg] = o /\ buffer[o].live /\ buffer[o].fd = fd => y.msg \in S
           \/ y.st = "invalidated"
              /\ \A h \in Hwnds :
                    frames[h] # None /\ buffer[frames[h]].fd = fd => h \in S,
           UNCHANGED <<clients, passes, mainQueue, windows, shown>>
    PROVE  TransportOK'
<1>1. /\ TypesOK /\ ReadersOK /\ FramesOK /\ OwnersOK /\ ClientsOK /\ WindowsOK /\ QueueOK
      /\ PassesOK /\ SnapshotsOK /\ DestroyedOK /\ DestroySeparatesFrames
  BY DEF TransportOK, RoutesOK, DeliveryOK
<1>2. TypesOK'
  BY <1>1 DEF TypesOK, ReaderBecomes, Invalidates
<1>3. ReadersOK'
  BY <1>1, ReadersKeep
<1>4. /\ FramesOK' /\ Fewer
      /\ \A o \in Frames : buffer'[o].live => /\ buffer[o].live /\ buffer'[o] = buffer[o]
                                              /\ buffer[o].hwnd \in Hwnds \ S
                                              /\ frames[buffer[o].hwnd] = o
  BY <1>1, Invalidation
<1>5. ClientsOK' /\ WindowsOK' /\ QueueOK'
  BY <1>1, NamesKeep
<1>6. OwnersOK'
  <2> SUFFICES ASSUME NEW o \in Frames, buffer'[o].live
               PROVE  reader'[buffer'[o].fd].st \notin {"closed", "invalidated", "waiting", "torn"}
    BY DEF OwnersOK
  <2>1. /\ buffer'[o] = buffer[o] /\ buffer[o].live /\ buffer[o].fd \in Fds
        /\ buffer[o].hwnd \in Hwnds \ S /\ frames[buffer[o].hwnd] = o
    BY <1>1, <1>4, BufferParts DEF TypesOK
  <2>2. reader[buffer[o].fd].st \notin {"closed", "invalidated", "waiting", "torn"}
    BY <1>1, <2>1 DEF OwnersOK
  <2>3. CASE buffer[o].fd # fd
    BY <2>1, <2>2, <2>3 DEF ReaderBecomes
  <2>4. CASE buffer[o].fd = fd
    <3>1. o # None
      BY NamesAssumption
    <3>2. y.st # "invalidated"
      BY <2>1, <2>4, <3>1
    <3>3. QED
      BY <2>1, <2>4, <3>2 DEF ReaderBecomes
  <2>5. QED
    BY <2>3, <2>4
<1>7. DestroyedOK'
  <2> SUFFICES ASSUME NEW f \in Fds, reader'[f].st = "destroy", NEW o \in Frames,
                      buffer'[o].live, buffer'[o].hwnd = reader'[f].msg
               PROVE  buffer'[o].fd # f
    BY DEF DestroyedOK
  <2>1. /\ buffer'[o] = buffer[o] /\ buffer[o].live
        /\ buffer[o].hwnd \notin S /\ frames[buffer[o].hwnd] = o
    BY <1>4
  <2>2. CASE f = fd
    <3>1. y.st = "destroy" /\ buffer[o].hwnd = y.msg
      BY <2>1, <2>2 DEF ReaderBecomes
    <3>2. QED
      BY <2>1, <2>2, <3>1
  <2>3. CASE f # fd
    BY <1>1, <2>1, <2>3 DEF DestroyedOK, ReaderBecomes
  <2>4. QED
    BY <2>2, <2>3
<1>8. SnapshotsOK' /\ DestroySeparatesFrames'
  BY <1>1, <1>4, OrderKeeps, QueueUntouched DEF QueueOK
<1>9. PassesOK'
  BY <1>1 DEF PassesOK, PassOK, Presents, Invalidates
<1>10. QED
  BY <1>2, <1>3, <1>4, <1>5, <1>6, <1>7, <1>8, <1>9 DEF TransportOK, RoutesOK, DeliveryOK

LEMMA InvalidatesHWND ==
    ASSUME TypesOK, FramesOK, NEW h \in Hwnds, NEW fd \in Fds, InvalidateHWND(h, fd)
    PROVE  \E S : /\ S \subseteq Hwnds /\ Invalidates(S)
                  /\ \A o \in Frames :
                        frames[h] = o /\ buffer[o].live /\ buffer[o].fd = fd => h \in S
<1>1. CASE frames[h] # None /\ buffer[frames[h]].fd = fd
  <2>1. PICK o \in Frames : o = frames[h]
    BY <1>1 DEF TypesOK
  <2>2. PICK x \in Buffer : x = buffer[o]
    BY DEF TypesOK
  <2>3. buffer' = [buffer EXCEPT ![o] = Invalidate(x)] /\ frames' = [frames EXCEPT ![h] = None]
    BY <1>1, <2>1, <2>2 DEF InvalidateHWND
  <2>4. BufferBecomes(o, Invalidate(x)) /\ ~Invalidate(x).live
        /\ Invalidate(x).scheduled = x.scheduled
    BY <2>3, BufferSet, InvalidateParts
  <2>5. Invalidates({h})
    BY <2>1, <2>2, <2>3, <2>4 DEF Invalidates, BufferBecomes, TypesOK
  <2>6. QED
    BY <2>5
<1>2. CASE ~(frames[h] # None /\ buffer[frames[h]].fd = fd)
  <2>1. UNCHANGED <<frames, buffer>>
    BY <1>2 DEF InvalidateHWND, hostVars
  <2>2. Invalidates({})
    BY <2>1 DEF Invalidates, TypesOK
  <2>3. \A o \in Frames : ~(frames[h] = o /\ buffer[o].live /\ buffer[o].fd = fd)
    BY <1>2, NamesAssumption
  <2>4. QED
    BY <2>2, <2>3
<1>3. QED
  BY <1>1, <1>2

LEMMA DestroyKeeps ==
    ASSUME TransportOK, NEW fd \in Fds, NEW h \in Hwnds, DestroyMessage(fd, h)
    PROVE  TransportOK'
<1>1. TypesOK /\ FramesOK
  BY DEF TransportOK, RoutesOK
<1>2. PICK y \in Reader : ReaderBecomes(fd, y) /\ y.st = "destroy" /\ y.msg = h
  <2>1. "destroy" \in ReaderState /\ StAndMsg(fd, "destroy", h)
    BY DEF ReaderState, DestroyMessage, StAndMsg
  <2>2. QED
    BY <1>1, <2>1, ReaderStAndMsg
<1>3. PICK S : /\ S \subseteq Hwnds /\ Invalidates(S)
               /\ \A o \in Frames :
                     frames[h] = o /\ buffer[o].live /\ buffer[o].fd = fd => h \in S
  BY <1>1, InvalidatesHWND DEF DestroyMessage
<1>4. reader[fd].st = "reading" /\ UNCHANGED <<clients, passes, mainQueue, windows, shown>>
  BY DEF DestroyMessage
<1>5. QED
  BY <1>2, <1>3, <1>4, InvalidationKeeps

LEMMA InvalidateClientKeeps ==
    ASSUME TransportOK, NEW fd \in Fds, InvalidateClient(fd)
    PROVE  TransportOK'
<1>1. TypesOK /\ FramesOK
  BY DEF TransportOK, RoutesOK
<1>2. PICK y \in Reader : ReaderBecomes(fd, y) /\ y.st = "invalidated"
  <2>1. "invalidated" \in ReaderState /\ Goto(fd, "invalidated")
    BY DEF ReaderState, InvalidateClient
  <2>2. QED
    BY <1>1, <2>1, ReaderGoto
<1>3. PICK S : S = {h \in Hwnds : frames[h] # None /\ buffer[frames[h]].fd = fd}
  OBVIOUS
<1>4. /\ buffer' = [o \in Frames |-> IF \E h \in S : frames[h] = o
                                     THEN Invalidate(buffer[o]) ELSE buffer[o]]
      /\ frames' = [h \in Hwnds |-> IF h \in S THEN None ELSE frames[h]]
  BY <1>3 DEF InvalidateClient
<1>5. \A o \in Frames : /\ buffer[o] \in Buffer /\ Invalidate(buffer[o]) \in Buffer
                        /\ ~Invalidate(buffer[o]).live
                        /\ Invalidate(buffer[o]).scheduled = buffer[o].scheduled
  BY <1>1, InvalidateParts DEF TypesOK
<1>6. Invalidates(S)
  <2>1. frames' \in [Hwnds -> Frames \cup {None}]
    BY <1>1, <1>4 DEF TypesOK
  <2>2. buffer' \in [Frames -> Buffer]
    BY <1>4, <1>5
  <2>3. QED
    BY <1>4, <1>5, <2>1, <2>2 DEF Invalidates
<1>7. reader[fd].st # "waiting" /\ UNCHANGED <<clients, passes, mainQueue, windows, shown>>
  BY DEF InvalidateClient
<1>8. QED
  BY <1>2, <1>3, <1>6, <1>7, InvalidationKeeps

-----------------------------------------------------------------------------
(* A block is posted to the main queue. *)
LEMMA AppendKeeps ==
    ASSUME TypesOK, QueueOK, SnapshotsOK, DestroySeparatesFrames,
           NEW b \in Block, Post(b), buffer' = buffer,
           b.kind \in Routing => reader[b.fd].st # "waiting",
           b.kind \in Presenting => SnapshotOK(b),
           b.kind = "destroy" => \A o \in Frames :
               buffer[o].live /\ buffer[o].hwnd = b.hwnd => buffer[o].fd # b.fd
    PROVE  Behind(mainQueue') /\ SnapshotsOK' /\ DestroySeparatesFrames'
<1>1. PICK n \in Nat : n = Len(mainQueue)
  BY DEF TypesOK
<1>2. /\ Len(mainQueue') = n + 1 /\ mainQueue'[n + 1] = b
      /\ \A i \in 1..n : mainQueue'[i] = mainQueue[i] /\ mainQueue[i] \in Block
      /\ \A i \in 1..n + 1 : i \in 1..n \/ i = n + 1
  BY <1>1, Appended
<1>3. \A i, j \in 1..n + 1 : i < j => i \in 1..n
  OBVIOUS
<1>4. Behind(mainQueue')
  <2> SUFFICES ASSUME NEW i \in 1..n + 1, NEW j \in 1..n + 1, i < j,
                      mainQueue'[i].kind = "teardown", mainQueue'[j].kind \in Routing
               PROVE  mainQueue'[j].fd # mainQueue'[i].fd
    BY <1>2 DEF Behind
  <2>1. i \in 1..n /\ mainQueue'[i] = mainQueue[i]
    BY <1>2, <1>3
  <2>2. reader[mainQueue[i].fd].st = "waiting"
    BY <1>1, <2>1 DEF QueueOK, BlockOK
  <2>3. CASE j = n + 1
    BY <1>2, <2>1, <2>2, <2>3
  <2>4. CASE j \in 1..n
    BY <1>1, <1>2, <2>1, <2>4 DEF QueueOK, Behind
  <2>5. QED
    BY <1>2, <2>3, <2>4
<1>5. SnapshotsOK'
  <2> SUFFICES ASSUME NEW i \in 1..n + 1, mainQueue'[i].kind \in Presenting
               PROVE  SnapshotOK(mainQueue[i])'
    BY <1>2 DEF SnapshotsOK
  <2>1. CASE i = n + 1
    BY <1>2, <2>1 DEF SnapshotOK
  <2>2. CASE i \in 1..n
    BY <1>1, <1>2, <2>2 DEF SnapshotsOK, SnapshotOK
  <2>3. QED
    BY <1>2, <2>1, <2>2
<1>6. DestroySeparatesFrames'
  <2> SUFFICES ASSUME NEW i \in 1..n + 1, NEW j \in 1..n + 1, i < j,
                      mainQueue'[i].kind \in Presenting, mainQueue'[j].kind = "destroy",
                      mainQueue'[i].hwnd = mainQueue'[j].hwnd,
                      mainQueue'[i].fd = mainQueue'[j].fd,
                      buffer[mainQueue'[i].frame].live
               PROVE  buffer[mainQueue'[i].frame].gen # mainQueue'[i].gen
    BY <1>2 DEF DestroySeparatesFrames, Presenting
  <2>1. i \in 1..n /\ mainQueue'[i] = mainQueue[i]
    BY <1>2, <1>3
  <2>2. CASE j \in 1..n
    BY <1>1, <1>2, <2>1, <2>2 DEF DestroySeparatesFrames, Presenting
  <2>3. CASE j = n + 1
    <3>1. SnapshotOK(mainQueue[i]) /\ mainQueue[i].frame \in Frames
      BY <1>1, <1>2, <2>1, BlockParts DEF SnapshotsOK
    <3>2. QED
      BY <1>2, <2>1, <2>3, <3>1 DEF SnapshotOK
  <2>4. QED
    BY <1>2, <2>2, <2>3
<1>7. QED
  BY <1>4, <1>5, <1>6

LEMMA PassesStay ==
    ASSUME TypesOK, PassesOK, NEW b \in Block, Post(b), UNCHANGED <<buffer, passes>>,
           b.kind \notin Presenting
    PROVE  PassesOK'
<1>1. PICK n \in Nat : n = Len(mainQueue)
  BY DEF TypesOK
<1>2. /\ Len(mainQueue') = n + 1 /\ mainQueue'[n + 1] = b
      /\ \A i \in 1..n : mainQueue'[i] = mainQueue[i]
      /\ \A i \in 1..n + 1 : i \in 1..n \/ i = n + 1
  BY <1>1, Appended
<1>3. \A o \in Frames, i \in 1..n + 1 :
         Presents(mainQueue', i, o) <=> i \in 1..n /\ Presents(mainQueue, i, o)
  BY <1>2 DEF Presents
<1>4. 1..n \subseteq 1..n + 1
  OBVIOUS
<1>5. ASSUME NEW o \in Frames PROVE PassOK(o)'
  <2>1. PassOK(o)
    BY DEF PassesOK
  <2>2. QED
    BY <1>1, <1>2, <1>3, <1>4, <2>1 DEF PassOK
<1>6. QED
  BY <1>5 DEF PassesOK

LEMMA PostKeeps ==
    ASSUME TransportOK, NEW fd \in Fds, NEW y \in Reader, ReaderBecomes(fd, y),
           NEW b \in Block, b.fd = fd, Post(b),
           \/ /\ b.kind = "window" /\ y = reader[fd] /\ y.st = "reading" /\ clients' = clients
           \/ /\ b.kind = "destroy" /\ reader[fd].st = "destroy" /\ b.hwnd = reader[fd].msg
              /\ y.st = "reading" /\ clients' = clients
           \/ /\ b.kind = "teardown" /\ reader[fd].st = "invalidated" /\ y.st = "waiting"
              /\ clients' = clients \ {fd},
           UNCHANGED <<frames, buffer, passes, windows, shown>>
    PROVE  TransportOK'
<1>1. /\ TypesOK /\ ReadersOK /\ FramesOK /\ OwnersOK /\ ClientsOK /\ WindowsOK /\ QueueOK
      /\ PassesOK /\ SnapshotsOK /\ DestroyedOK /\ DestroySeparatesFrames
  BY DEF TransportOK, RoutesOK, DeliveryOK
<1>2. PICK n \in Nat : n = Len(mainQueue)
  BY <1>1, QueueLength
<1>3. /\ mainQueue' \in Seq(Block) /\ Len(mainQueue') = n + 1 /\ mainQueue'[n + 1] = b
      /\ \A i \in 1..n : mainQueue'[i] = mainQueue[i] /\ mainQueue[i] \in Block
      /\ \A i \in 1..n + 1 : i \in 1..n \/ i = n + 1
  BY <1>1, <1>2, Appended
<1>4. TypesOK'
  BY <1>1, <1>3 DEF TypesOK, ReaderBecomes
<1>5. ReadersOK'
  BY <1>1, ReadersKeep
<1>6. FramesOK'
  BY <1>1 DEF FramesOK
<1>7. OwnersOK'
  <2>1. \A o \in Frames : buffer[o].live => buffer[o].fd \in Fds
    BY <1>1, BufferParts DEF TypesOK
  <2>2. QED
    BY <1>1, <2>1 DEF OwnersOK, ReaderBecomes
<1>8. ClientsOK' /\ WindowsOK'
  BY <1>1 DEF ClientsOK, WindowsOK, ReaderBecomes, TypesOK
<1>9. DestroyedOK'
  BY <1>1 DEF DestroyedOK, ReaderBecomes
<1>10. b.kind \notin Presenting
  BY DEF Presenting
<1>11. PassesOK'
  BY <1>1, <1>10, PassesStay
<1>12. Behind(mainQueue') /\ SnapshotsOK' /\ DestroySeparatesFrames'
  <2>1. b.kind = "destroy" => \A o \in Frames :
           buffer[o].live /\ buffer[o].hwnd = b.hwnd => buffer[o].fd # b.fd
    BY <1>1 DEF DestroyedOK
  <2>2. QED
    BY <1>1, <1>10, <2>1, AppendKeeps
<1>13. ASSUME NEW i \in 1..n + 1 PROVE BlockOK(mainQueue, i)'
  <2>1. CASE i = n + 1
    BY <1>3, <2>1 DEF BlockOK, ReaderBecomes
  <2>2. CASE i \in 1..n
    <3>1. BlockOK(mainQueue, i) /\ mainQueue'[i] = mainQueue[i] /\ mainQueue[i].fd \in Fds
      BY <1>1, <1>2, <1>3, <2>2, BlockParts DEF QueueOK
    <3>2. QED
      BY <3>1 DEF BlockOK, ReaderBecomes
  <2>3. QED
    BY <1>3, <2>1, <2>2
<1>14. QueueOK'
  BY <1>3, <1>12, <1>13 DEF QueueOK
<1>15. QED
  BY <1>4, <1>5, <1>6, <1>7, <1>8, <1>9, <1>11, <1>12, <1>14 DEF TransportOK, RoutesOK, DeliveryOK

LEMMA PostingKeeps ==
    ASSUME TransportOK, NEW fd \in Fds,
           \/ \E h \in Hwnds : WindowMessage(fd, h)
           \/ DestroyPosted(fd) \/ RemoveClient(fd)
    PROVE  TransportOK'
<1>1. TypesOK /\ ReadersOK
  BY DEF TransportOK
<1> USE DEF hostVars
<1>2. ASSUME NEW h \in Hwnds, WindowMessage(fd, h) PROVE TransportOK'
  <2>1. PICK b : b = [kind |-> "window", hwnd |-> h, fd |-> fd]
    OBVIOUS
  <2>2. b \in Block /\ b.fd = fd /\ b.kind = "window"
    BY <2>1 DEF Block
  <2>3. ReaderBecomes(fd, reader[fd]) /\ reader[fd] \in Reader
    BY <1>1, <1>2 DEF WindowMessage, ReaderBecomes, TypesOK
  <2>4. Post(b) /\ reader[fd].st = "reading"
        /\ UNCHANGED <<clients, frames, buffer, passes, windows, shown>>
    BY <1>2, <2>1 DEF WindowMessage
  <2>5. QED
    BY <2>2, <2>3, <2>4, PostKeeps
<1>3. CASE DestroyPosted(fd)
  <2>1. PICK b : b = [kind |-> "destroy", hwnd |-> reader[fd].msg, fd |-> fd]
    OBVIOUS
  <2>2. reader[fd].st = "destroy" /\ reader[fd].msg \in Hwnds
    BY <1>1, <1>3 DEF DestroyPosted, ReadersOK
  <2>3. b \in Block /\ b.fd = fd /\ b.kind = "destroy" /\ b.hwnd = reader[fd].msg
    BY <2>1, <2>2 DEF Block
  <2>4. PICK y \in Reader : ReaderBecomes(fd, y) /\ y.st = "reading"
    <3>1. "reading" \in ReaderState /\ Finish(fd, "reading")
      BY <1>3 DEF ReaderState, DestroyPosted
    <3>2. QED
      BY <1>1, <3>1, ReaderFinish
  <2>5. Post(b) /\ UNCHANGED <<clients, frames, buffer, passes, windows, shown>>
    BY <1>3, <2>1 DEF DestroyPosted
  <2>6. QED
    BY <2>2, <2>3, <2>4, <2>5, PostKeeps
<1>4. CASE RemoveClient(fd)
  <2>1. PICK b : b = [kind |-> "teardown", fd |-> fd]
    OBVIOUS
  <2>2. b \in Block /\ b.fd = fd /\ b.kind = "teardown"
    BY <2>1 DEF Block
  <2>3. PICK y \in Reader : ReaderBecomes(fd, y) /\ y.st = "waiting"
    <3>1. "waiting" \in ReaderState /\ Goto(fd, "waiting")
      BY <1>4 DEF ReaderState, RemoveClient
    <3>2. QED
      BY <1>1, <3>1, ReaderGoto
  <2>4. Post(b) /\ clients' = clients \ {fd} /\ reader[fd].st = "invalidated"
        /\ UNCHANGED <<frames, buffer, passes, windows, shown>>
    BY <1>4, <2>1 DEF RemoveClient
  <2>5. QED
    BY <2>2, <2>3, <2>4, PostKeeps
<1>5. QED
  BY <1>2, <1>3, <1>4

-----------------------------------------------------------------------------
(* The framebuffer o of window h has new contents, sent by fd: the contents of the
   framebuffer the window had changed, or an unused object took its place. *)
Fresh(fd, h, o) ==
    /\ buffer' \in [Frames -> Buffer] /\ frames' \in [Hwnds -> Frames \cup {None}]
    /\ shown' \in [Frames -> 0..MaxGeneration]
    /\ buffer'[o].live /\ buffer'[o].hwnd = h /\ buffer'[o].fd = fd
    /\ frames'[h] = o /\ \A g \in Hwnds : g # h => frames'[g] = frames[g]
    /\ \A n \in Frames : /\ buffer'[n].scheduled = buffer[n].scheduled
                         /\ n # o /\ n = frames[h] => ~buffer'[n].live
                         /\ n # o /\ n # frames[h] => buffer'[n] = buffer[n]
    /\ \/ o = frames[h] /\ buffer'[o].gen > buffer[o].gen
       \/ ~buffer[o].live /\ ~buffer[o].scheduled

LEMMA FreshFrames ==
    ASSUME TypesOK, FramesOK, NEW fd \in Fds, NEW h \in Hwnds, NEW o \in Frames,
           Fresh(fd, h, o)
    PROVE  FramesOK'
<1>1. ASSUME NEW g \in Hwnds, frames'[g] # None
      PROVE  buffer'[frames'[g]].live /\ buffer'[frames'[g]].hwnd = g
  <2>1. CASE g = h
    BY <2>1 DEF Fresh
  <2>2. CASE g # h
    <3>1. PICK n \in Frames : n = frames[g] /\ n = frames'[g]
      BY <1>1, <2>2 DEF Fresh, TypesOK
    <3>2. buffer[n].live /\ buffer[n].hwnd = g
      BY <1>1, <3>1 DEF FramesOK
    <3>3. n # frames[h]
      BY <2>2, <3>1, <3>2, NamesAssumption DEF FramesOK
    <3>4. n # o
      BY <3>2, <3>3 DEF Fresh
    <3>5. QED
      BY <3>1, <3>2, <3>3, <3>4 DEF Fresh
  <2>3. QED
    BY <2>1, <2>2
<1>2. ASSUME NEW n \in Frames, buffer'[n].live PROVE frames'[buffer'[n].hwnd] = n
  <2>1. CASE n = o
    BY <2>1 DEF Fresh
  <2>2. CASE n # o
    <3>1. n # frames[h] /\ buffer'[n] = buffer[n]
      BY <1>2, <2>2 DEF Fresh
    <3>2. frames[buffer[n].hwnd] = n /\ buffer[n].hwnd \in Hwnds
      BY <1>2, <3>1, BufferParts DEF FramesOK, TypesOK
    <3>3. QED
      BY <3>1, <3>2 DEF Fresh
  <2>3. QED
    BY <2>1, <2>2
<1>3. QED
  BY <1>1, <1>2 DEF FramesOK

LEMMA FreshOrder ==
    ASSUME TypesOK, PassesOK, SnapshotsOK, DestroySeparatesFrames, mainQueue' = mainQueue,
           NEW fd \in Fds, NEW h \in Hwnds, NEW o \in Frames, Fresh(fd, h, o),
           o = frames[h] => buffer[o].live /\ buffer[o].hwnd = h
    PROVE  SnapshotsOK' /\ DestroySeparatesFrames'
<1>1. PICK n \in Nat : n = Len(mainQueue)
  BY QueueLength
<1>2. ASSUME NEW i \in 1..n, mainQueue[i].kind \in Presenting, buffer'[mainQueue[i].frame].live
      PROVE  /\ SnapshotOK(mainQueue[i])'
             /\ buffer'[mainQueue[i].frame].gen = mainQueue[i].gen =>
                   buffer'[mainQueue[i].frame] = buffer[mainQueue[i].frame]
  <2>1. PICK b \in Block : b = mainQueue[i]
    BY <1>1 DEF TypesOK
  <2>2. b.frame \in Frames /\ b.gen \in 1..MaxGeneration /\ b.kind \in Presenting
    BY <1>2, <2>1, BlockParts
  <2>3. SnapshotOK(b)
    BY <1>1, <1>2, <2>1 DEF SnapshotsOK
  <2>4. CASE b.frame # o
    <3>1. buffer'[b.frame] = buffer[b.frame]
      BY <1>2, <2>1, <2>2, <2>4 DEF Fresh
    <3>2. QED
      BY <2>1, <2>3, <3>1 DEF SnapshotOK
  <2>5. CASE b.frame = o
    <3>1. Presents(mainQueue, i, o)
      BY <2>1, <2>2, <2>5 DEF Presents
    <3>2. buffer[o].scheduled
      BY <1>1, <3>1 DEF PassesOK, PassOK
    <3>3. o = frames[h] /\ buffer'[o].gen > buffer[o].gen /\ buffer'[o].hwnd = h
      BY <3>2 DEF Fresh
    <3>4. buffer[o].live /\ buffer[o].hwnd = h
      BY <3>3
    <3>5. PICK x \in 1..MaxGeneration, z \in 1..MaxGeneration : x = buffer[o].gen /\ z = buffer'[o].gen
      <4>1. buffer[o] \in Buffer /\ buffer'[o] \in Buffer /\ buffer'[o].live
        BY DEF TypesOK, Fresh
      <4>2. QED
        BY <3>4, <4>1, BufferParts
    <3>6. x >= b.gen /\ b.hwnd = h
      BY <2>3, <2>5, <3>4, <3>5 DEF SnapshotOK
    <3>7. z >= b.gen /\ z # b.gen
      BY <2>2, <3>3, <3>5, <3>6, BoundsAssumption
    <3>8. QED
      BY <2>1, <2>5, <3>3, <3>5, <3>6, <3>7 DEF SnapshotOK
  <2>6. QED
    BY <2>4, <2>5
<1>3. SnapshotsOK'
  <2> SUFFICES ASSUME NEW i \in 1..n, mainQueue[i].kind \in Presenting
               PROVE  SnapshotOK(mainQueue[i])'
    BY <1>1 DEF SnapshotsOK
  <2>1. CASE buffer'[mainQueue[i].frame].live
    BY <1>2, <2>1
  <2>2. CASE ~buffer'[mainQueue[i].frame].live
    BY <2>2 DEF SnapshotOK
  <2>3. QED
    BY <2>1, <2>2
<1>4. DestroySeparatesFrames'
  <2> SUFFICES ASSUME NEW i \in 1..n, NEW j \in 1..n, i < j,
                      mainQueue[i].kind \in Presenting, mainQueue[j].kind = "destroy",
                      mainQueue[i].hwnd = mainQueue[j].hwnd,
                      mainQueue[i].fd = mainQueue[j].fd,
                      buffer'[mainQueue[i].frame].live
               PROVE  buffer'[mainQueue[i].frame].gen # mainQueue[i].gen
    BY <1>1 DEF DestroySeparatesFrames, Presenting
  <2>1. buffer[mainQueue[i].frame].live => buffer[mainQueue[i].frame].gen # mainQueue[i].gen
    BY <1>1 DEF DestroySeparatesFrames, Presenting
  <2>2. QED
    BY <1>2, <2>1
<1>5. QED
  BY <1>3, <1>4

LEMMA FreshKeeps ==
    ASSUME TransportOK, NEW fd \in Fds, NEW h \in Hwnds, NEW o \in Frames, Fresh(fd, h, o),
           NEW y \in Reader, ReaderBecomes(fd, y), y.st = "schedule", y.frame = o,
           y.msg \in Message, reader[fd].st = "payload",
           UNCHANGED <<clients, passes, mainQueue, windows>>
    PROVE  TransportOK'
<1>1. /\ TypesOK /\ ReadersOK /\ FramesOK /\ OwnersOK /\ ClientsOK /\ WindowsOK /\ QueueOK
      /\ PassesOK /\ SnapshotsOK /\ DestroyedOK /\ DestroySeparatesFrames
  BY DEF TransportOK, RoutesOK, DeliveryOK
<1>2. TypesOK'
  BY <1>1 DEF TypesOK, ReaderBecomes, Fresh
<1>3. ReadersOK'
  BY <1>1, ReadersKeep
<1>4. FramesOK'
  BY <1>1, FreshFrames
<1>5. ClientsOK' /\ WindowsOK' /\ QueueOK'
  BY <1>1, NamesKeep
<1>6. \A n \in Frames : buffer'[n].live /\ n # o => buffer'[n] = buffer[n] /\ buffer[n].fd \in Fds
  BY <1>1, BufferParts DEF Fresh, TypesOK
<1>7. OwnersOK'
  <2> SUFFICES ASSUME NEW n \in Frames, buffer'[n].live
               PROVE  reader'[buffer'[n].fd].st \notin {"closed", "invalidated", "waiting", "torn"}
    BY DEF OwnersOK
  <2>1. CASE n = o
    BY <2>1 DEF Fresh, ReaderBecomes
  <2>2. CASE n # o
    BY <1>1, <1>6, <2>2 DEF OwnersOK, ReaderBecomes
  <2>3. QED
    BY <2>1, <2>2
<1>8. DestroyedOK'
  <2> SUFFICES ASSUME NEW f \in Fds, reader'[f].st = "destroy", NEW n \in Frames,
                      buffer'[n].live, buffer'[n].hwnd = reader'[f].msg
               PROVE  buffer'[n].fd # f
    BY DEF DestroyedOK
  <2>1. f # fd /\ reader'[f] = reader[f]
    BY DEF ReaderBecomes
  <2>2. CASE n = o
    BY <2>1, <2>2 DEF Fresh
  <2>3. CASE n # o
    BY <1>1, <1>6, <2>1, <2>3 DEF DestroyedOK
  <2>4. QED
    BY <2>2, <2>3
<1>9. SnapshotsOK' /\ DestroySeparatesFrames'
  <2>1. o = frames[h] => buffer[o].live /\ buffer[o].hwnd = h
    BY <1>1, NamesAssumption DEF FramesOK
  <2>2. QED
    BY <1>1, <2>1, FreshOrder
<1>10. PassesOK'
  BY <1>1 DEF PassesOK, PassOK, Presents, Fresh
<1>11. QED
  BY <1>2, <1>3, <1>4, <1>5, <1>7, <1>8, <1>9, <1>10 DEF TransportOK, RoutesOK, DeliveryOK

(* A framebuffer's owner and generation are assigned. *)
Assigned(o, fd, pid, g) ==
    buffer' = [buffer EXCEPT ![o].fd = fd, ![o].pid = pid, ![o].gen = g]
Owned(x, fd, pid, g) == [x EXCEPT !.fd = fd, !.pid = pid, !.gen = g]
Advanced(o, g) == buffer' = [buffer EXCEPT ![o].gen = g]

LEMMA AssignedOnce ==
    ASSUME NEW o \in DOMAIN buffer, buffer = [n \in DOMAIN buffer |-> buffer[n]],
           NEW fd, NEW pid, NEW g, Assigned(o, fd, pid, g),
           NEW z, z = Owned(buffer[o], fd, pid, g)
    PROVE  buffer' = [buffer EXCEPT ![o] = z]
<1>1. PICK a, b, c : /\ a = [buffer EXCEPT ![o].fd = fd] /\ b = [a EXCEPT ![o].pid = pid]
                     /\ c = [b EXCEPT ![o].gen = g]
  OBVIOUS
<1>2. PICK x : x = [buffer[o] EXCEPT !.fd = fd]
  OBVIOUS
<1>3. PICK y : y = [x EXCEPT !.pid = pid]
  OBVIOUS
<1>4. z = [y EXCEPT !.gen = g]
  BY <1>2, <1>3 DEF Owned
<1>5. a = [buffer EXCEPT ![o] = x]
  BY <1>1, <1>2
<1>6. a[o] = x /\ DOMAIN a = DOMAIN buffer
  BY <1>5
<1>7. b = [a EXCEPT ![o] = y]
  BY <1>1, <1>3, <1>6
<1>8. b[o] = y /\ DOMAIN b = DOMAIN buffer
  BY <1>6, <1>7
<1>9. c = [b EXCEPT ![o] = z]
  BY <1>1, <1>4, <1>8
<1>10. c = [buffer EXCEPT ![o] = z]
  BY <1>5, <1>6, <1>7, <1>8, <1>9
<1>11. c = buffer'
  BY <1>1 DEF Assigned
<1>12. QED
  BY <1>10, <1>11

LEMMA ContentsSet ==
    ASSUME TypesOK, NEW h \in Hwnds, NEW o \in Frames, NEW fd \in Fds, frames[h] = o,
           UNCHANGED <<frames, shown>>, buffer[o].live, buffer[o].hwnd = h,
           buffer[o].gen < MaxGeneration, NEW g, g = buffer[o].gen + 1,
           \/ \E pid \in Peers \cup {0} : Assigned(o, fd, pid, g)
           \/ Advanced(o, g) /\ buffer[o].fd = fd
    PROVE  Fresh(fd, h, o)
<1>1. PICK x \in Buffer : x = buffer[o]
  BY DEF TypesOK
<1>2. x \in [live : {TRUE}, scheduled : BOOLEAN, hwnd : Hwnds, size : Sizes,
             fd : Fds, pid : Peers \cup {0}, gen : 1..MaxGeneration]
  BY <1>1 DEF Buffer
<1>3. g \in 1..MaxGeneration /\ g > x.gen
  <2>1. x.gen \in 1..MaxGeneration
    BY <1>2
  <2>2. QED
    BY <1>1, <2>1, BoundsAssumption
<1>4. \E y \in Buffer : /\ buffer' = [buffer EXCEPT ![o] = y]
                        /\ y.live /\ y.hwnd = x.hwnd /\ y.fd = fd /\ y.gen = g
                        /\ y.scheduled = x.scheduled
  <2>1. ASSUME NEW pid \in Peers \cup {0}, Assigned(o, fd, pid, g)
        PROVE  \E y \in Buffer : /\ buffer' = [buffer EXCEPT ![o] = y]
                                 /\ y.live /\ y.hwnd = x.hwnd /\ y.fd = fd /\ y.gen = g
                                 /\ y.scheduled = x.scheduled
    <3>1. PICK y : y = Owned(x, fd, pid, g)
      OBVIOUS
    <3>2. y \in Buffer /\ y.live /\ y.hwnd = x.hwnd /\ y.fd = fd /\ y.gen = g
          /\ y.scheduled = x.scheduled
      BY <1>2, <1>3, <3>1 DEF Buffer, Owned
    <3>3. buffer' = [buffer EXCEPT ![o] = y]
      <4>1. o \in DOMAIN buffer /\ buffer = [n \in DOMAIN buffer |-> buffer[n]]
        BY DEF TypesOK
      <4>2. QED
        BY <1>1, <2>1, <3>1, <4>1, AssignedOnce
    <3>4. QED
      BY <3>2, <3>3
  <2>2. CASE Advanced(o, g) /\ buffer[o].fd = fd
    <3>1. PICK y : y = [x EXCEPT !.gen = g]
      OBVIOUS
    <3>2. y \in Buffer /\ y.live /\ y.hwnd = x.hwnd /\ y.fd = x.fd /\ y.gen = g
          /\ y.scheduled = x.scheduled
      <4>1. y \in [live : {TRUE}, scheduled : BOOLEAN, hwnd : Hwnds, size : Sizes,
                   fd : Fds, pid : Peers \cup {0}, gen : 1..MaxGeneration]
        BY <1>2, <1>3, <3>1
      <4>2. y.hwnd = x.hwnd /\ y.fd = x.fd /\ y.gen = g /\ y.scheduled = x.scheduled
        BY <1>2, <3>1
      <4>3. QED
        BY <4>1, <4>2 DEF Buffer
    <3>3. buffer' = [buffer EXCEPT ![o] = y]
      BY <1>1, <2>2, <3>1 DEF Advanced, TypesOK
    <3>4. QED
      BY <1>1, <2>2, <3>2, <3>3
  <2>3. QED
    BY <2>1, <2>2
<1>5. PICK y \in Buffer : /\ buffer' = [buffer EXCEPT ![o] = y]
                          /\ y.live /\ y.hwnd = x.hwnd /\ y.fd = fd /\ y.gen = g
                          /\ y.scheduled = x.scheduled
  BY <1>4
<1>6. BufferBecomes(o, y)
  BY <1>5, BufferSet
<1>7. QED
  BY <1>1, <1>3, <1>5, <1>6 DEF Fresh, BufferBecomes, TypesOK

LEMMA Installed ==
    ASSUME TypesOK, NEW fd \in Fds, NEW m \in Message, NEW o \in FreeFrames, Install(fd, m, o)
    PROVE  Fresh(fd, m.hwnd, o) /\ o \in Frames
<1>1. PICK h \in Hwnds, z \in Sizes : h = m.hwnd /\ z = m.size
  BY DEF Message
<1>2. o \in Frames /\ buffer[o] = Invalidated
  BY DEF FreeFrames
<1>3. PICK y : y = [live |-> TRUE, scheduled |-> FALSE, hwnd |-> h, size |-> z, fd |-> fd,
                    pid |-> reader[fd].pid, gen |-> 1]
  OBVIOUS
<1>4. reader[fd].pid \in Peers \cup {0} /\ 1 \in 1..MaxGeneration
  BY BoundsAssumption DEF TypesOK, Reader
<1>5. y \in Buffer /\ y.live /\ y.hwnd = h /\ y.fd = fd /\ ~y.scheduled /\ y.scheduled = FALSE
  BY <1>3, <1>4 DEF Buffer
<1>6. PICK base : base = [b \in Frames |-> IF b = frames[h] THEN Invalidate(buffer[b]) ELSE buffer[b]]
  OBVIOUS
<1>7. buffer' = [base EXCEPT ![o] = y] /\ frames' = [frames EXCEPT ![h] = o]
      /\ shown' = [shown EXCEPT ![o] = 0]
  BY <1>1, <1>3, <1>6 DEF Install
<1>8. \A b \in Frames : /\ buffer[b] \in Buffer /\ Invalidate(buffer[b]) \in Buffer
                        /\ ~Invalidate(buffer[b]).live
                        /\ Invalidate(buffer[b]).scheduled = buffer[b].scheduled
  BY InvalidateParts DEF TypesOK
<1>9. base \in [Frames -> Buffer]
  BY <1>6, <1>8
<1>10. buffer' \in [Frames -> Buffer] /\ buffer'[o] = y
       /\ \A n \in Frames : n # o => buffer'[n] = base[n]
  BY <1>2, <1>5, <1>7, <1>9
<1>11. ~buffer[o].live /\ ~buffer[o].scheduled /\ buffer[o].scheduled = FALSE
  BY <1>2 DEF Invalidated
<1>12. \A n \in Frames : /\ buffer'[n].scheduled = buffer[n].scheduled
                         /\ n # o /\ n = frames[h] => ~buffer'[n].live
                         /\ n # o /\ n # frames[h] => buffer'[n] = buffer[n]
  BY <1>5, <1>6, <1>8, <1>10, <1>11
<1>13. /\ frames' \in [Hwnds -> Frames \cup {None}] /\ shown' \in [Frames -> 0..MaxGeneration]
       /\ frames'[h] = o /\ \A g \in Hwnds : g # h => frames'[g] = frames[g]
  <2>1. 0 \in 0..MaxGeneration
    BY BoundsAssumption
  <2>2. QED
    BY <1>2, <1>7, <2>1 DEF TypesOK
<1>14. QED
  BY <1>1, <1>2, <1>5, <1>10, <1>11, <1>12, <1>13 DEF Fresh

(* What a payload does to the framebuffers, with the reader set aside. *)
Taken(fd, m, o) == SameGeometry(m) /\ o = frames[m.hwnd] /\ TakeOver(fd, m, o)
Replaced(fd, m, o) == o \in FreeFrames /\ Install(fd, m, o)
Patched(fd, m, o) == /\ Accepts(fd, m) /\ o = frames[m.hwnd] /\ buffer[o].gen < MaxGeneration
                     /\ Advanced(o, buffer[o].gen + 1) /\ UNCHANGED <<frames, shown>>

LEMMA ContentsFresh ==
    ASSUME TypesOK, FramesOK, NEW fd \in Fds, NEW m \in Message, NEW o \in Frames,
           Taken(fd, m, o) \/ Replaced(fd, m, o) \/ Patched(fd, m, o)
    PROVE  Fresh(fd, m.hwnd, o)
<1>1. PICK h \in Hwnds : h = m.hwnd
  BY DEF Message
<1>2. o # None
  BY NamesAssumption
<1>3. CASE Taken(fd, m, o)
  <2>1. frames[h] = o /\ buffer[o].live /\ buffer[o].hwnd = h
    BY <1>1, <1>2, <1>3 DEF Taken, FramesOK
  <2>2. PICK g : g = buffer[o].gen + 1
    OBVIOUS
  <2>3. reader[fd].pid \in Peers \cup {0}
    BY DEF TypesOK, Reader
  <2>4. buffer[o].gen < MaxGeneration /\ UNCHANGED <<frames, shown>>
    BY <1>3 DEF Taken, TakeOver
  <2>5. Assigned(o, fd, reader[fd].pid, g)
    <3>1. [buffer EXCEPT ![o].fd = fd, ![o].pid = reader[fd].pid, ![o].gen = @ + 1]
          = [buffer EXCEPT ![o].fd = fd, ![o].pid = reader[fd].pid, ![o].gen = g]
      BY <2>2 DEF TypesOK, Buffer
    <3>2. QED
      BY <1>3, <3>1 DEF Taken, TakeOver, Assigned
  <2>6. QED
    BY <1>1, <2>1, <2>2, <2>3, <2>4, <2>5, ContentsSet
<1>4. CASE Replaced(fd, m, o)
  BY <1>4, Installed DEF Replaced
<1>5. CASE Patched(fd, m, o)
  <2>1. frames[h] = o /\ buffer[o].live /\ buffer[o].hwnd = h /\ buffer[o].fd = fd
    BY <1>1, <1>2, <1>5 DEF Patched, Accepts, FramesOK
  <2>2. QED
    BY <1>1, <1>5, <2>1, ContentsSet DEF Patched
<1>6. QED
  BY <1>3, <1>4, <1>5

LEMMA PayloadKeeps ==
    ASSUME TransportOK, NEW fd \in Fds, ApplyFull(fd) \/ ApplyDirty(fd)
    PROVE  TransportOK'
<1>1. TypesOK /\ FramesOK /\ ReadersOK
  BY DEF TransportOK, RoutesOK
<1>2. reader[fd].st = "payload"
  BY DEF ApplyFull, ApplyDirty
<1>3. PICK m \in Message : m = reader[fd].msg
  BY <1>1, <1>2 DEF ReadersOK
<1>4. UNCHANGED <<clients, passes, mainQueue, windows>>
  BY DEF ApplyFull, ApplyDirty
<1>5. ASSUME NEW o \in Frames, Taken(fd, m, o) \/ Replaced(fd, m, o) \/ Patched(fd, m, o),
             StAndFrame(fd, "schedule", o)
      PROVE  TransportOK'
  <2>1. "schedule" \in ReaderState
    BY DEF ReaderState
  <2>2. PICK y \in Reader : ReaderBecomes(fd, y) /\ y.st = "schedule" /\ y.frame = o /\ y.msg = m
    BY <1>1, <1>3, <1>5, <2>1, ReaderStAndFrame
  <2>3. Fresh(fd, m.hwnd, o) /\ m.hwnd \in Hwnds
    BY <1>1, <1>5, ContentsFresh DEF Message
  <2>4. QED
    BY <1>2, <1>4, <2>2, <2>3, FreshKeeps
<1>6. ASSUME NEW st \in {"reading", "broken"}, Finish(fd, st),
             UNCHANGED <<frames, buffer, shown>>
      PROVE  TransportOK'
  <2>1. st \in ReaderState
    BY <1>6 DEF ReaderState
  <2>2. PICK y \in Reader : ReaderBecomes(fd, y) /\ y.st = st
    BY <1>1, <1>6, <2>1, ReaderFinish
  <2>3. QED
    BY <1>2, <1>4, <1>6, <2>2, ReaderMoves
<1>7. CASE ApplyFull(fd)
  <2>1. \/ Finish(fd, "broken") /\ UNCHANGED <<frames, buffer, shown>>
        \/ \E o \in Frames : /\ Taken(fd, m, o) \/ Replaced(fd, m, o)
                             /\ StAndFrame(fd, "schedule", o)
    BY <1>3, <1>7 DEF ApplyFull, Taken, Replaced, StAndFrame, hostVars
  <2>2. QED
    BY <1>5, <1>6, <2>1
<1>8. CASE ApplyDirty(fd)
  <2>1. CASE Accepts(fd, m)
    <3>1. PICK o \in Frames : o = frames[m.hwnd]
      BY <1>1, <2>1 DEF Accepts, TypesOK, Message
    <3>2. buffer[o].gen < MaxGeneration /\ buffer' = [buffer EXCEPT ![o].gen = @ + 1]
          /\ UNCHANGED <<frames, shown>> /\ StAndFrame(fd, "schedule", o)
      BY <1>3, <1>8, <2>1, <3>1 DEF ApplyDirty, StAndFrame
    <3>3. Advanced(o, buffer[o].gen + 1)
      BY <3>2 DEF Advanced
    <3>4. Patched(fd, m, o)
      BY <2>1, <3>1, <3>2, <3>3 DEF Patched
    <3>5. QED
      BY <1>5, <3>2, <3>4
  <2>2. CASE ~Accepts(fd, m)
    BY <1>3, <1>6, <1>8, <2>2 DEF ApplyDirty
  <2>3. QED
    BY <2>1, <2>2
<1>9. QED
  BY <1>7, <1>8

-----------------------------------------------------------------------------
(* Passes: a flag may change, a counter may move, the images stay. *)
SameImages ==
    /\ buffer' \in [Frames -> Buffer] /\ frames' = frames
    /\ \A n \in Frames : SameImage(buffer[n], buffer'[n])

LEMMA ImagesKeep ==
    ASSUME TypesOK, FramesOK, OwnersOK, DestroyedOK, SameImages,
           \A f \in Fds : reader'[f].st = "destroy" => reader'[f] = reader[f],
           \A f \in Fds : reader'[f].st \in {"closed", "invalidated", "waiting", "torn"} =>
                             reader[f].st \in {"closed", "invalidated", "waiting", "torn"}
    PROVE  FramesOK' /\ OwnersOK' /\ DestroyedOK' /\ Fewer
<1>1. \A n \in Frames : /\ buffer'[n].live = buffer[n].live
                        /\ buffer[n].live => /\ buffer'[n].hwnd = buffer[n].hwnd
                                             /\ buffer'[n].fd = buffer[n].fd
                                             /\ buffer[n].fd \in Fds
  BY BufferParts DEF SameImages, SameImage, TypesOK
<1>2. frames' = frames
  BY DEF SameImages
<1>3. FramesOK'
  <2>1. ASSUME NEW h \in Hwnds, frames'[h] # None
        PROVE  buffer'[frames'[h]].live /\ buffer'[frames'[h]].hwnd = h
    <3>1. PICK n \in Frames : n = frames[h]
      BY <1>2, <2>1 DEF TypesOK
    <3>2. QED
      BY <1>1, <1>2, <2>1, <3>1 DEF FramesOK
  <2>2. \A n \in Frames : buffer'[n].live => frames'[buffer'[n].hwnd] = n
    BY <1>1, <1>2 DEF FramesOK
  <2>3. QED
    BY <2>1, <2>2 DEF FramesOK
<1>4. OwnersOK'
  BY <1>1 DEF OwnersOK
<1>5. DestroyedOK'
  BY <1>1 DEF DestroyedOK
<1>6. Fewer
  BY <1>1 DEF Fewer, SameImages
<1>7. QED
  BY <1>3, <1>4, <1>5, <1>6

LEMMA QueueLengths ==
    ASSUME TypesOK, NEW d, QueueFrom(d)
    PROVE  \E n \in Nat, m \in Nat : n = Len(mainQueue) /\ m = Len(mainQueue')
BY DEF TypesOK, QueueFrom

LEMMA QueuePresents ==
    ASSUME TypesOK, NEW d \in {0, 1}, QueueFrom(d)
    PROVE  \A i \in 1..Len(mainQueue') : /\ i + d \in 1..Len(mainQueue)
                                         /\ \A o \in Frames : Presents(mainQueue', i, o) <=>
                                                                 Presents(mainQueue, i + d, o)
<1> SUFFICES ASSUME NEW i \in 1..Len(mainQueue'), NEW o \in Frames
             PROVE  /\ i + d \in 1..Len(mainQueue)
                    /\ Presents(mainQueue', i, o) <=> Presents(mainQueue, i + d, o)
  <2>1. \A i \in 1..Len(mainQueue') : i + d \in 1..Len(mainQueue)
    BY DEF QueueFrom
  <2>2. QED
    BY <2>1
<1>1. PICK b, c : b = mainQueue[i + d] /\ c = mainQueue'[i]
  OBVIOUS
<1>2. i + d \in 1..Len(mainQueue) /\ SameBlock(b, c) /\ b \in Block /\ c \in Block
  BY <1>1 DEF QueueFrom
<1>3. b.kind \in Presenting <=> c.kind \in Presenting
  BY <1>2 DEF SameBlock
<1>4. b.kind \in Presenting => b.frame = c.frame
  BY <1>2 DEF SameBlock
<1>5. QED
  BY <1>1, <1>2, <1>3, <1>4 DEF Presents

(* The passes of o, when d blocks that present something else have gone. *)
LEMMA PassFrom ==
    ASSUME TypesOK, NEW o \in Frames, PassOK(o), NEW d \in {0, 1}, QueueFrom(d),
           d = 1 => ~Presents(mainQueue, 1, o),
           passes'[o] = passes[o], buffer'[o].scheduled = buffer[o].scheduled
    PROVE  PassOK(o)'
<1>1. PICK n \in Nat, m \in Nat : n = Len(mainQueue) /\ m = Len(mainQueue')
  BY QueueLengths
<1>2. \A i \in 1..m : i + d \in 1..n /\ (Presents(mainQueue', i, o) <=> Presents(mainQueue, i + d, o))
  BY <1>1, QueuePresents
<1>3. m = n - d
  BY <1>1 DEF QueueFrom
<1>4. ASSUME NEW k \in 1..n, Presents(mainQueue, k, o)
      PROVE  \E i \in 1..m : Presents(mainQueue', i, o)
  <2>1. d = 0 \/ k # 1
    BY <1>4
  <2>2. PICK i \in 1..m : i + d = k
    <3>1. k - d \in 1..m /\ (k - d) + d = k
      BY <1>3, <2>1
    <3>2. QED
      BY <3>1
  <2>3. QED
    BY <1>2, <1>4, <2>2
<1>5. \A i, j \in 1..m : i + d = j + d => i = j
  OBVIOUS
<1>6. \A i, j \in 1..m : Presents(mainQueue', i, o) /\ Presents(mainQueue', j, o) => i = j
  BY <1>1, <1>2, <1>5 DEF PassOK
<1>7. passes[o] = 1 => \A i \in 1..m : ~Presents(mainQueue', i, o)
  BY <1>1, <1>2 DEF PassOK
<1>8. (\E i \in 1..m : Presents(mainQueue', i, o)) <=> (\E i \in 1..n : Presents(mainQueue, i, o))
  BY <1>2, <1>4
<1>9. /\ passes[o] \in {0, 1}
      /\ buffer[o].scheduled <=> passes[o] = 1 \/ \E i \in 1..n : Presents(mainQueue, i, o)
  BY <1>1 DEF PassOK
<1>10. passes'[o] \in {0, 1} /\ (passes'[o] = 1 => \A i \in 1..m : ~Presents(mainQueue', i, o))
  BY <1>7, <1>9
<1>11. buffer'[o].scheduled <=> passes'[o] = 1 \/ \E i \in 1..m : Presents(mainQueue', i, o)
  BY <1>8, <1>9
<1>12. QED
  BY <1>1, <1>6, <1>10, <1>11 DEF PassOK

(* The counter of one framebuffer moves together with its flag; the main queue stays. *)
LEMMA PassMoves ==
    ASSUME TypesOK, NEW o \in Frames, PassOK(o), mainQueue' = mainQueue,
           \A i \in 1..Len(mainQueue) : ~Presents(mainQueue, i, o),
           \/ passes'[o] = 1 /\ buffer'[o].scheduled
           \/ passes'[o] = 0 /\ ~buffer'[o].scheduled
    PROVE  PassOK(o)'
BY DEF PassOK, Presents

LEMMA ScheduleKeeps ==
    ASSUME TransportOK, NEW fd \in Fds, ScheduleFrame(fd)
    PROVE  TransportOK'
<1>1. /\ TypesOK /\ ReadersOK /\ FramesOK /\ OwnersOK /\ ClientsOK /\ WindowsOK /\ QueueOK
      /\ PassesOK /\ SnapshotsOK /\ DestroyedOK /\ DestroySeparatesFrames
  BY DEF TransportOK, RoutesOK, DeliveryOK
<1>2. reader[fd].st = "schedule" /\ Finish(fd, "reading")
      /\ UNCHANGED <<clients, frames, mainQueue, windows, shown>>
  BY DEF ScheduleFrame
<1>3. PICK o \in Frames : o = reader[fd].frame
  BY <1>1, <1>2 DEF ReadersOK
<1>4. PICK y \in Reader : ReaderBecomes(fd, y) /\ y.st = "reading"
  <2>1. "reading" \in ReaderState
    BY DEF ReaderState
  <2>2. QED
    BY <1>1, <1>2, <2>1, ReaderFinish
<1>5. PICK s \in BOOLEAN : s = (buffer[o].live /\ ~buffer[o].scheduled)
  OBVIOUS
<1>6. PICK v \in BOOLEAN : v = (s \/ buffer[o].scheduled)
  OBVIOUS
<1>7. FlagBecomes(o, v) /\ passes' = [passes EXCEPT ![o] = IF s THEN passes[o] + 1 ELSE passes[o]]
  BY <1>3, <1>5, <1>6 DEF ScheduleFrame, FlagBecomes
<1>8. /\ buffer' \in [Frames -> Buffer] /\ buffer'[o].scheduled = v
      /\ \A n \in Frames : SameImage(buffer[n], buffer'[n])
      /\ \A n \in Frames : n # o => buffer'[n] = buffer[n]
  BY <1>1, <1>7, FlagSet
<1>9. /\ passes' \in [Frames -> Nat] /\ passes'[o] = IF s THEN passes[o] + 1 ELSE passes[o]
      /\ \A n \in Frames : n # o => passes'[n] = passes[n]
  BY <1>1, <1>7 DEF TypesOK
<1>10. TypesOK'
  BY <1>1, <1>2, <1>4, <1>8, <1>9 DEF TypesOK, ReaderBecomes
<1>11. ReadersOK'
  BY <1>1, <1>4, ReadersKeep
<1>12. ClientsOK' /\ WindowsOK' /\ QueueOK'
  BY <1>1, <1>2, <1>4, NamesKeep
<1>13. SameImages
  BY <1>2, <1>8 DEF SameImages
<1>14. FramesOK' /\ OwnersOK' /\ DestroyedOK' /\ Fewer
  <2>1. \A f \in Fds : f # fd => reader'[f] = reader[f]
    BY <1>4 DEF ReaderBecomes
  <2>2. reader'[fd].st = "reading"
    BY <1>4 DEF ReaderBecomes
  <2>3. /\ \A f \in Fds : reader'[f].st = "destroy" => reader'[f] = reader[f]
        /\ \A f \in Fds : reader'[f].st \in {"closed", "invalidated", "waiting", "torn"} =>
                             reader[f].st \in {"closed", "invalidated", "waiting", "torn"}
    BY <2>1, <2>2
  <2>4. QED
    BY <1>1, <1>13, <2>3, ImagesKeep
<1>15. QueueFrom(0)
  BY <1>1, <1>2, QueueUntouched
<1>16. SnapshotsOK' /\ DestroySeparatesFrames'
  BY <1>1, <1>14, <1>15, OrderKeeps DEF QueueOK
<1>17. ASSUME NEW n \in Frames PROVE PassOK(n)'
  <2>1. PassOK(n)
    BY <1>1 DEF PassesOK
  <2>2. CASE n # o
    <3>1. passes'[n] = passes[n] /\ buffer'[n].scheduled = buffer[n].scheduled
      BY <1>8, <1>9, <2>2
    <3>2. QED
      BY <1>1, <1>15, <2>1, <3>1, PassFrom
  <2>3. CASE n = o /\ ~s
    <3>1. buffer[o].scheduled \in BOOLEAN
      BY <1>1, BufferParts DEF TypesOK
    <3>2. passes'[n] = passes[n] /\ buffer'[n].scheduled = buffer[n].scheduled
      BY <1>6, <1>8, <1>9, <2>3, <3>1
    <3>3. QED
      BY <1>1, <1>15, <2>1, <3>2, PassFrom
  <2>4. CASE n = o /\ s
    <3>1. ~buffer[o].scheduled
      BY <1>5, <2>4
    <3>2. passes[o] = 0 /\ \A i \in 1..Len(mainQueue) : ~Presents(mainQueue, i, o)
      BY <2>1, <2>4, <3>1 DEF PassOK
    <3>3. passes'[o] = 1 /\ buffer'[o].scheduled
      <4>1. v
        BY <1>6, <2>4
      <4>2. passes'[o] = passes[o] + 1
        BY <1>9, <2>4
      <4>3. buffer'[o].scheduled
        BY <1>8, <4>1
      <4>4. QED
        BY <3>2, <4>2, <4>3
    <3>4. QED
      BY <1>1, <1>2, <2>1, <2>4, <3>2, <3>3, PassMoves
  <2>5. QED
    BY <2>2, <2>3, <2>4
<1>18. QED
  BY <1>10, <1>11, <1>12, <1>14, <1>16, <1>17 DEF TransportOK, RoutesOK, DeliveryOK, PassesOK

(* A pass goes from the snapshot queue to the main queue. *)
LEMMA PassPosted ==
    ASSUME TypesOK, NEW o \in Frames, PassOK(o), passes[o] = 1, passes'[o] = 0, buffer' = buffer,
           NEW b \in Block, Post(b), b.kind \in Presenting, b.frame = o
    PROVE  PassOK(o)'
<1>1. PICK n \in Nat : n = Len(mainQueue)
  BY QueueLength
<1>2. /\ Len(mainQueue') = n + 1 /\ mainQueue'[n + 1] = b
      /\ \A i \in 1..n : mainQueue'[i] = mainQueue[i]
      /\ \A i \in 1..n + 1 : i \in 1..n \/ i = n + 1
  BY <1>1, Appended
<1>3. \A i \in 1..n : ~Presents(mainQueue, i, o)
  BY <1>1 DEF PassOK
<1>4. \A i \in 1..n + 1 : Presents(mainQueue', i, o) <=> i = n + 1
  BY <1>2, <1>3 DEF Presents
<1>5. n + 1 \in 1..n + 1
  OBVIOUS
<1>6. buffer[o].scheduled
  BY DEF PassOK
<1>7. QED
  BY <1>2, <1>4, <1>5, <1>6 DEF PassOK

LEMMA PassBeside ==
    ASSUME TypesOK, NEW o \in Frames, PassOK(o), passes'[o] = passes[o], buffer' = buffer,
           NEW b \in Block, Post(b), b.kind \in Presenting => b.frame # o
    PROVE  PassOK(o)'
<1>1. PICK n \in Nat : n = Len(mainQueue)
  BY QueueLength
<1>2. /\ Len(mainQueue') = n + 1 /\ mainQueue'[n + 1] = b
      /\ \A i \in 1..n : mainQueue'[i] = mainQueue[i]
      /\ \A i \in 1..n + 1 : i \in 1..n \/ i = n + 1
  BY <1>1, Appended
<1>3. \A i \in 1..n + 1 : Presents(mainQueue', i, o) <=> i \in 1..n /\ Presents(mainQueue, i, o)
  BY <1>2 DEF Presents
<1>4. 1..n \subseteq 1..n + 1
  OBVIOUS
<1>5. QED
  BY <1>1, <1>2, <1>3, <1>4 DEF PassOK

LEMMA DeliverKeeps ==
    ASSUME TransportOK, NEW o \in Frames, DeliverFrame(o)
    PROVE  TransportOK'
<1>1. /\ TypesOK /\ ReadersOK /\ FramesOK /\ OwnersOK /\ ClientsOK /\ WindowsOK /\ QueueOK
      /\ PassesOK /\ SnapshotsOK /\ DestroyedOK /\ DestroySeparatesFrames
  BY DEF TransportOK, RoutesOK, DeliveryOK
<1>2. UNCHANGED <<reader, clients, frames, windows, shown>>
  BY DEF DeliverFrame
<1>3. PassOK(o) /\ passes[o] = 1 /\ \A i \in 1..Len(mainQueue) : ~Presents(mainQueue, i, o)
  BY <1>1 DEF PassesOK, PassOK, DeliverFrame
<1>4. /\ passes' \in [Frames -> Nat] /\ passes'[o] = 0
      /\ \A n \in Frames : n # o => passes'[n] = passes[n]
  BY <1>1, <1>3 DEF TypesOK, DeliverFrame
<1>5. ReadersOK' /\ ClientsOK' /\ WindowsOK'
  BY <1>1, <1>2 DEF ReadersOK, ClientsOK, WindowsOK
<1>6. CASE ~buffer[o].live
  <2>1. FlagBecomes(o, FALSE) /\ mainQueue' = mainQueue
    BY <1>6 DEF DeliverFrame, FlagBecomes
  <2>2. /\ buffer' \in [Frames -> Buffer] /\ buffer'[o].scheduled = FALSE
        /\ \A n \in Frames : SameImage(buffer[n], buffer'[n])
        /\ \A n \in Frames : n # o => buffer'[n] = buffer[n]
    BY <1>1, <2>1, FlagSet
  <2>3. TypesOK'
    BY <1>1, <1>2, <1>4, <2>1, <2>2 DEF TypesOK
  <2>4. FramesOK' /\ OwnersOK' /\ DestroyedOK' /\ Fewer
    <3>1. SameImages
      BY <1>2, <2>2 DEF SameImages
    <3>2. QED
      BY <1>1, <1>2, <3>1, ImagesKeep
  <2>5. QueueFrom(0)
    BY <1>1, <2>1, QueueUntouched
  <2>6. SnapshotsOK' /\ DestroySeparatesFrames'
    BY <1>1, <2>4, <2>5, OrderKeeps DEF QueueOK
  <2>7. QueueOK'
    BY <1>1, <1>2, <2>1 DEF QueueOK, BlockOK, Behind
  <2>8. ASSUME NEW n \in Frames PROVE PassOK(n)'
    <3>1. CASE n = o
      BY <1>1, <1>3, <1>4, <2>1, <2>2, <3>1, PassMoves
    <3>2. CASE n # o
      <4>1. PassOK(n) /\ passes'[n] = passes[n] /\ buffer'[n].scheduled = buffer[n].scheduled
        BY <1>1, <1>4, <2>2, <3>2 DEF PassesOK
      <4>2. QED
        BY <1>1, <2>5, <4>1, PassFrom
    <3>3. QED
      BY <3>1, <3>2
  <2>9. QED
    BY <1>5, <2>3, <2>4, <2>6, <2>7, <2>8 DEF TransportOK, RoutesOK, DeliveryOK, PassesOK
<1>7. CASE buffer[o].live
  <2>1. PICK b : b = [kind |-> "present", frame |-> o, hwnd |-> buffer[o].hwnd,
                      fd |-> buffer[o].fd, pid |-> buffer[o].pid, gen |-> buffer[o].gen]
    OBVIOUS
  <2>2. Post(b) /\ buffer' = buffer
    BY <1>7, <2>1 DEF DeliverFrame
  <2>3. /\ buffer[o].hwnd \in Hwnds /\ buffer[o].fd \in Fds
        /\ buffer[o].pid \in Peers \cup {0} /\ buffer[o].gen \in 1..MaxGeneration
    BY <1>1, <1>7, BufferParts DEF TypesOK
  <2>4. b \in Block /\ b.kind = "present" /\ b.frame = o
    BY <2>1, <2>3 DEF Block
  <2>5. SnapshotOK(b)
    BY <2>1, <2>3 DEF SnapshotOK
  <2>6. b.kind \in Presenting /\ b.kind \notin Routing
    BY <2>4 DEF Presenting, Routing
  <2>7. Behind(mainQueue') /\ SnapshotsOK' /\ DestroySeparatesFrames'
    BY <1>1, <2>2, <2>4, <2>5, <2>6, AppendKeeps
  <2>8. PICK n \in Nat : n = Len(mainQueue)
    BY <1>1, QueueLength
  <2>9. /\ mainQueue' \in Seq(Block) /\ Len(mainQueue') = n + 1 /\ mainQueue'[n + 1] = b
        /\ \A i \in 1..n : mainQueue'[i] = mainQueue[i]
        /\ \A i \in 1..n + 1 : i \in 1..n \/ i = n + 1
    BY <1>1, <2>2, <2>4, <2>8, Appended
  <2>10. TypesOK'
    BY <1>1, <1>2, <1>4, <2>2, <2>9 DEF TypesOK
  <2>11. FramesOK' /\ OwnersOK' /\ DestroyedOK'
    BY <1>1, <1>2, <2>2 DEF FramesOK, OwnersOK, DestroyedOK
  <2>12. ASSUME NEW i \in 1..n + 1 PROVE BlockOK(mainQueue, i)'
    <3>1. CASE i = n + 1
      BY <2>4, <2>9, <3>1 DEF BlockOK
    <3>2. CASE i \in 1..n
      BY <1>1, <1>2, <2>8, <2>9, <3>2 DEF QueueOK, BlockOK
    <3>3. QED
      BY <2>9, <3>1, <3>2
  <2>13. QueueOK'
    BY <2>7, <2>9, <2>12 DEF QueueOK
  <2>14. ASSUME NEW f \in Frames PROVE PassOK(f)'
    <3>1. CASE f = o
      BY <1>1, <1>3, <1>4, <2>2, <2>4, <2>6, <3>1, PassPosted
    <3>2. CASE f # o
      <4>1. PassOK(f) /\ passes'[f] = passes[f]
        BY <1>1, <1>4, <3>2 DEF PassesOK
      <4>2. QED
        BY <1>1, <2>2, <2>4, <3>2, <4>1, PassBeside
    <3>3. QED
      BY <3>1, <3>2
  <2>15. QED
    BY <1>5, <2>7, <2>10, <2>11, <2>13, <2>14 DEF TransportOK, RoutesOK, DeliveryOK, PassesOK
<1>8. QED
  BY <1>6, <1>7

-----------------------------------------------------------------------------
(* The main queue runs its first block.  A window changes to a connection whose
   teardown has not run, or to none. *)
Retargets ==
    /\ windows' \in [Hwnds -> Fds \cup {Detached, None}]
    /\ \A h \in Hwnds : \/ windows'[h] = windows[h] \/ windows'[h] \notin Fds
                        \/ reader[windows'[h]].st \notin {"closed", "torn"}

LEMMA WindowsRetarget ==
    ASSUME WindowsOK, Retargets, reader' = reader
    PROVE  WindowsOK'
BY DEF WindowsOK, Retargets

LEMMA WindowSet ==
    ASSUME TypesOK, NEW h \in Hwnds, NEW v \in Fds \cup {Detached, None},
           v \in Fds => reader[v].st \notin {"closed", "torn"},
           windows' = [windows EXCEPT ![h] = v]
    PROVE  Retargets
BY DEF TypesOK, Retargets

(* A presentation goes on. *)
LEMMA HeadKeeps ==
    ASSUME TransportOK, mainQueue # <<>>, NEW k \in {"show", "presented"},
           mainQueue[1].kind \in Presenting, HeadKind(k),
           k = "show" => reader[mainQueue[1].fd].st \notin {"closed", "torn"},
           Retargets, shown' \in [Frames -> 0..MaxGeneration],
           UNCHANGED <<reader, clients, frames, buffer, passes>>
    PROVE  TransportOK'
<1>1. /\ TypesOK /\ ReadersOK /\ FramesOK /\ OwnersOK /\ ClientsOK /\ WindowsOK /\ QueueOK
      /\ PassesOK /\ SnapshotsOK /\ DestroyedOK /\ DestroySeparatesFrames
  BY DEF TransportOK, RoutesOK, DeliveryOK
<1>2. k \in Presenting
  BY DEF Presenting
<1>3. /\ QueueFrom(0) /\ mainQueue'[1].kind = k
      /\ \A i \in 1..Len(mainQueue) : i # 1 => mainQueue'[i] = mainQueue[i]
  BY <1>1, <1>2, HeadChanged
<1>4. PICK n \in Nat : n = Len(mainQueue)
  BY <1>1, QueueLength
<1>5. mainQueue' \in Seq(Block) /\ Len(mainQueue') = n
  BY <1>3, <1>4 DEF QueueFrom
<1>6. TypesOK'
  BY <1>1, <1>5 DEF TypesOK, Retargets
<1>7. ReadersOK' /\ ClientsOK' /\ FramesOK' /\ OwnersOK' /\ DestroyedOK'
  BY <1>1 DEF ReadersOK, ClientsOK, FramesOK, OwnersOK, DestroyedOK
<1>8. WindowsOK'
  BY <1>1, WindowsRetarget
<1>9. SnapshotsOK' /\ DestroySeparatesFrames' /\ Behind(mainQueue')
  <2>1. Fewer
    BY DEF Fewer, SameImage
  <2>2. QED
    BY <1>1, <1>3, <2>1, OrderKeeps DEF QueueOK
<1>10. ASSUME NEW i \in 1..n PROVE BlockOK(mainQueue, i)'
  <2>1. CASE i = 1
    <3>1. mainQueue'[1].fd = mainQueue[1].fd
      <4>1. 1 \in 1..Len(mainQueue') /\ 1 + 0 = 1
        BY <1>5, <2>1
      <4>2. QED
        BY <1>3, <4>1 DEF QueueFrom, SameBlock
    <3>2. QED
      BY <1>3, <2>1, <3>1 DEF BlockOK
  <2>2. CASE i # 1
    BY <1>1, <1>3, <1>4, <2>2 DEF QueueOK, BlockOK
  <2>3. QED
    BY <2>1, <2>2
<1>11. QueueOK'
  BY <1>5, <1>9, <1>10 DEF QueueOK
<1>12. ASSUME NEW o \in Frames PROVE PassOK(o)'
  <2>1. PassOK(o)
    BY <1>1 DEF PassesOK
  <2>2. QED
    BY <1>1, <1>3, <2>1, PassFrom
<1>13. QED
  BY <1>6, <1>7, <1>8, <1>9, <1>11, <1>12 DEF TransportOK, RoutesOK, DeliveryOK, PassesOK

LEMMA PresentingKeeps ==
    ASSUME TransportOK, PresentChecks \/ PresentFrame
    PROVE  TransportOK'
<1>1. TypesOK /\ OwnersOK /\ QueueOK /\ WindowsOK
  BY DEF TransportOK, RoutesOK
<1>2. mainQueue # <<>> /\ 1 \in 1..Len(mainQueue) /\ Head(mainQueue) = mainQueue[1]
  <2>1. mainQueue # <<>> /\ mainQueue \in Seq(Block)
    BY <1>1 DEF PresentChecks, PresentFrame, AtHead, TypesOK
  <2>2. QED
    BY <2>1
<1>3. PICK b \in Block : b = mainQueue[1]
  BY <1>1, <1>2 DEF TypesOK
<1>4. b.kind \in Presenting /\ UNCHANGED <<reader, clients, frames, buffer, passes>>
  BY <1>2, <1>3 DEF PresentChecks, PresentFrame, AtHead, Presenting, hostVars
<1>5. b.frame \in Frames /\ b.fd \in Fds /\ b.hwnd \in Hwnds /\ b.gen \in 1..MaxGeneration
  BY <1>4, BlockParts DEF Presenting
<1>6. CASE PresentChecks
  <2>1. PICK p \in BOOLEAN : p = (/\ buffer[b.frame].live /\ buffer[b.frame].fd = b.fd
                                  /\ buffer[b.frame].pid = b.pid)
    OBVIOUS
  <2>2. HeadKind(IF p THEN "show" ELSE "presented") /\ UNCHANGED <<windows, shown>>
    BY <1>2, <1>3, <1>6, <2>1 DEF PresentChecks, HeadKind
  <2>3. PICK k \in {"show", "presented"} : k = IF p THEN "show" ELSE "presented"
    OBVIOUS
  <2>4. k = "show" => reader[b.fd].st \notin {"closed", "torn"}
    BY <1>1, <1>5, <2>1, <2>3 DEF OwnersOK
  <2>5. Retargets /\ shown' \in [Frames -> 0..MaxGeneration]
    BY <1>1, <2>2 DEF Retargets, TypesOK
  <2>6. QED
    BY <1>2, <1>3, <1>4, <2>2, <2>3, <2>4, <2>5, HeadKeeps
<1>7. CASE PresentFrame
  <2>1. /\ HeadKind("presented") /\ windows' = [windows EXCEPT ![b.hwnd] = b.fd]
        /\ shown' = [shown EXCEPT ![b.frame] = b.gen] /\ b.kind = "show"
    BY <1>2, <1>3, <1>7 DEF PresentFrame, HeadKind, AtHead
  <2>2. reader[b.fd].st \notin {"closed", "torn"}
    BY <1>1, <1>2, <1>3, <2>1 DEF QueueOK, BlockOK
  <2>3. Retargets
    BY <1>1, <1>5, <2>1, <2>2, WindowSet
  <2>4. shown' \in [Frames -> 0..MaxGeneration]
    <3>1. b.gen \in 0..MaxGeneration
      BY <1>5, BoundsAssumption
    <3>2. QED
      BY <1>1, <1>5, <2>1, <3>1 DEF TypesOK
  <2>5. QED
    BY <1>2, <1>3, <1>4, <2>1, <2>3, <2>4, HeadKeeps
<1>8. QED
  BY <1>6, <1>7

(* A block has run; the one that a teardown posted lets its reader go on. *)
LEMMA TailKeeps ==
    ASSUME TransportOK, mainQueue # <<>>, mainQueue' = Tail(mainQueue),
           NEW fd \in Fds, NEW y \in Reader, ReaderBecomes(fd, y), fd = mainQueue[1].fd,
           y = reader[fd] \/ (mainQueue[1].kind = "teardown" /\ y.st = "torn"),
           SameImages, clients' = clients, shown' = shown, passes' \in [Frames -> Nat],
           windows' \in [Hwnds -> Fds \cup {Detached, None}], WindowsOK', PassesOK'
    PROVE  TransportOK'
<1>1. /\ TypesOK /\ ReadersOK /\ FramesOK /\ OwnersOK /\ ClientsOK /\ WindowsOK /\ QueueOK
      /\ PassesOK /\ SnapshotsOK /\ DestroyedOK /\ DestroySeparatesFrames
  BY DEF TransportOK, RoutesOK, DeliveryOK
<1>2. /\ QueueFrom(1) /\ 1 \in 1..Len(mainQueue) /\ mainQueue[1] \in Block
      /\ \A i \in 1..Len(mainQueue') : mainQueue'[i] = mainQueue[i + 1] /\ i + 1 # 1
  BY <1>1, HeadRemoved
<1>3. PICK n \in Nat, m \in Nat : n = Len(mainQueue) /\ m = Len(mainQueue')
  BY <1>1, <1>2, QueueLengths
<1>4. \A i \in 1..m : /\ i + 1 \in 1..n /\ 1 < i + 1 /\ mainQueue[i + 1] \in Block
                      /\ mainQueue'[i] = mainQueue[i + 1] /\ i + 1 # 1
  <2>1. \A i \in 1..m : i + 1 \in 1..n /\ mainQueue[i + 1] \in Block
    BY <1>2, <1>3 DEF QueueFrom
  <2>2. \A i \in 1..m : 1 < i + 1
    OBVIOUS
  <2>3. QED
    BY <1>2, <1>3, <2>1, <2>2
<1>5. y # reader[fd] => reader[fd].st = "waiting" /\ y.st = "torn"
  BY <1>1, <1>2 DEF QueueOK, BlockOK
<1>6. \A f \in Fds : reader'[f] = reader[f] \/ (f = fd /\ reader'[f] = y)
  BY DEF ReaderBecomes
<1>7. TypesOK'
  BY <1>1, <1>2 DEF TypesOK, QueueFrom, SameImages, ReaderBecomes
<1>8. ReadersOK' /\ ClientsOK'
  <2>1. ReadersOK'
    BY <1>1, <1>5, <1>6 DEF ReadersOK
  <2>2. ClientsOK'
    BY <1>1, <1>5, <1>6 DEF ClientsOK, TypesOK
  <2>3. QED
    BY <2>1, <2>2
<1>9. FramesOK' /\ OwnersOK' /\ DestroyedOK' /\ Fewer
  <2>1. /\ \A f \in Fds : reader'[f].st = "destroy" => reader'[f] = reader[f]
        /\ \A f \in Fds : reader'[f].st \in {"closed", "invalidated", "waiting", "torn"} =>
                             reader[f].st \in {"closed", "invalidated", "waiting", "torn"}
    BY <1>5, <1>6
  <2>2. QED
    BY <1>1, <2>1, ImagesKeep
<1>10. SnapshotsOK' /\ DestroySeparatesFrames' /\ Behind(mainQueue')
  BY <1>1, <1>2, <1>9, OrderKeeps DEF QueueOK
<1>11. ASSUME NEW i \in 1..m PROVE BlockOK(mainQueue, i)'
  <2>1. PICK b \in Block : b = mainQueue[i + 1] /\ b = mainQueue'[i]
    BY <1>4
  <2>2. b.fd \in Fds /\ b.kind \in Presenting \cup Routing
    BY BlockParts
  <2>3. /\ b.kind \in {"window", "destroy"} => reader[b.fd].st \notin {"closed", "torn"}
        /\ b.kind = "teardown" => reader[b.fd].st = "waiting"
        /\ b.kind \notin {"show", "presented"}
    BY <1>1, <1>3, <1>4, <2>1 DEF QueueOK, BlockOK
  <2>4. b.kind \in Routing => reader'[b.fd] = reader[b.fd]
    <3>1. mainQueue[1].kind = "teardown" /\ b.kind \in Routing => b.fd # fd
      BY <1>1, <1>2, <1>3, <1>4, <2>1 DEF QueueOK, Behind
    <3>2. QED
      BY <1>6, <2>2, <3>1
  <2>5. QED
    BY <2>1, <2>3, <2>4 DEF BlockOK, Routing
<1>12. QueueOK'
  BY <1>3, <1>10, <1>11 DEF QueueOK
<1>13. QED
  BY <1>7, <1>8, <1>9, <1>10, <1>12 DEF TransportOK, RoutesOK, DeliveryOK

LEMMA FirstBlock ==
    ASSUME TypesOK, mainQueue # <<>>
    PROVE  \E b \in Block : /\ b = mainQueue[1] /\ b = Head(mainQueue) /\ b.fd \in Fds
                            /\ 1 \in 1..Len(mainQueue)
<1>1. mainQueue \in Seq(Block)
  BY DEF TypesOK
<1>2. 1 \in 1..Len(mainQueue) /\ Head(mainQueue) = mainQueue[1]
  BY <1>1
<1>3. mainQueue[1] \in Block
  BY <1>1, <1>2
<1>4. QED
  BY <1>2, <1>3, BlockParts

(* The block of a message or of a teardown presents nothing. *)
LEMMA PassesBehind ==
    ASSUME TypesOK, PassesOK, mainQueue # <<>>, mainQueue' = Tail(mainQueue),
           mainQueue[1].kind \notin Presenting, UNCHANGED <<buffer, passes>>
    PROVE  PassesOK'
<1>1. QueueFrom(1)
  BY HeadRemoved
<1>2. ASSUME NEW o \in Frames PROVE PassOK(o)'
  <2>1. PassOK(o) /\ ~Presents(mainQueue, 1, o)
    BY DEF PassesOK, Presents
  <2>2. QED
    BY <1>1, <2>1, PassFrom
<1>3. QED
  BY <1>2 DEF PassesOK

LEMMA MessageBlockKeeps ==
    ASSUME TransportOK, WindowBlock \/ DestroyBlock
    PROVE  TransportOK'
<1>1. TypesOK /\ PassesOK /\ QueueOK /\ WindowsOK
  BY DEF TransportOK, RoutesOK, DeliveryOK
<1>2. mainQueue # <<>> /\ mainQueue' = Tail(mainQueue)
      /\ UNCHANGED <<reader, clients, frames, buffer, passes, shown>>
  BY DEF WindowBlock, DestroyBlock, AtHead, hostVars
<1>3. PICK b \in Block : /\ b = mainQueue[1] /\ b = Head(mainQueue) /\ b.fd \in Fds
                         /\ 1 \in 1..Len(mainQueue)
  BY <1>1, <1>2, FirstBlock
<1>4. b.kind \in {"window", "destroy"}
  BY <1>3 DEF WindowBlock, DestroyBlock, AtHead
<1>5. b.hwnd \in Hwnds /\ b.kind \notin Presenting /\ reader[b.fd].st \notin {"closed", "torn"}
  <2>1. b.hwnd \in Hwnds /\ b.kind \notin Presenting
    BY <1>4, BlockParts DEF Presenting
  <2>2. reader[b.fd].st \notin {"closed", "torn"}
    BY <1>1, <1>3, <1>4 DEF QueueOK, BlockOK
  <2>3. QED
    BY <2>1, <2>2
<1>6. PassesOK'
  BY <1>1, <1>2, <1>3, <1>5, PassesBehind
<1>7. Retargets
  <2>1. CASE WindowBlock
    BY <1>1, <1>3, <1>5, <2>1, WindowSet DEF WindowBlock
  <2>2. CASE DestroyBlock
    <3>1. windows' = [windows EXCEPT ![b.hwnd] = IF windows[b.hwnd] = b.fd THEN None
                                                 ELSE windows[b.hwnd]]
      BY <1>3, <2>2 DEF DestroyBlock
    <3>2. QED
      BY <1>1, <1>5, <3>1, NamesAssumption DEF Retargets, TypesOK
  <2>3. QED
    BY <2>1, <2>2
<1>8. WindowsOK' /\ windows' \in [Hwnds -> Fds \cup {Detached, None}]
  BY <1>1, <1>2, <1>7, WindowsRetarget DEF Retargets
<1>9. ReaderBecomes(b.fd, reader[b.fd]) /\ reader[b.fd] \in Reader
  BY <1>1, <1>2, <1>3 DEF ReaderBecomes, TypesOK
<1>10. SameImages /\ passes' \in [Frames -> Nat]
  BY <1>1, <1>2 DEF SameImages, SameImage, TypesOK
<1>11. QED
  BY <1>2, <1>3, <1>6, <1>8, <1>9, <1>10, TailKeeps

LEMMA TeardownBlockKeeps ==
    ASSUME TransportOK, TeardownBlock
    PROVE  TransportOK'
<1>1. TypesOK /\ PassesOK /\ QueueOK /\ WindowsOK
  BY DEF TransportOK, RoutesOK, DeliveryOK
<1>2. mainQueue # <<>> /\ mainQueue' = Tail(mainQueue)
      /\ UNCHANGED <<clients, frames, buffer, passes, shown>>
  BY DEF TeardownBlock, AtHead, hostVars
<1>3. PICK b \in Block : /\ b = mainQueue[1] /\ b = Head(mainQueue) /\ b.fd \in Fds
                         /\ 1 \in 1..Len(mainQueue)
  BY <1>1, <1>2, FirstBlock
<1>4. PICK fd \in Fds : fd = b.fd
  BY <1>3
<1>5. b.kind = "teardown" /\ Goto(fd, "torn")
      /\ windows' = [h \in Hwnds |-> IF windows[h] = fd THEN Detached ELSE windows[h]]
  BY <1>3, <1>4 DEF TeardownBlock, AtHead
<1>6. PICK y \in Reader : ReaderBecomes(fd, y) /\ y.st = "torn"
  <2>1. "torn" \in ReaderState
    BY DEF ReaderState
  <2>2. QED
    BY <1>1, <1>5, <2>1, ReaderGoto
<1>7. PassesOK'
  BY <1>1, <1>2, <1>3, <1>5, PassesBehind DEF Presenting
<1>8. WindowsOK' /\ windows' \in [Hwnds -> Fds \cup {Detached, None}]
  BY <1>1, <1>5, <1>6, NamesAssumption DEF WindowsOK, ReaderBecomes, TypesOK
<1>9. SameImages /\ passes' \in [Frames -> Nat]
  BY <1>1, <1>2 DEF SameImages, SameImage, TypesOK
<1>10. QED
  BY <1>2, <1>3, <1>4, <1>5, <1>6, <1>7, <1>8, <1>9, TailKeeps

(* The pass whose block is the first ends, and begins again on the snapshot queue when
   the contents have changed. *)
LEMMA PassEnds ==
    ASSUME TypesOK, NEW o \in Frames, PassOK(o), mainQueue # <<>>, mainQueue' = Tail(mainQueue),
           Presents(mainQueue, 1, o),
           \/ passes'[o] = passes[o] + 1 /\ buffer'[o].scheduled
           \/ passes'[o] = passes[o] /\ ~buffer'[o].scheduled
    PROVE  PassOK(o)'
<1>1. QueueFrom(1) /\ 1 \in 1..Len(mainQueue)
  BY HeadRemoved
<1>2. \A i \in 1..Len(mainQueue') : /\ i + 1 \in 1..Len(mainQueue)
                                    /\ Presents(mainQueue', i, o) <=> Presents(mainQueue, i + 1, o)
  BY <1>1, QueuePresents
<1>3. \A i \in 1..Len(mainQueue') : i + 1 # 1
  BY HeadRemoved
<1>4. \A i \in 1..Len(mainQueue') : ~Presents(mainQueue', i, o)
  BY <1>1, <1>2, <1>3 DEF PassOK
<1>5. passes[o] = 0
  BY <1>1 DEF PassOK
<1>6. passes'[o] \in {0, 1} /\ (passes'[o] = 1 <=> buffer'[o].scheduled)
  BY <1>5
<1>7. QED
  BY <1>4, <1>6 DEF PassOK

LEMMA PresentEndsKeeps ==
    ASSUME TransportOK, PresentEnds
    PROVE  TransportOK'
<1>1. TypesOK /\ PassesOK /\ QueueOK /\ WindowsOK
  BY DEF TransportOK, RoutesOK, DeliveryOK
<1>2. mainQueue # <<>> /\ mainQueue' = Tail(mainQueue)
      /\ UNCHANGED <<reader, clients, frames, windows, shown>>
  BY DEF PresentEnds, AtHead
<1>3. PICK b \in Block : /\ b = mainQueue[1] /\ b = Head(mainQueue) /\ b.fd \in Fds
                         /\ 1 \in 1..Len(mainQueue)
  BY <1>1, <1>2, FirstBlock
<1>4. b.kind \in Presenting
  BY <1>3 DEF PresentEnds, AtHead, Presenting
<1>5. PICK o \in Frames : o = b.frame
  BY <1>4, BlockParts
<1>6. PICK v \in BOOLEAN : v = (buffer[o].live /\ buffer[o].gen # b.gen)
  OBVIOUS
<1>7. FlagBecomes(o, v) /\ passes' = [passes EXCEPT ![o] = IF v THEN passes[o] + 1 ELSE passes[o]]
  BY <1>3, <1>5, <1>6 DEF PresentEnds, FlagBecomes
<1>8. /\ buffer' \in [Frames -> Buffer] /\ buffer'[o].scheduled = v
      /\ \A n \in Frames : SameImage(buffer[n], buffer'[n])
      /\ \A n \in Frames : n # o => buffer'[n] = buffer[n]
  BY <1>1, <1>7, FlagSet
<1>9. /\ passes' \in [Frames -> Nat] /\ passes'[o] = IF v THEN passes[o] + 1 ELSE passes[o]
      /\ \A n \in Frames : n # o => passes'[n] = passes[n]
  BY <1>1, <1>7 DEF TypesOK
<1>10. QueueFrom(1)
  BY <1>1, <1>2, HeadRemoved
<1>11. ASSUME NEW n \in Frames PROVE PassOK(n)'
  <2>1. PassOK(n)
    BY <1>1 DEF PassesOK
  <2>2. CASE n = o
    <3>1. Presents(mainQueue, 1, o)
      BY <1>3, <1>4, <1>5 DEF Presents
    <3>2. \/ passes'[o] = passes[o] + 1 /\ buffer'[o].scheduled
          \/ passes'[o] = passes[o] /\ ~buffer'[o].scheduled
      <4>1. CASE v
        BY <1>8, <1>9, <4>1
      <4>2. CASE ~v
        BY <1>8, <1>9, <4>2
      <4>3. QED
        BY <4>1, <4>2
    <3>3. QED
      BY <1>1, <1>2, <2>1, <2>2, <3>1, <3>2, PassEnds
  <2>3. CASE n # o
    <3>1. ~Presents(mainQueue, 1, n)
      BY <1>3, <1>5, <2>3 DEF Presents
    <3>2. passes'[n] = passes[n] /\ buffer'[n].scheduled = buffer[n].scheduled
      BY <1>8, <1>9, <2>3
    <3>3. QED
      BY <1>1, <1>10, <2>1, <3>1, <3>2, PassFrom
  <2>4. QED
    BY <2>2, <2>3
<1>12. PassesOK'
  BY <1>11 DEF PassesOK
<1>13. WindowsOK' /\ windows' \in [Hwnds -> Fds \cup {Detached, None}]
  BY <1>1, <1>2 DEF WindowsOK, TypesOK
<1>14. ReaderBecomes(b.fd, reader[b.fd]) /\ reader[b.fd] \in Reader
  BY <1>1, <1>2, <1>3 DEF ReaderBecomes, TypesOK
<1>15. SameImages
  BY <1>2, <1>8 DEF SameImages
<1>16. QED
  BY <1>2, <1>3, <1>9, <1>12, <1>13, <1>14, <1>15, TailKeeps

-----------------------------------------------------------------------------
(* Nothing but the windows changes, or nothing at all. *)
LEMMA WindowsOnlyKeep ==
    ASSUME TransportOK, UNCHANGED vars \/ \E h \in Hwnds : GraceEnds(h)
    PROVE  TransportOK'
<1>1. /\ TypesOK /\ ReadersOK /\ FramesOK /\ OwnersOK /\ ClientsOK /\ WindowsOK /\ QueueOK
      /\ PassesOK /\ SnapshotsOK /\ DestroyedOK /\ DestroySeparatesFrames
  BY DEF TransportOK, RoutesOK, DeliveryOK
<1>2. UNCHANGED <<reader, clients, frames, buffer, passes, mainQueue, shown>>
  BY DEF vars, hostVars, GraceEnds
<1>3. Retargets
  <2>1. CASE UNCHANGED vars
    BY <1>1, <2>1 DEF vars, Retargets, TypesOK
  <2>2. ASSUME NEW h \in Hwnds, GraceEnds(h) PROVE Retargets
    BY <1>1, <2>2, WindowSet, NamesAssumption DEF GraceEnds
  <2>3. QED
    BY <2>1, <2>2
<1>4. WindowsOK'
  BY <1>1, <1>2, <1>3, WindowsRetarget
<1>5. TypesOK'
  BY <1>1, <1>2, <1>3 DEF TypesOK, Retargets
<1>6. ReadersOK' /\ FramesOK' /\ OwnersOK' /\ ClientsOK' /\ QueueOK'
  BY <1>1, <1>2 DEF ReadersOK, FramesOK, OwnersOK, ClientsOK, QueueOK, BlockOK, Behind
<1>7. PassesOK' /\ SnapshotsOK' /\ DestroyedOK' /\ DestroySeparatesFrames'
  BY <1>1, <1>2 DEF PassesOK, PassOK, Presents, SnapshotsOK, SnapshotOK, DestroyedOK,
                    DestroySeparatesFrames
<1>8. QED
  BY <1>4, <1>5, <1>6, <1>7 DEF TransportOK, RoutesOK, DeliveryOK

LEMMA TransportInit ==
    ASSUME Init
    PROVE  TransportOK
<1>1. ClosedReader \in Reader /\ ClosedReader.st = "closed"
  BY DEF ClosedReader, Reader, ReaderState
<1>2. Invalidated \in Buffer /\ ~Invalidated.live /\ ~Invalidated.scheduled
  BY DEF Invalidated, Buffer
<1>3. mainQueue \in Seq(Block) /\ Len(mainQueue) = 0 /\ 1..0 = {}
  BY DEF Init
<1>4. \A fd \in Fds : reader[fd].st = "closed"
  BY <1>1 DEF Init
<1>5. \A o \in Frames : ~buffer[o].live /\ ~buffer[o].scheduled /\ passes[o] = 0
  BY <1>2 DEF Init
<1>6. TypesOK
  BY <1>1, <1>2, <1>3, BoundsAssumption DEF Init, TypesOK
<1>7. ReadersOK /\ ClientsOK /\ DestroyedOK
  BY <1>4 DEF ReadersOK, ClientsOK, DestroyedOK, Init
<1>8. FramesOK /\ OwnersOK
  BY <1>5 DEF FramesOK, OwnersOK, Init
<1>9. WindowsOK
  BY NamesAssumption DEF WindowsOK, Init
<1>10. QueueOK /\ SnapshotsOK /\ DestroySeparatesFrames
  BY <1>3 DEF QueueOK, Behind, SnapshotsOK, DestroySeparatesFrames
<1>11. PassesOK
  BY <1>3, <1>5 DEF PassesOK, PassOK
<1>12. QED
  BY <1>6, <1>7, <1>8, <1>9, <1>10, <1>11 DEF TransportOK, RoutesOK, DeliveryOK

LEMMA TransportStep ==
    ASSUME TransportOK, [Next]_vars
    PROVE  TransportOK'
<1>1. CASE UNCHANGED vars
  BY <1>1, WindowsOnlyKeep
<1>2. ASSUME NEW fd \in Fds,
             \/ Accept(fd) \/ ReadMessage(fd) \/ ReadPayload(fd)
             \/ DestroyPosted(fd) \/ ScheduleFrame(fd) \/ Teardown(fd)
      PROVE  TransportOK'
  <2>1. CASE \/ Accept(fd) \/ ReadFails(fd) \/ (\E p \in Peers : Hello(fd, p))
             \/ (\E m \in Message : FrameHeader(fd, m)) \/ PayloadFails(fd) \/ CloseDescriptor(fd)
    BY <2>1, ReadingKeeps
  <2>2. CASE \/ (\E h \in Hwnds : WindowMessage(fd, h)) \/ DestroyPosted(fd) \/ RemoveClient(fd)
    BY <2>2, PostingKeeps
  <2>3. ASSUME NEW h \in Hwnds, DestroyMessage(fd, h) PROVE TransportOK'
    BY <2>3, DestroyKeeps
  <2>4. CASE ApplyFull(fd) \/ ApplyDirty(fd)
    BY <2>4, PayloadKeeps
  <2>5. CASE ScheduleFrame(fd)
    BY <2>5, ScheduleKeeps
  <2>6. CASE InvalidateClient(fd)
    BY <2>6, InvalidateClientKeeps
  <2>7. QED
    BY <1>2, <2>1, <2>2, <2>3, <2>4, <2>5, <2>6 DEF ReadMessage, ReadPayload, Teardown
<1>3. ASSUME NEW o \in Frames, DeliverFrame(o) PROVE TransportOK'
  BY <1>3, DeliverKeeps
<1>4. CASE MainStep
  BY <1>4, PresentingKeeps, PresentEndsKeeps, MessageBlockKeeps, TeardownBlockKeeps DEF MainStep
<1>5. CASE \E h \in Hwnds : GraceEnds(h)
  BY <1>5, WindowsOnlyKeep
<1>6. QED
  BY <1>1, <1>2, <1>3, <1>4, <1>5 DEF Next

(* The invariant behind the three theorems below: whom every route may still name, where
   each pass is, and what the presentations on the main queue say (90-516). *)
THEOREM TransportInvariant == Spec => []TransportOK
<1>1. Init => TransportOK
  BY TransportInit
<1>2. TransportOK /\ [Next]_vars => TransportOK'
  BY TransportStep
<1>3. QED
  BY <1>1, <1>2, PTL DEF Spec

LEMMA RoutesOpen ==
    ASSUME TransportOK
    PROVE  RoutesNameOpenDescriptors
<1> SUFFICES ASSUME NEW fd \in Fds, reader[fd].st = "closed"
             PROVE  /\ fd \notin clients
                    /\ \A o \in Frames : buffer[o].live => buffer[o].fd # fd
                    /\ \A h \in Hwnds : windows[h] # fd
                    /\ \A i \in 1..Len(mainQueue) :
                          mainQueue[i].kind \in {"window", "destroy", "teardown"} =>
                              mainQueue[i].fd # fd
  BY DEF RoutesNameOpenDescriptors
<1>1. OwnersOK /\ ClientsOK /\ WindowsOK /\ QueueOK
  BY DEF TransportOK, RoutesOK
<1>2. fd \notin clients
  BY <1>1 DEF ClientsOK
<1>3. \A o \in Frames : buffer[o].live => buffer[o].fd # fd
  BY <1>1 DEF OwnersOK
<1>4. \A h \in Hwnds : windows[h] # fd
  BY <1>1 DEF WindowsOK
<1>5. \A i \in 1..Len(mainQueue) :
         mainQueue[i].kind \in {"window", "destroy", "teardown"} => mainQueue[i].fd # fd
  BY <1>1 DEF QueueOK, BlockOK
<1>6. QED
  BY <1>2, <1>3, <1>4, <1>5

(* A number that the kernel may hand out again is named by no client entry, framebuffer,
   window or block of the main queue, for any number of connections and windows. *)
THEOREM ClosedNumbersAreForgotten == Spec => []RoutesNameOpenDescriptors
BY TransportInvariant, RoutesOpen, PTL

LEMMA PassesCounted ==
    ASSUME TransportOK
    PROVE  OnePassPerFrame
<1> SUFFICES ASSUME NEW o \in Frames
             PROVE  passes[o] + Cardinality({i \in 1..Len(mainQueue) :
                                   /\ mainQueue[i].kind \in {"present", "show", "presented"}
                                   /\ mainQueue[i].frame = o})
                    = IF buffer[o].scheduled THEN 1 ELSE 0
  BY DEF OnePassPerFrame
<1>1. PICK S : S = {i \in 1..Len(mainQueue) :
                       /\ mainQueue[i].kind \in {"present", "show", "presented"}
                       /\ mainQueue[i].frame = o}
  OBVIOUS
<1>2. \A i : i \in S <=> i \in 1..Len(mainQueue) /\ Presents(mainQueue, i, o)
  BY <1>1 DEF Presents, Presenting
<1>3. PassOK(o)
  BY DEF TransportOK, DeliveryOK, PassesOK
<1>4. CASE S = {}
  <2>1. Cardinality(S) = 0
    BY <1>4, FS_EmptySet
  <2>2. /\ passes[o] \in {0, 1} /\ (buffer[o].scheduled <=> passes[o] = 1)
    BY <1>2, <1>3, <1>4 DEF PassOK
  <2>3. QED
    BY <1>1, <2>1, <2>2
<1>5. CASE S # {}
  <2>1. PICK k \in S : TRUE
    BY <1>5
  <2>2. S = {k}
    BY <1>2, <1>3, <2>1 DEF PassOK
  <2>3. Cardinality(S) = 1
    BY <2>2, FS_Singleton
  <2>4. passes[o] = 0 /\ buffer[o].scheduled
    BY <1>2, <1>3, <2>1 DEF PassOK
  <2>5. QED
    BY <1>1, <2>3, <2>4
<1>6. QED
  BY <1>4, <1>5

(* A scheduled framebuffer has one pass, on one of the two queues, and an unscheduled one
   has none: packets are merged, never copied at the producer's rate. *)
THEOREM OnePassAtATime == Spec => []OnePassPerFrame
BY TransportInvariant, PassesCounted, PTL

(* A DESTROY overtakes no presentation of current contents of its window. *)
THEOREM DestroyTakesNothingCurrent == Spec => []DestroySeparatesFrames
<1>1. TransportOK => DestroySeparatesFrames
  BY DEF TransportOK, DeliveryOK
<1>2. QED
  BY <1>1, TransportInvariant, PTL

-----------------------------------------------------------------------------
(* Budgets: the reservations of the readers, and the bytes of the framebuffers. *)
Busy == {"payload", "schedule"}
Reservations == [fd \in Fds |-> Reserved(fd)]
Retained == [h \in Hwnds |-> Bytes(h)]

ReservedOK == pending = SumFunctionOnSet(Reservations, Fds) /\ pending <= MaxInFlight
RetainedOK == /\ SumFunctionOnSet(Retained, Hwnds) <= MaxRetained
              /\ Cardinality(Tracked) <= MaxWindows
BudgetsOK == ReservedOK /\ RetainedOK

LEMMA BudgetsAre == BudgetsOK <=> ByteBudgetsHold
<1>1. SumFunction([fd \in Fds |-> Reserved(fd)]) = SumFunctionOnSet(Reservations, Fds)
  <2>1. DOMAIN Reservations = Fds
    BY DEF Reservations
  <2>2. SumFunction(Reservations) = SumFunctionOnSet(Reservations, DOMAIN Reservations)
    BY DEF SumFunction
  <2>3. QED
    BY <2>1, <2>2 DEF Reservations
<1>2. RetainedBytes(Hwnds) = SumFunctionOnSet(Retained, Hwnds)
  BY DEF RetainedBytes, Retained
<1>3. QED
  BY <1>1, <1>2 DEF BudgetsOK, ReservedOK, RetainedOK, ByteBudgetsHold

(* Both are numbers of bytes. *)
ReservingOK == \A fd \in Fds : Reservations[fd] \in Nat /\ Reservations[fd] = Reserved(fd)
RetainingOK == \A h \in Hwnds : Retained[h] \in Nat /\ Retained[h] = Bytes(h)

LEMMA Reserving ==
    ASSUME TransportOK
    PROVE  ReservingOK
<1>1. ASSUME NEW fd \in Fds PROVE Reserved(fd) \in Nat
  <2>1. reader[fd].st \in Busy => reader[fd].msg \in Message
    BY DEF TransportOK, ReadersOK, Busy
  <2>2. reader[fd].st \in Busy => reader[fd].msg.size \in Nat
    BY <2>1, SizesAssumption DEF Message
  <2>3. QED
    BY <2>2 DEF Reserved, Busy
<1>2. QED
  BY <1>1 DEF Reservations, ReservingOK

LEMMA Retaining ==
    ASSUME TransportOK
    PROVE  RetainingOK
<1>1. ASSUME NEW h \in Hwnds PROVE Bytes(h) \in Nat
  <2>1. CASE frames[h] = None
    BY <2>1 DEF Bytes
  <2>2. CASE frames[h] # None
    <3>1. frames[h] \in Frames /\ buffer[frames[h]] \in Buffer
      BY <2>2 DEF TransportOK, TypesOK
    <3>2. buffer[frames[h]].live
      BY <2>2 DEF TransportOK, RoutesOK, FramesOK
    <3>3. buffer[frames[h]].size \in Nat
      BY <3>1, <3>2, BufferParts, SizesAssumption
    <3>4. QED
      BY <2>2, <3>3 DEF Bytes
  <2>3. QED
    BY <2>1, <2>2
<1>2. QED
  BY <1>1 DEF Retained, RetainingOK

(* One reader moves, and the counter with its reservation. *)
LEMMA ReservedMoves ==
    ASSUME TransportOK, TransportOK', ReservedOK, NEW fd \in Fds,
           \A f \in Fds : f # fd => reader'[f] = reader[f],
           NEW a, a = Reserved(fd), NEW b, b = Reserved(fd)',
           pending' = pending - a + b, b <= a \/ b <= MaxInFlight - pending
    PROVE  ReservedOK'
<1>1. PICK r, s : r = Reservations /\ s = Reservations'
  OBVIOUS
<1>2. \A f \in Fds : r[f] \in Nat /\ r[f] = Reserved(f)
  BY <1>1, Reserving DEF ReservingOK
<1>3. \A f \in Fds : s[f] \in Nat /\ s[f] = Reserved(f)'
  <2>1. ReservingOK'
    BY Reserving, PTL
  <2>2. QED
    BY <1>1, <2>1 DEF ReservingOK
<1>4. \A f \in Fds \ {fd} : r[f] = s[f]
  BY <1>2, <1>3 DEF Reserved
<1>5. SumFunctionOnSet(s, Fds) = SumFunctionOnSet(r, Fds) - r[fd] + s[fd]
  BY <1>2, <1>3, <1>4, SumChange, FiniteAssumption
<1>6. r[fd] = a /\ s[fd] = b /\ a \in Nat /\ b \in Nat
  BY <1>2, <1>3
<1>7. SumFunctionOnSet(r, Fds) \in Nat
  BY <1>2, SumType, FiniteAssumption
<1>8. pending = SumFunctionOnSet(r, Fds) /\ pending <= MaxInFlight /\ MaxInFlight \in Nat
  BY <1>1, BoundsAssumption DEF ReservedOK
<1>9. pending' = SumFunctionOnSet(s, Fds)
  BY <1>5, <1>6, <1>7, <1>8
<1>10. a <= pending
  BY <1>2, <1>6, <1>8, SumBounds, FiniteAssumption
<1>11. pending' <= MaxInFlight
  BY <1>6, <1>7, <1>8, <1>10
<1>12. QED
  BY <1>1, <1>9, <1>11 DEF ReservedOK

LEMMA ReservedStays ==
    ASSUME TransportOK, TransportOK', ReservedOK, UNCHANGED pending,
           \A f \in Fds : Reserved(f)' = Reserved(f)
    PROVE  ReservedOK'
<1>1. Reservations' = Reservations
  BY DEF Reservations
<1>2. QED
  BY <1>1 DEF ReservedOK

(* Steps of a reader that had reserved nothing and reserves nothing. *)
LEMMA IdleStep ==
    ASSUME TransportOK, TransportOK', ReservedOK, NEW fd \in Fds, UNCHANGED pending,
           \A f \in Fds : f # fd => reader'[f] = reader[f],
           reader[fd].st \notin Busy, reader'[fd].st \notin Busy
    PROVE  ReservedOK'
<1>1. \A f \in Fds : Reserved(f)' = Reserved(f)
  BY DEF Reserved, Busy
<1>2. QED
  BY <1>1, ReservedStays

(* Steps that give a reservation back. *)
LEMMA GivenBack ==
    ASSUME TransportOK, TransportOK', ReservedOK, NEW fd \in Fds, reader[fd].st \in Busy,
           pending' = pending - reader[fd].msg.size, NEW st \in ReaderState \ Busy, Finish(fd, st)
    PROVE  ReservedOK'
<1>1. PICK y \in Reader : ReaderBecomes(fd, y) /\ y.st = st
  BY ReaderFinish DEF TransportOK
<1>2. \A f \in Fds : f # fd => reader'[f] = reader[f]
  BY <1>1 DEF ReaderBecomes
<1>3. reader'[fd].st \notin Busy
  BY <1>1 DEF ReaderBecomes
<1>4. PICK a, b : a = Reserved(fd) /\ b = Reserved(fd)'
  OBVIOUS
<1>5. a = reader[fd].msg.size /\ b = 0
  BY <1>3, <1>4 DEF Reserved, Busy
<1>6. a \in Nat
  BY <1>4, Reserving DEF ReservingOK
<1>7. pending \in Nat
  BY FiniteAssumption, SumType, Reserving DEF ReservedOK, ReservingOK
<1>8. pending' = pending - a + b /\ b <= a
  BY <1>5, <1>6, <1>7
<1>9. QED
  BY <1>2, <1>4, <1>8, ReservedMoves

LEMMA ReaderSteps ==
    ASSUME TransportOK, TransportOK', ReservedOK, NEW fd \in Fds,
           \/ Accept(fd) \/ ReadFails(fd) \/ (\E p \in Peers : Hello(fd, p))
           \/ (\E h \in Hwnds : WindowMessage(fd, h) \/ DestroyMessage(fd, h))
           \/ DestroyPosted(fd) \/ Teardown(fd)
    PROVE  ReservedOK'
<1>1. UNCHANGED pending
  BY DEF Accept, ReadFails, Hello, WindowMessage, DestroyMessage, DestroyPosted, Teardown,
         InvalidateClient, RemoveClient, CloseDescriptor
<1>2. reader[fd].st \notin Busy
  BY DEF Accept, ReadFails, Hello, WindowMessage, DestroyMessage, DestroyPosted, Teardown,
         InvalidateClient, RemoveClient, CloseDescriptor, Busy
<1>3. reader \in [Fds -> Reader]
  BY DEF TransportOK, TypesOK
<1>4. reader'[fd].st \notin Busy /\ \A f \in Fds : f # fd => reader'[f] = reader[f]
  <2>1. CASE Accept(fd)
    BY <1>3, <2>1 DEF Accept, Busy, NewReader, ClosedReader
  <2>2. CASE ReadFails(fd)
    BY <1>3, <2>2 DEF ReadFails, Goto, Busy, Reader
  <2>3. ASSUME NEW p \in Peers, Hello(fd, p)
        PROVE  reader'[fd].st \notin Busy /\ \A f \in Fds : f # fd => reader'[f] = reader[f]
    BY <1>3, <2>3 DEF Hello, Busy, Reader
  <2>4. ASSUME NEW h \in Hwnds, WindowMessage(fd, h)
        PROVE  reader'[fd].st \notin Busy /\ \A f \in Fds : f # fd => reader'[f] = reader[f]
    BY <1>2, <2>4 DEF WindowMessage
  <2>5. ASSUME NEW h \in Hwnds, DestroyMessage(fd, h)
        PROVE  reader'[fd].st \notin Busy /\ \A f \in Fds : f # fd => reader'[f] = reader[f]
    <3>1. StAndMsg(fd, "destroy", h) /\ "destroy" \in ReaderState
      BY <2>5 DEF DestroyMessage, StAndMsg, ReaderState
    <3>2. PICK y \in Reader : ReaderBecomes(fd, y) /\ y.st = "destroy"
      BY <3>1, ReaderStAndMsg DEF TransportOK
    <3>3. QED
      BY <3>2 DEF ReaderBecomes, Busy
  <2>6. CASE DestroyPosted(fd)
    <3>1. Finish(fd, "reading") /\ "reading" \in ReaderState
      BY <2>6 DEF DestroyPosted, ReaderState
    <3>2. PICK y \in Reader : ReaderBecomes(fd, y) /\ y.st = "reading"
      BY <3>1, ReaderFinish DEF TransportOK
    <3>3. QED
      BY <3>2 DEF ReaderBecomes, Busy
  <2>7. CASE InvalidateClient(fd) \/ RemoveClient(fd)
    BY <1>3, <2>7 DEF InvalidateClient, RemoveClient, Goto, Busy, Reader
  <2>8. CASE CloseDescriptor(fd)
    BY <1>3, <2>8 DEF CloseDescriptor, Busy, ClosedReader
  <2>9. QED
    BY <2>1, <2>2, <2>3, <2>4, <2>5, <2>6, <2>7, <2>8 DEF Teardown
<1>5. QED
  BY <1>1, <1>2, <1>4, IdleStep

LEMMA HeaderReserves ==
    ASSUME TransportOK, TransportOK', ReservedOK, NEW fd \in Fds, NEW m \in Message,
           FrameHeader(fd, m)
    PROVE  ReservedOK'
<1>1. reader[fd].st \notin Busy /\ reader \in [Fds -> Reader]
  BY DEF FrameHeader, Busy, TransportOK, TypesOK
<1>2. CASE m.size <= MaxInFlight - pending
  <2>1. StAndMsg(fd, "payload", m) /\ "payload" \in ReaderState /\ pending' = pending + m.size
    <3>1. m.size \in Nat /\ pending \in Nat /\ MaxInFlight \in Nat
      BY SizesAssumption, BoundsAssumption, FiniteAssumption, SumType, Reserving
         DEF Message, ReservedOK, ReservingOK
    <3>2. QED
      BY <1>2, <3>1 DEF FrameHeader, StAndMsg, ReaderState
  <2>2. PICK y \in Reader : ReaderBecomes(fd, y) /\ y.st = "payload" /\ y.msg = m
    BY <2>1, ReaderStAndMsg DEF TransportOK
  <2>3. \A f \in Fds : f # fd => reader'[f] = reader[f]
    BY <2>2 DEF ReaderBecomes
  <2>4. PICK a, b : a = Reserved(fd) /\ b = Reserved(fd)'
    OBVIOUS
  <2>5. a = 0 /\ b = m.size
    BY <1>1, <2>2, <2>4 DEF Reserved, Busy, ReaderBecomes
  <2>6. pending \in Nat /\ b \in Nat
    BY <2>5, SizesAssumption, FiniteAssumption, SumType, Reserving
       DEF ReservedOK, ReservingOK, Message
  <2>7. pending' = pending - a + b /\ b <= MaxInFlight - pending
    BY <1>2, <2>1, <2>5, <2>6
  <2>8. QED
    BY <2>3, <2>4, <2>7, ReservedMoves
<1>3. CASE ~(m.size <= MaxInFlight - pending)
  <2>1. Goto(fd, "broken") /\ UNCHANGED pending
    BY <1>3 DEF FrameHeader
  <2>2. reader'[fd].st \notin Busy /\ \A f \in Fds : f # fd => reader'[f] = reader[f]
    BY <1>1, <2>1 DEF Goto, Busy, Reader
  <2>3. QED
    BY <1>1, <2>1, <2>2, IdleStep
<1>4. QED
  BY <1>2, <1>3

LEMMA PayloadReserves ==
    ASSUME TransportOK, TransportOK', ReservedOK, NEW fd \in Fds,
           ReadPayload(fd) \/ ScheduleFrame(fd)
    PROVE  ReservedOK'
<1>1. reader[fd].st \in Busy
  BY DEF ReadPayload, PayloadFails, ApplyFull, ApplyDirty, ScheduleFrame, Busy
<1>2. {"broken", "reading"} \subseteq ReaderState \ Busy
  BY DEF ReaderState, Busy
<1>3. \/ /\ pending' = pending - reader[fd].msg.size
         /\ Finish(fd, "broken") \/ Finish(fd, "reading")
      \/ /\ UNCHANGED pending
         /\ \E o \in Frames : StAndFrame(fd, "schedule", o)
  <2>1. CASE PayloadFails(fd) \/ ScheduleFrame(fd)
    BY <2>1 DEF PayloadFails, ScheduleFrame
  <2>2. CASE ApplyFull(fd)
    BY <2>2, Zenon DEF ApplyFull, StAndFrame
  <2>3. CASE ApplyDirty(fd)
    <3>1. PICK m : m = reader[fd].msg
      OBVIOUS
    <3>2. m \in Message
      BY <1>1, <3>1 DEF TransportOK, ReadersOK, Busy
    <3>3. CASE Accepts(fd, m)
      <4>1. frames[m.hwnd] \in Frames
        BY <3>2, <3>3 DEF Accepts, TransportOK, TypesOK, Message
      <4>2. QED
        BY <2>3, <3>1, <3>3, <4>1 DEF ApplyDirty, StAndFrame
    <3>4. CASE ~Accepts(fd, m)
      BY <2>3, <3>1, <3>4 DEF ApplyDirty
    <3>5. QED
      BY <3>3, <3>4
  <2>4. QED
    BY <2>1, <2>2, <2>3 DEF ReadPayload
<1>4. CASE /\ pending' = pending - reader[fd].msg.size
           /\ Finish(fd, "broken") \/ Finish(fd, "reading")
  BY <1>1, <1>2, <1>4, GivenBack
<1>5. ASSUME UNCHANGED pending, NEW o \in Frames, StAndFrame(fd, "schedule", o)
      PROVE  ReservedOK'
  <2>1. "schedule" \in ReaderState
    BY DEF ReaderState
  <2>2. PICK y \in Reader : ReaderBecomes(fd, y) /\ y.st = "schedule" /\ y.msg = reader[fd].msg
    BY <1>5, <2>1, ReaderStAndFrame DEF TransportOK
  <2>3. \A f \in Fds : Reserved(f)' = Reserved(f)
    BY <1>1, <2>2 DEF Reserved, ReaderBecomes, Busy
  <2>4. QED
    BY <1>5, <2>3, ReservedStays
<1>6. QED
  BY <1>3, <1>4, <1>5

LEMMA QueueReserves ==
    ASSUME TransportOK, TransportOK', ReservedOK,
           \/ UNCHANGED vars \/ (\E o \in Frames : DeliverFrame(o)) \/ MainStep
           \/ (\E h \in Hwnds : GraceEnds(h))
    PROVE  ReservedOK'
<1>1. UNCHANGED pending
  BY DEF vars, DeliverFrame, GraceEnds, MainStep, PresentChecks, PresentFrame, PresentEnds,
         WindowBlock, DestroyBlock, TeardownBlock
<1>2. CASE UNCHANGED reader
  BY <1>1, <1>2, ReservedStays DEF Reserved
<1>3. CASE TeardownBlock
  <2>1. TypesOK /\ QueueOK /\ mainQueue # <<>>
    BY <1>3 DEF TransportOK, RoutesOK, TeardownBlock, AtHead
  <2>2. PICK b \in Block : /\ b = mainQueue[1] /\ b = Head(mainQueue) /\ b.fd \in Fds
                           /\ 1 \in 1..Len(mainQueue)
    BY <2>1, FirstBlock
  <2>3. reader[b.fd].st = "waiting"
    BY <1>3, <2>1, <2>2 DEF TeardownBlock, AtHead, QueueOK, BlockOK
  <2>4. Goto(b.fd, "torn") /\ reader \in [Fds -> Reader]
    BY <1>3, <2>1, <2>2 DEF TeardownBlock, TypesOK
  <2>5. reader'[b.fd].st \notin Busy /\ \A f \in Fds : f # b.fd => reader'[f] = reader[f]
    BY <2>2, <2>4 DEF Goto, Busy, Reader
  <2>6. QED
    BY <1>1, <2>2, <2>3, <2>5, IdleStep DEF Busy
<1>4. QED
  BY <1>2, <1>3 DEF vars, DeliverFrame, GraceEnds, MainStep, PresentChecks, PresentFrame,
                    PresentEnds, WindowBlock, DestroyBlock

(* Framebuffers keep their sizes or are given up. *)
GivesUp ==
    \A h \in Hwnds :
        frames'[h] = None \/ (frames'[h] = frames[h] /\ buffer'[frames[h]].size = buffer[frames[h]].size)

LEMMA RetainedShrinks ==
    ASSUME TransportOK, TransportOK', RetainedOK, GivesUp
    PROVE  RetainedOK'
<1>1. PICK r, s : r = Retained /\ s = Retained'
  OBVIOUS
<1>2. \A h \in Hwnds : r[h] \in Nat /\ r[h] = Bytes(h)
  BY <1>1, Retaining DEF RetainingOK
<1>3. \A h \in Hwnds : s[h] \in Nat /\ s[h] = Bytes(h)'
  <2>1. RetainingOK'
    BY Retaining, PTL
  <2>2. QED
    BY <1>1, <2>1 DEF RetainingOK
<1>4. \A h \in Hwnds : Bytes(h)' = 0 \/ Bytes(h)' = Bytes(h)
  BY DEF Bytes, GivesUp
<1>5. \A h \in Hwnds : s[h] \in Nat /\ r[h] \in Nat /\ s[h] <= r[h]
  BY <1>2, <1>3, <1>4
<1>6. SumFunctionOnSet(s, Hwnds) <= SumFunctionOnSet(r, Hwnds)
  BY <1>5, SumMonotone, FiniteAssumption
<1>7. SumFunctionOnSet(s, Hwnds) \in Nat /\ SumFunctionOnSet(r, Hwnds) \in Nat
  BY <1>5, SumType, FiniteAssumption
<1>8. SumFunctionOnSet(s, Hwnds) <= MaxRetained
  BY <1>1, <1>6, <1>7, BoundsAssumption DEF RetainedOK
<1>9. Cardinality(Tracked') <= MaxWindows
  <2>1. Tracked' \subseteq Tracked /\ Tracked \subseteq Hwnds
    BY DEF Tracked, GivesUp
  <2>2. IsFiniteSet(Tracked)
    BY <2>1, FS_Subset, FiniteAssumption
  <2>3. /\ Cardinality(Tracked') <= Cardinality(Tracked) /\ Cardinality(Tracked) \in Nat
        /\ Cardinality(Tracked') \in Nat
    BY <2>1, <2>2, FS_Subset, FS_CardinalityType
  <2>4. QED
    BY <2>3, BoundsAssumption DEF RetainedOK
<1>10. QED
  BY <1>1, <1>8, <1>9 DEF RetainedOK

(* A new framebuffer within the budget. *)
LEMMA InstallFits ==
    ASSUME TransportOK, TransportOK', RetainedOK, NEW m \in Message, NEW o \in Frames,
           ~OverBudget(m), frames' = [frames EXCEPT ![m.hwnd] = o], buffer'[o].size = m.size,
           \A h \in Hwnds : h # m.hwnd /\ frames[h] # None =>
                               buffer'[frames[h]].size = buffer[frames[h]].size
    PROVE  RetainedOK'
<1>1. PICK w \in Hwnds, z \in Sizes : w = m.hwnd /\ z = m.size
  BY DEF Message
<1>2. z \in Nat
  BY SizesAssumption
<1>3. frames \in [Hwnds -> Frames \cup {None}] /\ o # None
  BY NamesAssumption DEF TransportOK, TypesOK
<1>4. frames'[w] = o /\ \A h \in Hwnds : h # w => frames'[h] = frames[h]
  BY <1>1, <1>3
<1>5. PICK r, s : r = Retained /\ s = Retained'
  OBVIOUS
<1>6. \A h \in Hwnds : r[h] \in Nat /\ r[h] = Bytes(h)
  BY <1>5, Retaining DEF RetainingOK
<1>7. \A h \in Hwnds : s[h] \in Nat /\ s[h] = Bytes(h)'
  <2>1. RetainingOK'
    BY Retaining, PTL
  <2>2. QED
    BY <1>5, <2>1 DEF RetainingOK
<1>8. s[w] = z
  BY <1>1, <1>3, <1>4, <1>7 DEF Bytes
<1>9. \A h \in Hwnds \ {w} : s[h] = r[h]
  BY <1>1, <1>4, <1>6, <1>7 DEF Bytes
<1>10. PICK rest : rest = Hwnds \ {w}
  OBVIOUS
<1>11. IsFiniteSet(rest) /\ IsFiniteSet(Hwnds)
  BY <1>10, FS_Subset, FiniteAssumption
<1>12. SumFunctionOnSet(s, Hwnds) = s[w] + SumFunctionOnSet(s, rest)
  BY <1>7, <1>10, <1>11, SumRemove
<1>13. SumFunctionOnSet(s, rest) = SumFunctionOnSet(r, rest)
  BY <1>9, <1>10, <1>11, SumSame
<1>14. SumFunctionOnSet(r, rest) \in Nat
  <2>1. \A h \in rest : r[h] \in Nat
    BY <1>6, <1>10
  <2>2. QED
    BY <1>11, <2>1, SumType
<1>15. ~(z > MaxRetained - SumFunctionOnSet(r, rest))
  BY <1>1, <1>5, <1>10 DEF OverBudget, RetainedBytes, Retained
<1>16. SumFunctionOnSet(s, Hwnds) <= MaxRetained
  BY <1>2, <1>8, <1>12, <1>13, <1>14, <1>15, BoundsAssumption
<1>17. Tracked \subseteq Hwnds /\ Tracked' = Tracked \cup {w} /\ (w \in Tracked <=> frames[w] # None)
  BY <1>3, <1>4 DEF Tracked
<1>18. IsFiniteSet(Tracked) /\ Cardinality(Tracked) \in Nat
  BY <1>17, FS_Subset, FS_CardinalityType, FiniteAssumption
<1>19. Cardinality(Tracked') <= MaxWindows
  <2>1. CASE w \in Tracked
    BY <1>17, <2>1 DEF RetainedOK
  <2>2. CASE w \notin Tracked
    <3>1. Cardinality(Tracked') = Cardinality(Tracked) + 1
      BY <1>17, <1>18, <2>2, FS_AddElement
    <3>2. ~(Cardinality(Tracked) >= MaxWindows)
      BY <1>1, <1>17, <2>2 DEF OverBudget
    <3>3. QED
      BY <1>18, <3>1, <3>2, BoundsAssumption
  <2>3. QED
    BY <2>1, <2>2
<1>20. QED
  BY <1>5, <1>16, <1>19 DEF RetainedOK

LEMMA ImagesGiveUp == ASSUME TransportOK, SameImages PROVE GivesUp
<1>1. ASSUME NEW h \in Hwnds, frames[h] # None
      PROVE  buffer'[frames[h]].size = buffer[frames[h]].size
  <2>1. frames[h] \in Frames /\ buffer[frames[h]].live
    BY <1>1 DEF TransportOK, TypesOK, RoutesOK, FramesOK
  <2>2. QED
    BY <2>1 DEF SameImages, SameImage
<1>2. QED
  BY <1>1 DEF GivesUp, SameImages

LEMMA InvalidationGivesUp ==
    ASSUME TransportOK, NEW S, S \subseteq Hwnds, Invalidates(S)
    PROVE  GivesUp
<1>1. ASSUME NEW h \in Hwnds, frames'[h] # None
      PROVE  frames'[h] = frames[h] /\ buffer'[frames[h]].size = buffer[frames[h]].size
  <2>1. FramesOK' /\ \A o \in Frames : buffer'[o].live => buffer'[o] = buffer[o]
    BY Invalidation DEF TransportOK, RoutesOK
  <2>2. frames'[h] \in Frames /\ buffer'[frames'[h]].live
    BY <1>1, <2>1 DEF Invalidates, FramesOK
  <2>3. frames'[h] = frames[h]
    BY <1>1 DEF Invalidates
  <2>4. QED
    BY <2>1, <2>2, <2>3
<1>2. QED
  BY <1>1 DEF GivesUp

(* A payload applied to the framebuffer that is there keeps its size. *)
LEMMA ContentsGiveUp ==
    ASSUME TransportOK, NEW fd \in Fds, NEW m \in Message, NEW o \in Frames,
           Taken(fd, m, o) \/ Patched(fd, m, o)
    PROVE  GivesUp
<1>1. o # None /\ buffer \in [Frames -> Buffer] /\ frames[m.hwnd] = o /\ m.hwnd \in Hwnds
  BY NamesAssumption DEF TransportOK, TypesOK, Taken, Patched, Message
<1>2. PICK x \in Buffer : x = buffer[o]
  BY <1>1
<1>3. x.live /\ UNCHANGED frames
  BY <1>1, <1>2 DEF TransportOK, RoutesOK, FramesOK, Taken, TakeOver, Patched
<1>4. x \in [live : {TRUE}, scheduled : BOOLEAN, hwnd : Hwnds, size : Sizes,
             fd : Fds, pid : Peers \cup {0}, gen : 1..MaxGeneration]
  BY <1>3 DEF Buffer
<1>5. \E z : buffer' = [buffer EXCEPT ![o] = z] /\ z.size = x.size
  <2>1. CASE Taken(fd, m, o)
    <3>1. PICK g, p : g = buffer[o].gen + 1 /\ p = reader[fd].pid
      OBVIOUS
    <3>2. PICK z : z = Owned(x, fd, p, g)
      OBVIOUS
    <3>3. Assigned(o, fd, p, g)
      <4>1. [buffer EXCEPT ![o].fd = fd, ![o].pid = p, ![o].gen = @ + 1]
            = [buffer EXCEPT ![o].fd = fd, ![o].pid = p, ![o].gen = g]
        BY <1>1, <3>1 DEF Buffer
      <4>2. QED
        BY <2>1, <3>1, <4>1 DEF Taken, TakeOver, Assigned
    <3>4. o \in DOMAIN buffer /\ buffer = [n \in DOMAIN buffer |-> buffer[n]]
      BY <1>1
    <3>5. buffer' = [buffer EXCEPT ![o] = z]
      BY <1>2, <3>2, <3>3, <3>4, AssignedOnce
    <3>6. z.size = x.size
      BY <1>4, <3>2 DEF Owned
    <3>7. QED
      BY <3>5, <3>6
  <2>2. CASE Patched(fd, m, o)
    <3>1. PICK z : z = [x EXCEPT !.gen = buffer[o].gen + 1]
      OBVIOUS
    <3>2. z.size = x.size
      BY <1>4, <3>1
    <3>3. buffer' = [buffer EXCEPT ![o] = z]
      BY <1>1, <1>2, <2>2, <3>1 DEF Patched, Advanced
    <3>4. QED
      BY <3>2, <3>3
  <2>3. QED
    BY <2>1, <2>2
<1>6. PICK z : buffer' = [buffer EXCEPT ![o] = z] /\ z.size = x.size
  BY <1>5
<1>7. \A n \in Frames : buffer'[n].size = buffer[n].size
  BY <1>1, <1>2, <1>6
<1>8. \A h \in Hwnds : frames[h] # None => frames[h] \in Frames
  BY DEF TransportOK, TypesOK
<1>9. QED
  BY <1>3, <1>7, <1>8 DEF GivesUp

(* An object nobody refers to is installed: every other window keeps its own. *)
LEMMA ReplacedFits ==
    ASSUME TransportOK, TransportOK', RetainedOK, NEW fd \in Fds, NEW m \in Message,
           NEW o \in Frames, Replaced(fd, m, o), ~OverBudget(m)
    PROVE  RetainedOK'
<1>1. PICK w \in Hwnds, z \in Sizes : w = m.hwnd /\ z = m.size
  BY DEF Message
<1>2. PICK y : y = [live |-> TRUE, scheduled |-> FALSE, hwnd |-> w, size |-> z, fd |-> fd,
                    pid |-> reader[fd].pid, gen |-> 1]
  OBVIOUS
<1>3. PICK base : base = [b \in Frames |-> IF b = frames[w] THEN Invalidate(buffer[b]) ELSE buffer[b]]
  OBVIOUS
<1>4. buffer' = [base EXCEPT ![o] = y] /\ frames' = [frames EXCEPT ![m.hwnd] = o]
  BY <1>1, <1>2, <1>3 DEF Replaced, Install
<1>5. buffer'[o] = y /\ \A n \in Frames : n # o => buffer'[n] = base[n]
  BY <1>3, <1>4
<1>6. buffer'[o].size = m.size
  BY <1>1, <1>2, <1>5
<1>7. ASSUME NEW h \in Hwnds, h # m.hwnd, frames[h] # None
      PROVE  buffer'[frames[h]].size = buffer[frames[h]].size
  <2>1. PICK n \in Frames : n = frames[h]
    BY <1>7 DEF TransportOK, TypesOK
  <2>2. buffer[n].live /\ buffer[n].hwnd = h
    BY <1>7, <2>1 DEF TransportOK, RoutesOK, FramesOK
  <2>3. ~buffer[o].live
    BY DEF Replaced, FreeFrames, Invalidated
  <2>4. n # o
    BY <2>2, <2>3
  <2>5. n # frames[w]
    BY <1>1, <1>7, <2>1, <2>2 DEF TransportOK, RoutesOK, FramesOK
  <2>6. QED
    BY <1>3, <1>5, <2>1, <2>4, <2>5
<1>8. QED
  BY <1>4, <1>6, <1>7, InstallFits

LEMMA PayloadRetains ==
    ASSUME TransportOK, TransportOK', RetainedOK, NEW fd \in Fds, ApplyFull(fd) \/ ApplyDirty(fd)
    PROVE  RetainedOK'
<1>1. reader[fd].st = "payload"
  BY DEF ApplyFull, ApplyDirty
<1>2. PICK m \in Message : m = reader[fd].msg
  BY <1>1 DEF TransportOK, ReadersOK
<1>3. CASE UNCHANGED <<frames, buffer>>
  BY <1>3, RetainedShrinks DEF GivesUp
<1>4. CASE ApplyFull(fd)
  <2>1. \/ UNCHANGED <<frames, buffer>>
        \/ ~OverBudget(m) /\ \E o \in Frames : Taken(fd, m, o) \/ Replaced(fd, m, o)
    BY <1>2, <1>4 DEF ApplyFull, Taken, Replaced, hostVars
  <2>2. QED
    BY <1>3, <2>1, ContentsGiveUp, ReplacedFits, RetainedShrinks
<1>5. CASE ApplyDirty(fd)
  <2>1. CASE Accepts(fd, m)
    <3>1. PICK o \in Frames : o = frames[m.hwnd]
      BY <2>1 DEF Accepts, TransportOK, TypesOK, Message
    <3>2. buffer[o].gen < MaxGeneration /\ buffer' = [buffer EXCEPT ![o].gen = @ + 1]
          /\ UNCHANGED <<frames, shown>>
      BY <1>2, <1>5, <2>1, <3>1 DEF ApplyDirty
    <3>3. Advanced(o, buffer[o].gen + 1)
      BY <3>2 DEF Advanced
    <3>4. Patched(fd, m, o)
      BY <2>1, <3>1, <3>2, <3>3 DEF Patched
    <3>5. QED
      BY <3>4, ContentsGiveUp, RetainedShrinks
  <2>2. CASE ~Accepts(fd, m)
    BY <1>2, <1>3, <1>5, <2>2 DEF ApplyDirty
  <2>3. QED
    BY <2>1, <2>2
<1>6. QED
  BY <1>4, <1>5

LEMMA HostRetains ==
    ASSUME TransportOK, TransportOK', RetainedOK,
           \/ (\E fd \in Fds, h \in Hwnds : DestroyMessage(fd, h))
           \/ (\E fd \in Fds : InvalidateClient(fd) \/ ScheduleFrame(fd))
           \/ (\E o \in Frames : DeliverFrame(o)) \/ PresentEnds
    PROVE  RetainedOK'
<1>1. TypesOK /\ FramesOK /\ ReadersOK /\ buffer \in [Frames -> Buffer]
  BY DEF TransportOK, RoutesOK, TypesOK
<1>2. ASSUME NEW o \in Frames, NEW v \in BOOLEAN, FlagBecomes(o, v), UNCHANGED frames
      PROVE  RetainedOK'
  <2>1. SameImages
    BY <1>1, <1>2, FlagSet DEF SameImages
  <2>2. QED
    BY <2>1, ImagesGiveUp, RetainedShrinks
<1>3. ASSUME NEW fd \in Fds, NEW h \in Hwnds, DestroyMessage(fd, h) PROVE RetainedOK'
  BY <1>1, <1>3, InvalidatesHWND, InvalidationGivesUp, RetainedShrinks DEF DestroyMessage
<1>4. ASSUME NEW fd \in Fds, InvalidateClient(fd) PROVE RetainedOK'
  <2>1. PICK S : S = {h \in Hwnds : frames[h] # None /\ buffer[frames[h]].fd = fd}
    OBVIOUS
  <2>2. /\ buffer' = [o \in Frames |-> IF \E h \in S : frames[h] = o
                                       THEN Invalidate(buffer[o]) ELSE buffer[o]]
        /\ frames' = [h \in Hwnds |-> IF h \in S THEN None ELSE frames[h]]
    BY <1>4, <2>1 DEF InvalidateClient
  <2>3. \A o \in Frames : /\ buffer[o] \in Buffer /\ Invalidate(buffer[o]) \in Buffer
                          /\ ~Invalidate(buffer[o]).live
                          /\ Invalidate(buffer[o]).scheduled = buffer[o].scheduled
    BY <1>1, InvalidateParts
  <2>4. frames' \in [Hwnds -> Frames \cup {None}] /\ buffer' \in [Frames -> Buffer]
    BY DEF TransportOK, TypesOK
  <2>5. Invalidates(S)
    BY <2>2, <2>3, <2>4 DEF Invalidates
  <2>6. S \subseteq Hwnds
    BY <2>1
  <2>7. QED
    BY <2>5, <2>6, InvalidationGivesUp, RetainedShrinks
<1>5. ASSUME NEW fd \in Fds, ScheduleFrame(fd) PROVE RetainedOK'
  <2>1. PICK o \in Frames : o = reader[fd].frame
    BY <1>1, <1>5 DEF ScheduleFrame, ReadersOK
  <2>2. PICK v \in BOOLEAN : v = ((buffer[o].live /\ ~buffer[o].scheduled) \/ buffer[o].scheduled)
    OBVIOUS
  <2>3. FlagBecomes(o, v) /\ UNCHANGED frames
    BY <1>5, <2>1, <2>2 DEF ScheduleFrame, FlagBecomes
  <2>4. QED
    BY <1>2, <2>3
<1>6. ASSUME NEW o \in Frames, DeliverFrame(o) PROVE RetainedOK'
  <2>1. UNCHANGED frames /\ (FlagBecomes(o, FALSE) \/ UNCHANGED buffer)
    BY <1>6 DEF DeliverFrame, FlagBecomes
  <2>2. CASE UNCHANGED buffer
    BY <2>1, <2>2, RetainedShrinks DEF GivesUp
  <2>3. QED
    BY <1>2, <2>1, <2>2
<1>7. CASE PresentEnds
  <2>1. mainQueue # <<>> /\ UNCHANGED frames
    BY <1>7 DEF PresentEnds, AtHead
  <2>2. PICK b \in Block : b = mainQueue[1] /\ b = Head(mainQueue)
    BY <1>1, <2>1, FirstBlock
  <2>3. PICK o \in Frames : o = b.frame
    BY <1>7, <2>2, BlockParts DEF PresentEnds, AtHead, Presenting
  <2>4. PICK v \in BOOLEAN : v = (buffer[o].live /\ buffer[o].gen # b.gen)
    OBVIOUS
  <2>5. FlagBecomes(o, v)
    BY <1>7, <2>2, <2>3, <2>4 DEF PresentEnds, FlagBecomes
  <2>6. QED
    BY <1>2, <2>1, <2>5
<1>8. QED
  BY <1>3, <1>4, <1>5, <1>6, <1>7

LEMMA BudgetsInit == ASSUME Init PROVE BudgetsOK
<1>1. \A fd \in Fds : Reservations[fd] = 0
  BY DEF Init, Reservations, Reserved, ClosedReader
<1>2. \A h \in Hwnds : Retained[h] = 0
  BY DEF Init, Retained, Bytes
<1>3. SumFunctionOnSet(Reservations, Fds) = 0 /\ SumFunctionOnSet(Retained, Hwnds) = 0
  BY <1>1, <1>2, SumOfZeros, FiniteAssumption
<1>4. Cardinality(Tracked) = 0
  <2>1. Tracked = {}
    BY DEF Init, Tracked
  <2>2. QED
    BY <2>1, FS_EmptySet
<1>5. QED
  BY <1>3, <1>4, BoundsAssumption DEF BudgetsOK, ReservedOK, RetainedOK, Init

LEMMA BudgetsStep ==
    ASSUME TransportOK, TransportOK', BudgetsOK, [Next]_vars
    PROVE  BudgetsOK'
<1>1. ReservedOK /\ RetainedOK
  BY DEF BudgetsOK
<1>2. ReservedOK'
  <2>1. CASE Next
    BY <1>1, <2>1, ReaderSteps, HeaderReserves, PayloadReserves, QueueReserves
       DEF Next, ReadMessage
  <2>2. QED
    BY <1>1, <2>1, QueueReserves
<1>3. RetainedOK'
  <2>1. CASE UNCHANGED <<frames, buffer>>
    BY <1>1, <2>1, RetainedShrinks DEF GivesUp
  <2>2. ASSUME NEW fd \in Fds,
               \/ Accept(fd) \/ ReadMessage(fd) \/ ReadPayload(fd)
               \/ DestroyPosted(fd) \/ ScheduleFrame(fd) \/ Teardown(fd)
        PROVE  RetainedOK'
    <3>1. CASE ScheduleFrame(fd) \/ InvalidateClient(fd) \/ \E h \in Hwnds : DestroyMessage(fd, h)
      BY <1>1, <3>1, HostRetains
    <3>2. CASE ApplyFull(fd) \/ ApplyDirty(fd)
      BY <1>1, <3>2, PayloadRetains
    <3>3. CASE \/ Accept(fd) \/ ReadFails(fd) \/ (\E p \in Peers : Hello(fd, p))
               \/ (\E h \in Hwnds : WindowMessage(fd, h)) \/ (\E m \in Message : FrameHeader(fd, m))
               \/ PayloadFails(fd) \/ DestroyPosted(fd) \/ RemoveClient(fd) \/ CloseDescriptor(fd)
      <4>1. UNCHANGED hostVars
        BY <3>3 DEF Accept, ReadFails, Hello, WindowMessage, FrameHeader, PayloadFails,
                    DestroyPosted, RemoveClient, CloseDescriptor
      <4>2. QED
        BY <2>1, <4>1 DEF hostVars
    <3>4. QED
      BY <2>2, <3>1, <3>2, <3>3 DEF ReadMessage, ReadPayload, Teardown
  <2>3. CASE PresentEnds \/ \E o \in Frames : DeliverFrame(o)
    BY <1>1, <2>3, HostRetains
  <2>4. CASE \/ UNCHANGED vars \/ PresentChecks \/ PresentFrame \/ WindowBlock \/ DestroyBlock
             \/ TeardownBlock \/ \E h \in Hwnds : GraceEnds(h)
    <3>1. UNCHANGED hostVars
      BY <2>4 DEF vars, PresentChecks, PresentFrame, WindowBlock, DestroyBlock, TeardownBlock,
                  GraceEnds
    <3>2. QED
      BY <2>1, <3>1 DEF hostVars
  <2>5. QED
    BY <2>2, <2>3, <2>4 DEF Next, MainStep
<1>4. QED
  BY <1>2, <1>3 DEF BudgetsOK

LEMMA BudgetsInvariant == Spec => []BudgetsOK
<1>1. Init => BudgetsOK
  BY BudgetsInit
<1>2. TransportOK /\ TransportOK' /\ BudgetsOK /\ [Next]_vars => BudgetsOK'
  BY BudgetsStep
<1>3. QED
  BY <1>1, <1>2, TransportInvariant, PTL DEF Spec

(* The reserved bytes are those of the payloads that readers are busy with, given back on
   every path, and never exceed the limit; what all connections together make the host
   keep stays within the retained limits (90-111, 241-249, 438-453). *)
THEOREM BudgetsHold == Spec => []ByteBudgetsHold
BY BudgetsInvariant, BudgetsAre, PTL

(* Type correctness; that no release takes the unsigned counter of reserved bytes below
   zero (JuiceReleaseDisplayPayload) needs the sum of the reservations. *)
THEOREM TypesHold == Spec => []TypeOK
<1>1. TransportOK /\ BudgetsOK => TypeOK
  <2> SUFFICES ASSUME TransportOK, BudgetsOK PROVE TypeOK
    OBVIOUS
  <2>1. SumFunctionOnSet(Reservations, Fds) \in Nat
    BY FiniteAssumption, SumType, Reserving DEF ReservingOK
  <2>2. pending \in 0..MaxInFlight
    BY <2>1, BoundsAssumption DEF BudgetsOK, ReservedOK
  <2>3. QED
    BY <2>2 DEF TransportOK, TypesOK, TypeOK
<1>2. QED
  BY <1>1, TransportInvariant, BudgetsInvariant, PTL
=============================================================================
