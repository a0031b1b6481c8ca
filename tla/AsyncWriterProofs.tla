------------------------- MODULE AsyncWriterProofs --------------------------
(***************************************************************************)
(* Proofs about AsyncWriter for every number of connections, writers and   *)
(* packets and for all limits.                                             *)
(***************************************************************************)
EXTENDS AsyncWriter, Sums, SequenceTheorems, TLAPS

Block == Packet \cup {CloseBlock}

WriterRecord == [conn : Conns \cup {None}, open : BOOLEAN, cancelled : BOOLEAN,
                 queue : Seq(Block), bytes : Int, packets : Int,
                 pc : WorkerState, sent : Int, late : BOOLEAN]

(* A queue never has a packet behind a close block; only a cancelled writer
   has a close block; a worker is inside a block only while it has a packet
   there; a closed writer has no packet left. *)
QueueOK(x) ==
    /\ \A i, j \in 1..Len(x.queue) :
          i < j /\ x.queue[j].kind = "packet" => x.queue[i].kind = "packet"
    /\ \A i \in 1..Len(x.queue) : x.queue[i].kind = "close" => x.cancelled
    /\ x.pc # "idle" => x.queue # <<>> /\ x.queue[1].kind = "packet"
    /\ \A i \in 1..Len(x.queue) : x.queue[i].kind = "packet" => x.open

(* The inductive invariant.  A registered writer that may still accept a
   packet has its descriptor. *)
WritersOK ==
    /\ writer \in [Writers -> WriterRecord]
    /\ conn \in [Fds -> Conns \cup {None}]
    /\ registry \in [Fds -> Writers \cup {None}]
    /\ accepted \in [Conns -> Seq(Lengths)]
    /\ \A fd \in clients : fd \in Fds /\ conn[fd] # None
    /\ \A w \in Writers : QueueOK(writer[w])
    /\ \A fd \in Fds : registry[fd] # None =>
          writer[registry[fd]].open \/ writer[registry[fd]].cancelled

-----------------------------------------------------------------------------
(* Lengths are integers. *)
LEMMA LengthsAreIntegers == \A n \in Lengths : n \in Int
BY LengthsAssumption

(* Blocks are packets or close blocks, and never both. *)
LEMMA BlockKinds ==
    /\ \A b \in Block : b.kind \in {"packet", "close"}
    /\ CloseBlock \in Block /\ CloseBlock.kind = "close"
    /\ \A b \in Block : b.kind = "packet" => b.length \in Lengths
BY DEF Block, Packet, CloseBlock

(* Cancelling a writer keeps its record and its queue in order. *)
LEMMA CancelKeeps ==
    ASSUME NEW x \in WriterRecord, QueueOK(x)
    PROVE  /\ Cancel(x) \in WriterRecord /\ QueueOK(Cancel(x))
           /\ Cancel(x).cancelled
<1> DEFINE q == Append(x.queue, CloseBlock)
<1>1. /\ x.queue \in Seq(Block) /\ q \in Seq(Block)
      /\ Len(q) = Len(x.queue) + 1 /\ Len(x.queue) \in Nat
      /\ \A i \in 1..Len(x.queue) : q[i] = x.queue[i]
      /\ q[Len(q)] = CloseBlock
  BY BlockKinds, AppendProperties DEF WriterRecord
<1>2. /\ Cancel(x) = [x EXCEPT !.cancelled = TRUE, !.queue = q]
      /\ Cancel(x).queue = q /\ Cancel(x).cancelled = TRUE
      /\ Cancel(x).open = x.open /\ Cancel(x).pc = x.pc
  BY DEF Cancel, WriterRecord
<1>3. Cancel(x) \in WriterRecord
  BY <1>1, <1>2 DEF WriterRecord
<1> HIDE DEF q
<1>4. q[Len(q)].kind = "close" /\ q # <<>>
  BY <1>1, BlockKinds
<1>5. x.pc # "idle" => q[1].kind = "packet"
  BY <1>1 DEF QueueOK
<1>6. QueueOK(Cancel(x))
  <2>1. PICK y : y = Cancel(x)
    OBVIOUS
  <2>2. y.queue = q /\ y.cancelled = TRUE /\ y.open = x.open /\ y.pc = x.pc
    BY <1>2, <2>1
  <2>3. \A i \in 1..Len(q) : q[i].kind = "packet" =>
           i \in 1..Len(x.queue) /\ x.queue[i].kind = "packet"
    BY <1>1, <1>4
  <2>4. \A i \in 1..Len(q) : q[i].kind = "packet" => x.open
    BY <2>3 DEF QueueOK
  <2>5. ASSUME NEW i \in 1..Len(q), NEW j \in 1..Len(q), i < j, q[j].kind = "packet"
        PROVE  q[i].kind = "packet"
    <3>1. j \in 1..Len(x.queue) /\ x.queue[j].kind = "packet"
      BY <2>3, <2>5
    <3>2. i \in 1..Len(x.queue)
      BY <1>1, <2>5, <3>1
    <3>3. x.queue[i].kind = "packet"
      BY <2>5, <3>1, <3>2 DEF QueueOK
    <3> QED BY <1>1, <3>2, <3>3
  <2>6. QueueOK(y)
    BY ONLY <1>4, <1>5, <2>2, <2>4, <2>5 DEF QueueOK
  <2> QED BY <2>1, <2>6
<1>7. QED
  BY <1>2, <1>3, <1>6

(* Queueing a packet on an open, uncancelled writer. *)
LEMMA QueuedKeeps ==
    ASSUME NEW x \in WriterRecord, QueueOK(x), x.open, ~x.cancelled, NEW p \in Packet
    PROVE  Queued(x, p) \in WriterRecord /\ QueueOK(Queued(x, p)) /\ Queued(x, p).open
<1> DEFINE q == Append(x.queue, p)
<1>0. p \in Block /\ p.kind = "packet" /\ p.length \in Int
  <2>1. p.kind = "packet" /\ p.length \in Lengths
    BY DEF Packet
  <2>2. p \in Block
    BY DEF Block
  <2>3. QED
    BY <2>1, <2>2, LengthsAreIntegers
<1>1. /\ x.queue \in Seq(Block) /\ q \in Seq(Block)
      /\ Len(q) = Len(x.queue) + 1 /\ Len(x.queue) \in Nat
      /\ \A i \in 1..Len(x.queue) : q[i] = x.queue[i] /\ x.queue[i] \in Block
      /\ q[Len(q)] = p
  BY <1>0, AppendProperties, ElementOfSeq DEF WriterRecord
<1>2. /\ Queued(x, p) = [x EXCEPT !.queue = q, !.packets = x.packets + 1,
                                  !.bytes = x.bytes + p.length]
      /\ Queued(x, p).queue = q /\ Queued(x, p).cancelled = x.cancelled
      /\ Queued(x, p).open = x.open /\ Queued(x, p).pc = x.pc
  BY DEF Queued, WriterRecord
<1>3. Queued(x, p) \in WriterRecord
  <2>1. x.packets + 1 \in Int /\ x.bytes + p.length \in Int
    BY <1>0 DEF WriterRecord
  <2> HIDE DEF q
  <2>2. QED
    BY <1>1, <1>2, <2>1 DEF WriterRecord
<1>4. \A i \in 1..Len(x.queue) : x.queue[i].kind = "packet"
  BY <1>1, BlockKinds DEF QueueOK
<1> HIDE DEF q
<1>5. \A i \in 1..Len(q) : q[i].kind = "packet"
  BY <1>0, <1>1, <1>4
<1>6. x.pc # "idle" => q # <<>> /\ q[1].kind = "packet"
  BY <1>1, <1>5
<1>7. QED
  BY <1>1, <1>2, <1>3, <1>5, <1>6 DEF QueueOK

(* Removing the first block of a queue. *)
LEMMA TailKeeps ==
    ASSUME NEW x \in WriterRecord, QueueOK(x), x.queue # <<>>
    PROVE  /\ Tail(x.queue) \in Seq(Block) /\ Head(x.queue) = x.queue[1]
           /\ Len(Tail(x.queue)) = Len(x.queue) - 1 /\ Len(x.queue) \in Nat \ {0}
           /\ \A i \in 1..Len(Tail(x.queue)) : Tail(x.queue)[i] = x.queue[i + 1]
BY HeadTailProperties DEF WriterRecord

(* What is left of a writer's record when a packet's block has ended. *)
LEMMA DequeuedRecord ==
    ASSUME NEW x \in WriterRecord, Tail(x.queue) \in Seq(Block), NEW n \in Int
    PROVE  LET y == Dequeued(x, n) IN
           /\ y \in WriterRecord /\ y.queue = Tail(x.queue) /\ y.open = x.open
           /\ y.cancelled = x.cancelled /\ y.pc = "idle"
           /\ y.conn = x.conn /\ y.sent = 0
           /\ y.bytes = x.bytes - n /\ y.packets = x.packets - 1
<1> DEFINE i == Idle(x)
           q == Tail(x.queue)
<1>1. /\ i \in WriterRecord /\ i.queue = x.queue /\ i.open = x.open
      /\ i.cancelled = x.cancelled /\ i.pc = "idle"
      /\ i.conn = x.conn /\ i.sent = 0 /\ i.bytes = x.bytes /\ i.packets = x.packets
  <2>1. "idle" \in WorkerState /\ 0 \in Int
    BY DEF WorkerState
  <2>2. i \in WriterRecord
    BY <2>1 DEF Idle, WriterRecord
  <2>3. QED
    BY <2>2 DEF Idle, WriterRecord
<1>2. Dequeued(x, n) = [i EXCEPT !.queue = q, !.packets = i.packets - 1,
                                 !.bytes = i.bytes - n]
  BY <1>1 DEF Dequeued, WriterRecord
<1>3. q \in Seq(Block) /\ i.packets - 1 \in Int /\ i.bytes - n \in Int
  BY <1>1 DEF WriterRecord
<1> HIDE DEF i, q
<1>4. Dequeued(x, n) \in WriterRecord
  BY <1>1, <1>2, <1>3 DEF WriterRecord
<1>5. /\ Dequeued(x, n).queue = q /\ Dequeued(x, n).open = i.open
      /\ Dequeued(x, n).cancelled = i.cancelled /\ Dequeued(x, n).pc = i.pc
      /\ Dequeued(x, n).conn = i.conn /\ Dequeued(x, n).sent = i.sent
      /\ Dequeued(x, n).bytes = i.bytes - n /\ Dequeued(x, n).packets = i.packets - 1
  BY <1>1, <1>2 DEF WriterRecord
<1>6. QED
  BY <1>1, <1>4, <1>5 DEF q

-----------------------------------------------------------------------------
(* A step that replaces one writer record by a good one. *)
LEMMA SetKeeps ==
    ASSUME WritersOK, NEW w \in Writers, NEW y \in WriterRecord, QueueOK(y), Set(w, y),
           UNCHANGED <<hostVars, accepted>>,
           Registered(w) => y.open \/ y.cancelled
    PROVE  WritersOK'
<1>1. writer' \in [Writers -> WriterRecord] /\ \A v \in Writers : QueueOK(writer'[v])
  BY DEF Set, WritersOK
<1>2. ASSUME NEW fd \in Fds, registry[fd] # None
      PROVE  writer'[registry[fd]].open \/ writer'[registry[fd]].cancelled
  <2>1. registry[fd] \in Writers
    BY <1>2 DEF WritersOK
  <2>2. registry[fd] = w => y.open \/ y.cancelled
    BY <1>2 DEF Registered
  <2>3. QED
    BY <1>2, <2>1, <2>2 DEF Set, WritersOK
<1>3. QED
  BY <1>1, <1>2 DEF WritersOK, hostVars

(* A worker that moves inside its block. *)
LEMMA GotoKeeps ==
    ASSUME WritersOK, NEW w \in Writers, NEW pc \in WorkerState, NEW sent \in Int,
           NEW y, y = [writer[w] EXCEPT !.pc = pc, !.sent = sent],
           writer[w].queue # <<>>, writer[w].queue[1].kind = "packet",
           Set(w, y), UNCHANGED <<hostVars, accepted>>
    PROVE  WritersOK'
<1> DEFINE x == writer[w]
<1>1. x \in WriterRecord /\ QueueOK(x)
  BY DEF WritersOK
<1>2. Registered(w) => x.open \/ x.cancelled
  BY NoneAssumption DEF Registered, WritersOK
<1> HIDE DEF x
<1>3. y = [x EXCEPT !.pc = pc, !.sent = sent] /\ x.queue # <<>> /\ x.queue[1].kind = "packet"
  BY DEF x
<1>4. /\ y \in WriterRecord /\ y.queue = x.queue /\ y.open = x.open
      /\ y.cancelled = x.cancelled
  BY <1>1, <1>3 DEF WriterRecord
<1>5. QueueOK(y)
  BY <1>1, <1>3, <1>4 DEF QueueOK
<1>6. QED
  BY <1>2, <1>4, <1>5, SetKeeps

(* The first block of a non-empty queue, in the two ways the actions name it. *)
LEMMA FirstBlock ==
    ASSUME WritersOK, NEW w \in Writers, writer[w].queue # <<>>
    PROVE  /\ First(w) = writer[w].queue[1] /\ First(w) \in Block
           /\ writer[w] \in WriterRecord /\ QueueOK(writer[w])
           /\ writer[w].pc # "idle" => First(w).kind = "packet"
<1>1. writer[w] \in WriterRecord /\ QueueOK(writer[w])
  BY DEF WritersOK
<1>2. First(w) = writer[w].queue[1] /\ First(w) \in Block
  BY <1>1, HeadTailProperties, ElementOfSeq DEF First, WriterRecord
<1>3. QED
  BY <1>1, <1>2 DEF QueueOK

(* Every step of a worker keeps the invariant. *)
LEMMA WorkerKeeps ==
    ASSUME WritersOK, NEW w \in Writers,
           Worker(w) \/ SendBlocks(w) \/ DeadlinePasses(w) \/ Dealloc(w)
    PROVE  WritersOK'
<1> DEFINE x == writer[w]
<1>0. x \in WriterRecord /\ QueueOK(x) /\ (Registered(w) => x.open \/ x.cancelled)
  BY NoneAssumption DEF WritersOK, Registered
<1>1. ASSUME NEW pc \in WorkerState, Goto(w, pc), x.queue # <<>>,
             First(w).kind = "packet", UNCHANGED <<hostVars, accepted>>
      PROVE  WritersOK'
  <2> DEFINE y == [x EXCEPT !.pc = pc, !.sent = x.sent]
  <2>1. y = [x EXCEPT !.pc = pc] /\ x.sent \in Int
    BY <1>0 DEF WriterRecord
  <2>2. Set(w, y)
    BY <1>1, <2>1 DEF Goto, Set
  <2>3. QED
    BY <1>1, <2>1, <2>2, FirstBlock, GotoKeeps
<1>2. CASE BlockStarts(w)
  BY <1>1, <1>2, FirstBlock DEF BlockStarts, At, WorkerState
<1>3. CASE WriteChecks(w) \/ SendFails(w) \/ SendBlocks(w) \/ ShutDown(w)
  BY <1>1, <1>3, FirstBlock
     DEF WriteChecks, SendFails, SendBlocks, ShutDown, At, WorkerState
<1>4. CASE SendSome(w)
  <2>1. x.queue # <<>> /\ x.pc = "send" /\ UNCHANGED <<hostVars, accepted>>
    BY <1>4 DEF SendSome, At
  <2>2. First(w).kind = "packet" /\ First(w) = x.queue[1]
    BY <2>1, FirstBlock
  <2>3. PICK n \in 1..First(w).length - x.sent :
           Set(w, [x EXCEPT !.sent = x.sent + n,
                            !.pc = IF x.sent + n = First(w).length THEN "done" ELSE "check"])
    BY <1>4 DEF SendSome
  <2> DEFINE pc == IF x.sent + n = First(w).length THEN "done" ELSE "check"
             y == [x EXCEPT !.pc = pc, !.sent = x.sent + n]
  <2>4. y = [x EXCEPT !.sent = x.sent + n, !.pc = pc]
    BY <1>0 DEF WriterRecord
  <2>5. pc \in WorkerState /\ x.sent + n \in Int
    BY <1>0 DEF WorkerState, WriterRecord
  <2>6. QED
    BY <2>1, <2>2, <2>3, <2>4, <2>5, GotoKeeps
<1>5. CASE WriterFails(w)
  <2> DEFINE pc == IF x.cancelled THEN "done" ELSE "shutdown"
             y == [x EXCEPT !.cancelled = TRUE, !.pc = pc]
  <2>1. x.queue # <<>> /\ x.pc # "idle" /\ Set(w, y) /\ UNCHANGED <<hostVars, accepted>>
    BY <1>5 DEF WriterFails, At
  <2>2. y \in WriterRecord /\ y.queue = x.queue /\ y.open = x.open /\ y.cancelled
    BY <1>0 DEF WriterRecord, WorkerState
  <2>3. x.queue[1].kind = "packet"
    BY <2>1, FirstBlock
  <2>4. QueueOK(y)
    BY <1>0, <2>1, <2>2, <2>3 DEF QueueOK
  <2>5. QED
    BY <2>1, <2>2, <2>4, SetKeeps
<1>6. CASE DeadlinePasses(w)
  <2> DEFINE y == [x EXCEPT !.late = TRUE]
  <2>1. Set(w, y) /\ UNCHANGED <<hostVars, accepted>>
    BY <1>6 DEF DeadlinePasses, Set
  <2>2. /\ y \in WriterRecord /\ y.queue = x.queue /\ y.open = x.open
        /\ y.cancelled = x.cancelled /\ y.pc = x.pc
    BY <1>0 DEF WriterRecord
  <2>3. QueueOK(y)
    BY <1>0, <2>2 DEF QueueOK
  <2>4. QED
    BY <1>0, <2>1, <2>2, <2>3, SetKeeps
<1>7. CASE Release(w)
  <2> DEFINE y == Dequeued(x, First(w).length)
  <2>1. x.queue # <<>> /\ x.pc # "idle" /\ Set(w, y) /\ UNCHANGED <<hostVars, accepted>>
    BY <1>7 DEF Release, At
  <2>2. First(w).length \in Int
    <3>1. First(w).length \in Lengths
      BY <2>1, FirstBlock, BlockKinds
    <3>2. QED
      BY <3>1, LengthsAreIntegers
  <2>3. /\ y \in WriterRecord /\ y.queue = Tail(x.queue) /\ y.open = x.open
        /\ y.cancelled = x.cancelled /\ y.pc = "idle"
    <3>1. Tail(x.queue) \in Seq(Block)
      BY <1>0, <2>1, TailKeeps
    <3>2. QED
      BY <1>0, <2>2, <3>1, DequeuedRecord
  <2>4. QueueOK(y)
    BY <1>0, <2>1, <2>3, TailKeeps DEF QueueOK
  <2>5. QED
    BY <1>0, <2>1, <2>3, <2>4, SetKeeps
<1>8. CASE CloseRuns(w)
  <2> DEFINE y == [x EXCEPT !.open = FALSE, !.queue = Tail(x.queue)]
  <2>1. /\ x.queue # <<>> /\ x.pc = "idle" /\ First(w).kind = "close"
        /\ Set(w, y) /\ UNCHANGED <<hostVars, accepted>>
    BY <1>8 DEF CloseRuns, At
  <2>2. /\ y \in WriterRecord /\ y.queue = Tail(x.queue) /\ ~y.open
        /\ y.cancelled = x.cancelled /\ y.pc = "idle"
    BY <1>0, <2>1, TailKeeps DEF WriterRecord
  <2>3. x.queue[1].kind = "close" /\ Len(x.queue) \in Nat \ {0}
    BY <1>0, <2>1, FirstBlock, TailKeeps
  <2>4. x.cancelled /\ \A i \in 1..Len(x.queue) : x.queue[i].kind # "packet"
    BY <1>0, <2>3 DEF QueueOK
  <2>5. \A i \in 1..Len(y.queue) : y.queue[i].kind # "packet"
    BY <1>0, <2>1, <2>2, <2>4, TailKeeps
  <2>6. QueueOK(y)
    BY <1>0, <2>2, <2>4, <2>5 DEF QueueOK
  <2>7. QED
    BY <2>1, <2>2, <2>4, <2>6, SetKeeps
<1>9. CASE Dealloc(w)
  <2>1. FreeWriter \in WriterRecord /\ QueueOK(FreeWriter)
    BY DEF FreeWriter, WriterRecord, QueueOK, WorkerState
  <2>2. ~Registered(w) /\ Set(w, FreeWriter) /\ UNCHANGED <<hostVars, accepted>>
    BY <1>9 DEF Dealloc
  <2>3. QED
    BY <2>1, <2>2, SetKeeps
<1>10. QED
  BY <1>2, <1>3, <1>4, <1>5, <1>6, <1>7, <1>8, <1>9 DEF Worker

-----------------------------------------------------------------------------
(* Cancelling the writer of a number and forgetting it. *)
LEMMA UnregisterKeeps ==
    ASSUME WritersOK, NEW fd \in Fds, registry' = [registry EXCEPT ![fd] = None],
           IF registry[fd] = None THEN UNCHANGED writer
                                  ELSE Set(registry[fd], Cancel(writer[registry[fd]])),
           UNCHANGED <<conn, accepted>>, clients' \subseteq clients
    PROVE  WritersOK'
<1> USE NoneAssumption
<1>1. CASE registry[fd] = None
  BY <1>1 DEF WritersOK
<1>2. CASE registry[fd] # None
  <2> DEFINE w == registry[fd]
             y == Cancel(writer[w])
  <2>1. w \in Writers /\ writer[w] \in WriterRecord /\ QueueOK(writer[w])
    BY <1>2 DEF WritersOK
  <2>2. y \in WriterRecord /\ QueueOK(y) /\ y.cancelled
    BY <2>1, CancelKeeps
  <2>3. writer' = [writer EXCEPT ![w] = y]
    BY <1>2 DEF Set
  <2> HIDE DEF w, y
  <2>4. writer' \in [Writers -> WriterRecord] /\ \A v \in Writers : QueueOK(writer'[v])
    BY <2>1, <2>2, <2>3 DEF WritersOK
  <2>5. ASSUME NEW f \in Fds, registry'[f] # None
        PROVE  writer'[registry'[f]].open \/ writer'[registry'[f]].cancelled
    <3>1. registry'[f] = registry[f] /\ registry[f] \in Writers
      BY <2>5 DEF WritersOK
    <3>2. QED
      BY <2>1, <2>2, <2>3, <2>5, <3>1 DEF WritersOK
  <2>6. QED
    BY <2>4, <2>5 DEF WritersOK
<1>3. QED
  BY <1>1, <1>2

(* A packet is queued only on a writer that is open and not cancelled. *)
LEMMA EnqueueKeeps ==
    ASSUME WritersOK, NEW fd \in Fds, NEW w \in Writers, NEW n \in Lengths,
           Enqueue(fd, w, n)
    PROVE  WritersOK'
<1> USE NoneAssumption, BoundsAssumption
<1> DEFINE c == conn[fd]
           x == IF registry[fd] = w THEN writer[w] ELSE NewWriter(c)
           packet == [kind |-> "packet", number |-> Len(accepted[c]) + 1, length |-> n]
           y == Queued(x, packet)
<1>1. c \in Conns
  BY DEF Enqueue, WritersOK
<1>2. packet \in Packet
  <2>1. Len(accepted[c]) \in Nat /\ Len(accepted[c]) < MaxSends
    BY <1>1, LenProperties DEF Enqueue, WritersOK
  <2>2. Len(accepted[c]) + 1 \in 1..MaxSends
    BY <2>1
  <2>3. QED
    BY <2>2 DEF Packet
<1>3. NewWriter(c) \in WriterRecord /\ QueueOK(NewWriter(c)) /\ NewWriter(c).open
  <2>1. FreeWriter \in WriterRecord /\ FreeWriter.queue = <<>> /\ FreeWriter.pc = "idle"
    BY DEF FreeWriter, WriterRecord, WorkerState
  <2> HIDE DEF c
  <2>2. NewWriter(c) \in WriterRecord /\ NewWriter(c).open /\ NewWriter(c).pc = "idle"
        /\ NewWriter(c).queue = <<>>
    BY <1>1, <2>1 DEF NewWriter, WriterRecord
  <2>3. QED
    BY <2>2 DEF QueueOK
<1>4. x \in WriterRecord /\ QueueOK(x) /\ ~x.cancelled /\ x.open
  <2>1. ~x.cancelled
    BY DEF Enqueue
  <2>2. CASE registry[fd] = w
    BY <2>1, <2>2 DEF WritersOK
  <2>3. CASE registry[fd] # w
    BY <2>1, <2>3, <1>3
  <2>4. QED
    BY <2>2, <2>3, <2>1
<1>5. /\ writer' = [writer EXCEPT ![w] = y] /\ registry' = [registry EXCEPT ![fd] = w]
      /\ accepted' = [accepted EXCEPT ![c] = Append(accepted[c], n)]
      /\ UNCHANGED <<conn, clients>>
  BY DEF Enqueue, Set
<1> HIDE DEF x, packet
<1>6. y \in WriterRecord /\ QueueOK(y) /\ y.open
  BY <1>2, <1>4, QueuedKeeps
<1> HIDE DEF y, c
<1>7. accepted' \in [Conns -> Seq(Lengths)]
  BY <1>1, <1>5, AppendProperties DEF WritersOK
<1>8. writer' \in [Writers -> WriterRecord] /\ \A v \in Writers : QueueOK(writer'[v])
  BY <1>5, <1>6 DEF WritersOK
<1>9. ASSUME NEW f \in Fds, registry'[f] # None
      PROVE  writer'[registry'[f]].open \/ writer'[registry'[f]].cancelled
  <2>1. registry'[f] \in Writers /\ (registry'[f] = w \/ registry'[f] = registry[f])
    BY <1>5, <1>9 DEF WritersOK
  <2>2. CASE registry'[f] = w
    BY <1>5, <1>6, <2>2 DEF WritersOK
  <2>3. CASE registry'[f] # w
    BY <1>5, <1>9, <2>1, <2>3 DEF WritersOK
  <2>4. QED
    BY <2>2, <2>3
<1>10. QED
  BY <1>5, <1>7, <1>8, <1>9 DEF WritersOK

(* Every step keeps the invariant. *)
LEMMA WritersOKStep ==
    ASSUME WritersOK, [Next]_vars
    PROVE  WritersOK'
<1> USE NoneAssumption
<1>1. ASSUME NEW fd \in Fds, NEW c \in Conns, Accept(fd, c)
      PROVE  WritersOK'
  <2>1. conn' \in [Fds -> Conns \cup {None}]
    BY <1>1 DEF Accept, WritersOK
  <2>2. \A f \in clients' : f \in Fds /\ conn'[f] # None
    BY <1>1 DEF Accept, WritersOK
  <2>3. QED
    BY <1>1, <2>1, <2>2 DEF Accept, WritersOK
<1>2. ASSUME NEW fd \in Fds, NEW w \in Writers, NEW n \in Lengths, Enqueue(fd, w, n)
      PROVE  WritersOK'
  BY <1>2, EnqueueKeeps
<1>3. ASSUME NEW fd \in Fds, Reject(fd) \/ CancelDisplayWriter(fd)
      PROVE  WritersOK'
  BY <1>3, UnregisterKeeps DEF Reject, CancelDisplayWriter
<1>4. ASSUME NEW fd \in Fds, CloseNumber(fd)
      PROVE  WritersOK'
  BY <1>4 DEF CloseNumber, WritersOK
<1>5. ASSUME NEW c \in Conns, PeerCloses(c)
      PROVE  WritersOK'
  BY <1>5 DEF PeerCloses, WritersOK, hostVars
<1>6. ASSUME NEW w \in Writers,
             Worker(w) \/ SendBlocks(w) \/ DeadlinePasses(w) \/ Dealloc(w)
      PROVE  WritersOK'
  BY <1>6, WorkerKeeps
<1>7. CASE UNCHANGED vars
  BY <1>7 DEF vars, hostVars, WritersOK
<1>8. QED
  BY <1>1, <1>2, <1>3, <1>4, <1>5, <1>6, <1>7 DEF Next

(* No worker is inside a write after its descriptor was closed, for any number
   of writers and whatever is cancelled, refused or timed out. *)
THEOREM NoLateWrites == Spec => []NoWriteAfterClose
<1>1. Init => WritersOK
  <2>1. FreeWriter \in WriterRecord /\ QueueOK(FreeWriter)
    BY DEF FreeWriter, WriterRecord, QueueOK, WorkerState
  <2>2. QED
    BY <2>1 DEF Init, WritersOK
<1>2. WritersOK => NoWriteAfterClose
  <2> SUFFICES ASSUME WritersOK, NEW w \in Writers, writer[w].pc # "idle"
               PROVE  writer[w].open
    BY DEF NoWriteAfterClose
  <2>1. QueueOK(writer[w]) /\ writer[w].queue \in Seq(Block)
    BY DEF WritersOK, WriterRecord
  <2>2. writer[w].queue # <<>> /\ writer[w].queue[1].kind = "packet"
    BY <2>1 DEF QueueOK
  <2>3. 1 \in 1..Len(writer[w].queue)
    BY <2>1, <2>2, EmptySeq, LenProperties
  <2>4. QED
    BY <2>1, <2>2, <2>3 DEF QueueOK
<1>3. QED
  BY <1>1, <1>2, WritersOKStep, PTL DEF Spec

-----------------------------------------------------------------------------
(* The refinement of OrderedStreams.  The invariant says where every writer
   stands in the stream of its connection; like the operators of the model it
   is built from operators of a record and of two sequences: a, the lengths
   accepted for the connection, and s, what the connection carried. *)

(* The last packet carried is complete. *)
Full(a, s) == s = <<>> \/ s[Len(s)][2] = a[Len(s)]

(* A queued packet is one of those accepted for the connection; a writer that is
   not cancelled has the last ones of them queued, without a gap. *)
NumbersOK(x, a) ==
    \A i \in 1..Len(x.queue) : x.queue[i].kind = "packet" =>
        /\ x.queue[i].number \in 1..Len(a)
        /\ x.queue[i].length = a[x.queue[i].number]
        /\ ~x.cancelled => x.queue[i].number = Len(a) - Len(x.queue) + i

(* A writer between two blocks has the stream complete up to its queue; one that
   may send has the stream complete up to its packet, or ending in the part of it
   that was sent.  A cancelled writer may send only what it already checked for. *)
StandsOK(x, a, s) ==
    /\ x.pc = "idle" => x.sent = 0
    /\ ~x.cancelled /\ x.pc = "idle" => Len(s) = Len(a) - Len(x.queue) /\ Full(a, s)
    /\ (x.pc = "send" \/ (x.pc = "check" /\ ~x.cancelled)) =>
          LET k == x.queue[1].number IN
          \/ x.sent = 0 /\ Len(s) = k - 1 /\ Full(a, s)
          \/ x.sent \in 1..a[k] - 1 /\ Len(s) = k /\ s[k] = <<k, x.sent>>
    /\ x.pc = "done" /\ ~x.cancelled =>
          LET k == x.queue[1].number IN Len(s) = k /\ s[k] = <<k, a[k]>>

InStream(x, a, s) == NumbersOK(x, a) /\ StandsOK(x, a, s)

(* Who may speak for a connection: while it is up it has at most one writer, the
   registered one as long as its number can be sent to. *)
AttachedOK ==
    /\ \A f, g \in Fds : conn[f] = conn[g] /\ conn[f] # None => f = g
    /\ \A fd \in Fds : registry[fd] # None =>
          fd \in clients /\ writer[registry[fd]].conn = conn[fd]
    /\ \A w \in Writers : writer[w].queue # <<>> => writer[w].conn \in Conns
    /\ \A fd \in clients : conn[fd] \notin down =>
         /\ registry[fd] = None => accepted[conn[fd]] = <<>>
         /\ \A w \in Writers : writer[w].conn = conn[fd] => w = registry[fd]
    /\ \A v, w \in Writers :
         writer[v].conn = writer[w].conn /\ writer[v].conn \in Conns \ down => v = w

StreamsOK ==
    /\ wire \in [Conns -> Seq(Nat \X Nat)] /\ down \subseteq Conns
    /\ \A c \in Conns : Len(wire[c]) <= Len(accepted[c])
    /\ \A w \in Writers : writer[w].conn \in Conns \ down =>
          InStream(writer[w], accepted[writer[w].conn], wire[writer[w].conn])

(* A step that replaces the record of one writer by one of the same connection. *)
LEMMA SetStreams ==
    ASSUME WritersOK, AttachedOK, StreamsOK, NEW w \in Writers, NEW y, Set(w, y),
           y.conn = writer[w].conn, UNCHANGED <<hostVars, accepted, wire>>,
           down \subseteq down', down' \subseteq Conns,
           y.queue # <<>> => writer[w].queue # <<>>,
           y.conn \in Conns \ down' => InStream(y, accepted[y.conn], wire[y.conn])
    PROVE  AttachedOK' /\ StreamsOK'
<1>1. \A v \in Writers : /\ writer'[v] = IF v = w THEN y ELSE writer[v]
                         /\ writer'[v].conn = writer[v].conn
  BY DEF Set, WritersOK
<1>2. UNCHANGED <<conn, clients, registry, accepted, wire>>
  BY DEF hostVars
<1>3. AttachedOK'
  <2>1. \A fd \in Fds : registry'[fd] # None =>
          fd \in clients' /\ writer'[registry'[fd]].conn = conn'[fd]
    BY <1>1, <1>2 DEF AttachedOK, WritersOK
  <2>2. \A v \in Writers : writer'[v].queue # <<>> => writer'[v].conn \in Conns
    BY <1>1 DEF AttachedOK
  <2>3. \A fd \in clients' : conn'[fd] \notin down' =>
         /\ registry'[fd] = None => accepted'[conn'[fd]] = <<>>
         /\ \A v \in Writers : writer'[v].conn = conn'[fd] => v = registry'[fd]
    BY <1>1, <1>2 DEF AttachedOK
  <2>4. \A u, v \in Writers :
         writer'[u].conn = writer'[v].conn /\ writer'[u].conn \in Conns \ down' => u = v
    BY <1>1 DEF AttachedOK
  <2>5. QED
    BY <1>2, <2>1, <2>2, <2>3, <2>4 DEF AttachedOK
<1>4. ASSUME NEW v \in Writers, writer'[v].conn \in Conns \ down'
      PROVE  InStream(writer'[v], accepted'[writer'[v].conn], wire'[writer'[v].conn])
  <2>1. CASE v = w
    BY <1>1, <1>2, <1>4, <2>1
  <2>2. CASE v # w
    BY <1>1, <1>2, <1>4, <2>2 DEF StreamsOK
  <2>3. QED
    BY <2>1, <2>2
<1>5. QED
  BY <1>2, <1>3, <1>4 DEF StreamsOK

-----------------------------------------------------------------------------
(* What the changes of a record do to its place in the stream. *)

(* The first block of a record that has a packet there. *)
LEMMA FirstPacket ==
    ASSUME NEW x \in WriterRecord, QueueOK(x), NEW a \in Seq(Lengths), NumbersOK(x, a),
           x.queue # <<>>, x.queue[1].kind = "packet"
    PROVE  LET k == x.queue[1].number IN
           /\ Len(x.queue) \in Nat \ {0} /\ Len(a) \in Nat
           /\ k \in 1..Len(a) /\ x.queue[1].length = a[k] /\ a[k] \in Nat \ {0}
           /\ ~x.cancelled => k = Len(a) - Len(x.queue) + 1
<1>1. x.queue \in Seq(Block)
  BY DEF WriterRecord
<1>2. Len(x.queue) \in Nat \ {0} /\ Len(a) \in Nat
  BY <1>1, EmptySeq, LenProperties
<1>3. /\ x.queue[1].number \in 1..Len(a) /\ x.queue[1].length = a[x.queue[1].number]
      /\ ~x.cancelled => x.queue[1].number = Len(a) - Len(x.queue) + 1
  <2>1. 1 \in 1..Len(x.queue)
    BY <1>2
  <2>2. QED
    BY <2>1, Zenon DEF NumbersOK
<1>4. a[x.queue[1].number] \in Lengths
  BY <1>3, ElementOfSeq
<1>5. QED
  BY <1>2, <1>3, <1>4, LengthsAssumption

(* The worker moves inside its block, or enters it. *)
LEMMA GotoStream ==
    ASSUME NEW x \in WriterRecord, QueueOK(x), NEW a \in Seq(Lengths),
           NEW s \in Seq(Nat \X Nat), InStream(x, a, s),
           x.queue # <<>>, x.queue[1].kind = "packet", NEW pc \in {"check", "send", "failed"},
           \/ pc = "failed"
           \/ pc = "check" /\ x.pc \in {"idle", "send"}
           \/ pc = "send" /\ x.pc = "check" /\ ~x.cancelled
    PROVE  InStream([x EXCEPT !.pc = pc], a, s)
<1> DEFINE y == [x EXCEPT !.pc = pc]
<1>1. /\ y.queue = x.queue /\ y.cancelled = x.cancelled /\ y.sent = x.sent /\ y.pc = pc
  BY DEF WriterRecord
<1>2. NumbersOK(x, a) /\ StandsOK(x, a, s)
  BY DEF InStream
<1>3. ~x.cancelled => x.queue[1].number = Len(a) - Len(x.queue) + 1
  BY <1>2, FirstPacket
<1>4. Len(a) \in Nat /\ Len(x.queue) \in Nat /\ Len(s) \in Nat
  BY LenProperties DEF WriterRecord
<1> HIDE DEF y
<1>5. NumbersOK(y, a)
  BY <1>1, <1>2 DEF NumbersOK
<1>6. StandsOK(y, a, s)
  <2>1. CASE pc = "failed"
    BY <1>1, <2>1 DEF StandsOK
  <2>2. CASE pc = "check" /\ x.pc = "idle"
    <3>1. ~x.cancelled => Len(s) = Len(a) - Len(x.queue) /\ Full(a, s) /\ x.sent = 0
      BY <1>2, <2>2 DEF StandsOK
    <3>2. \A la, lq \in Nat : la - lq = (la - lq + 1) - 1
      OBVIOUS
    <3>3. ~x.cancelled => Len(s) = x.queue[1].number - 1
      BY <1>3, <1>4, <3>1, <3>2
    <3>4. QED
      BY <1>1, <2>2, <3>1, <3>3 DEF StandsOK
  <2>3. CASE pc # "failed" /\ x.pc # "idle"
    BY <1>1, <1>2, <2>3 DEF StandsOK
  <2>4. QED
    BY <2>1, <2>2, <2>3
<1>7. QED
  BY <1>5, <1>6 DEF InStream, y

(* A record that differs in nothing the stream sees. *)
LEMMA LateStream ==
    ASSUME NEW x \in WriterRecord, NEW a, NEW s, InStream(x, a, s)
    PROVE  InStream([x EXCEPT !.late = TRUE], a, s)
BY DEF InStream, NumbersOK, StandsOK, WriterRecord

(* Cancelling leaves at most the send that is under way. *)
LEMMA CancelStream ==
    ASSUME NEW x \in WriterRecord, QueueOK(x), NEW a, NEW s, InStream(x, a, s)
    PROVE  InStream(Cancel(x), a, s)
<1> DEFINE q == Append(x.queue, CloseBlock)
           y == Cancel(x)
<1>1. /\ Len(q) = Len(x.queue) + 1 /\ Len(x.queue) \in Nat
      /\ \A i \in 1..Len(x.queue) : q[i] = x.queue[i]
      /\ q[Len(q)] = CloseBlock
  BY BlockKinds, AppendProperties DEF WriterRecord
<1>2. y.queue = q /\ y.cancelled /\ y.pc = x.pc /\ y.sent = x.sent
  BY DEF Cancel, WriterRecord
<1>3. x.pc # "idle" => q[1] = x.queue[1]
  <2>1. x.pc # "idle" => x.queue # <<>>
    BY DEF QueueOK
  <2>2. x.pc # "idle" => Len(x.queue) # 0
    BY <2>1, EmptySeq DEF WriterRecord
  <2>3. QED
    BY <1>1, <2>2
<1> HIDE DEF q, y
<1>4. \A i \in 1..Len(q) : q[i].kind = "packet" => i \in 1..Len(x.queue)
  BY <1>1, BlockKinds
<1>5. NumbersOK(y, a)
  BY <1>1, <1>2, <1>4 DEF NumbersOK, InStream
<1>6. StandsOK(y, a, s)
  BY <1>2, <1>3 DEF StandsOK, InStream
<1>7. QED
  BY <1>5, <1>6 DEF InStream, y

(* A failed write: the writer is cancelled and will not send again. *)
LEMMA FailStream ==
    ASSUME NEW x \in WriterRecord, NEW a, NEW s, InStream(x, a, s),
           NEW pc \in {"done", "shutdown"}
    PROVE  InStream([x EXCEPT !.cancelled = TRUE, !.pc = pc], a, s)
<1> DEFINE y == [x EXCEPT !.cancelled = TRUE, !.pc = pc]
<1>1. y.queue = x.queue /\ y.cancelled /\ y.sent = x.sent /\ y.pc = pc
  BY DEF WriterRecord
<1> HIDE DEF y
<1>2. NumbersOK(y, a)
  BY <1>1 DEF NumbersOK, InStream
<1>3. StandsOK(y, a, s)
  BY <1>1 DEF StandsOK
<1>4. QED
  BY <1>2, <1>3 DEF InStream, y

(* A block is removed from the queue: the packet before was complete, or the
   writer is cancelled. *)
LEMMA DequeueStream ==
    ASSUME NEW x \in WriterRecord, QueueOK(x), NEW a \in Seq(Lengths),
           NEW s \in Seq(Nat \X Nat), InStream(x, a, s), x.queue # <<>>,
           NEW y, y.queue = Tail(x.queue), y.cancelled = x.cancelled,
           y.pc = "idle", y.sent = 0,
           (x.pc = "done" /\ x.queue[1].kind = "packet") \/ x.cancelled
    PROVE  InStream(y, a, s)
<1>1. /\ Len(Tail(x.queue)) = Len(x.queue) - 1 /\ Len(x.queue) \in Nat \ {0}
      /\ \A i \in 1..Len(Tail(x.queue)) : Tail(x.queue)[i] = x.queue[i + 1]
  BY TailKeeps
<1>2. Len(a) \in Nat /\ Len(s) \in Nat
  BY LenProperties
<1>3. ASSUME NEW i \in 1..Len(y.queue), y.queue[i].kind = "packet"
      PROVE  /\ y.queue[i].number \in 1..Len(a)
             /\ y.queue[i].length = a[y.queue[i].number]
             /\ ~y.cancelled => y.queue[i].number = Len(a) - Len(y.queue) + i
  <2>1. i + 1 \in 1..Len(x.queue) /\ y.queue[i] = x.queue[i + 1] /\ i \in Nat
    BY <1>1
  <2>2. /\ y.queue[i].number \in 1..Len(a)
        /\ y.queue[i].length = a[y.queue[i].number]
        /\ ~x.cancelled => y.queue[i].number = Len(a) - Len(x.queue) + (i + 1)
    BY <1>3, <2>1 DEF InStream, NumbersOK
  <2>3. Len(a) - Len(x.queue) + (i + 1) = Len(a) - Len(y.queue) + i
    <3>1. \A la, lq, j \in Nat : la - lq + (j + 1) = la - (lq - 1) + j
      OBVIOUS
    <3>2. Len(y.queue) = Len(x.queue) - 1 /\ Len(x.queue) \in Nat
      BY <1>1
    <3>3. Len(a) - Len(x.queue) + (i + 1) = Len(a) - (Len(x.queue) - 1) + i
      BY <1>2, <2>1, <3>1, <3>2, Zenon
    <3>4. QED
      BY <3>2, <3>3, Zenon
  <2>4. QED
    BY <2>2, <2>3
<1>4. ASSUME ~y.cancelled
      PROVE  Len(s) = Len(a) - Len(y.queue) /\ Full(a, s)
  <2>1. /\ x.pc = "done" /\ x.queue[1].kind = "packet" /\ ~x.cancelled
    BY <1>4
  <2>2. PICK k : k = x.queue[1].number
    OBVIOUS
  <2>3. k \in 1..Len(a) /\ k = Len(a) - Len(x.queue) + 1
    BY <2>1, <2>2, FirstPacket DEF InStream
  <2>4. Len(s) = k /\ s[k] = <<k, a[k]>>
    BY <2>1, <2>2 DEF InStream, StandsOK
  <2>5. Full(a, s)
    BY <2>4 DEF Full
  <2>6. \A la, lq \in Nat : la - lq + 1 = la - (lq - 1)
    OBVIOUS
  <2>7. Len(y.queue) = Len(x.queue) - 1 /\ Len(x.queue) \in Nat
    BY <1>1
  <2>8. QED
    BY <1>2, <2>3, <2>4, <2>5, <2>6, <2>7
<1>5. QED
  BY <1>3, <1>4 DEF InStream, NumbersOK, StandsOK

(* A packet is accepted and queued behind the others. *)
LEMMA QueuedStream ==
    ASSUME NEW x \in WriterRecord, QueueOK(x), NEW a \in Seq(Lengths),
           NEW s \in Seq(Nat \X Nat), InStream(x, a, s), ~x.cancelled,
           NEW n \in Lengths, NEW p \in Packet, p.number = Len(a) + 1, p.length = n,
           Len(s) <= Len(a)
    PROVE  InStream(Queued(x, p), Append(a, n), s)
<1> DEFINE q == Append(x.queue, p)
           y == Queued(x, p)
           b == Append(a, n)
<1>0. p \in Block /\ x.queue \in Seq(Block)
  BY DEF Block, WriterRecord
<1>1. /\ Len(q) = Len(x.queue) + 1 /\ Len(x.queue) \in Nat
      /\ \A i \in 1..Len(x.queue) : q[i] = x.queue[i] /\ x.queue[i] \in Block
      /\ q[Len(q)] = p
  BY <1>0, AppendProperties, ElementOfSeq
<1>2. /\ Len(b) = Len(a) + 1 /\ Len(a) \in Nat /\ Len(s) \in Nat
      /\ \A i \in 1..Len(a) : b[i] = a[i]
      /\ b[Len(a) + 1] = n
  BY AppendProperties, LenProperties
<1>3. y.queue = q /\ y.cancelled = x.cancelled /\ y.pc = x.pc /\ y.sent = x.sent
  BY DEF Queued, WriterRecord
<1>4. \A i \in 1..Len(x.queue) : x.queue[i].kind = "packet"
  BY <1>1, BlockKinds DEF QueueOK
<1>5. x.pc # "idle" => Len(x.queue) # 0 /\ q[1] = x.queue[1]
  <2>1. x.pc # "idle" => x.queue # <<>>
    BY DEF QueueOK
  <2>2. x.pc # "idle" => Len(x.queue) # 0
    BY <1>0, <2>1, EmptySeq
  <2>3. QED
    BY <1>1, <2>2
<1>6. Full(a, s) => Full(b, s)
  <2>1. CASE s = <<>>
    BY <2>1 DEF Full
  <2>2. CASE s # <<>>
    <3>1. Len(s) \in 1..Len(a)
      BY <1>2, <2>2, EmptySeq
    <3>2. b[Len(s)] = a[Len(s)]
      BY <1>2, <3>1
    <3>3. QED
      BY <3>2 DEF Full
  <2>3. QED
    BY <2>1, <2>2
<1> HIDE DEF q, y, b
<1>7. \A la, lq, j \in Nat : /\ la - lq + j = (la + 1) - (lq + 1) + j
                              /\ 1..la \subseteq 1..(la + 1) /\ la + 1 \in 1..(la + 1)
  OBVIOUS
<1>8. ASSUME NEW i \in 1..Len(q)
      PROVE  /\ q[i].number \in 1..Len(b) /\ q[i].length = b[q[i].number]
             /\ q[i].number = Len(b) - Len(q) + i
  <2>1. CASE i \in 1..Len(x.queue)
    <3>1. /\ q[i].number \in 1..Len(a) /\ q[i].length = a[q[i].number]
          /\ q[i].number = Len(a) - Len(x.queue) + i
      BY <1>1, <1>4, <2>1 DEF InStream, NumbersOK
    <3>2. q[i].number \in 1..Len(b)
      BY <1>7, <1>2, <3>1
    <3>3. b[q[i].number] = a[q[i].number]
      BY <1>2, <3>1
    <3>4. i \in Nat
      BY <2>1
    <3>5. Len(a) - Len(x.queue) + i = Len(b) - Len(q) + i
      BY <1>7, <1>1, <1>2, <3>4
    <3>6. QED
      BY <3>1, <3>2, <3>3, <3>5
  <2>2. CASE i \notin 1..Len(x.queue)
    <3>1. i = Len(q) /\ q[i] = p
      BY <1>1, <2>2
    <3>2. \A lb, lq \in Nat : lb = lb - lq + lq
      OBVIOUS
    <3>3. Len(b) \in Nat /\ Len(q) \in Nat /\ Len(b) \in 1..Len(b)
      BY <1>1, <1>2
    <3>4. Len(b) = Len(b) - Len(q) + Len(q)
      BY <3>2, <3>3, Zenon
    <3>5. QED
      BY <1>2, <3>1, <3>3, <3>4
  <2>3. QED
    BY <2>1, <2>2
<1>9. NumbersOK(y, b)
  BY <1>3, <1>8 DEF NumbersOK
<1>10. x.pc # "idle" => x.queue[1].number \in 1..Len(a)
                       /\ b[x.queue[1].number] = a[x.queue[1].number]
  <2>1. x.pc # "idle" => x.queue[1].number \in 1..Len(a)
    <3>1. x.pc # "idle" => 1 \in 1..Len(x.queue)
      BY <1>1, <1>5
    <3>2. QED
      BY <1>4, <3>1, Zenon DEF InStream, NumbersOK
  <2>2. QED
    BY <1>2, <2>1
<1>11. Len(a) - Len(x.queue) = Len(b) - Len(q)
  BY <1>1, <1>2
<1>12. StandsOK(y, b, s)
  BY <1>3, <1>5, <1>6, <1>10, <1>11 DEF StandsOK, InStream
<1>13. QED
  BY <1>9, <1>12 DEF InStream, y, b

(* A send that carries m bytes of packet k, of which `sent` went before. *)
Extended(s, k, sent, m) ==
    IF sent = 0 THEN Append(s, <<k, m>>) ELSE [s EXCEPT ![Len(s)] = <<k, sent + m>>]

(* The record after it... *)
Sends(x, m, y) ==
    /\ y.queue = x.queue /\ y.cancelled = x.cancelled /\ y.sent = x.sent + m
    /\ y.pc = IF x.sent + m = x.queue[1].length THEN "done" ELSE "check"

(* ... and the stream after it, where v bytes of the last packet are sent. *)
BeginsOrContinues(a, s, t, m, v) ==
    \/ /\ Full(a, s) /\ Len(s) < Len(a) /\ m \in 1..a[Len(s) + 1]
       /\ t = Append(s, <<Len(s) + 1, m>>)
    \/ /\ ~Full(a, s)
       /\ v \in s[Len(s)][2] + 1..a[Len(s)]
       /\ t = [s EXCEPT ![Len(s)] = <<Len(s), v>>]

(* Such a send begins the next packet of the stream or continues the last one,
   and leaves the writer where it should stand. *)
LEMMA SendStream ==
    ASSUME NEW x \in WriterRecord, QueueOK(x), NEW a \in Seq(Lengths),
           NEW s \in Seq(Nat \X Nat), InStream(x, a, s), x.pc = "send",
           NEW m \in 1..x.queue[1].length - x.sent, NEW y, Sends(x, m, y), NEW t,
           t = Extended(s, x.queue[1].number, x.sent, m)
    PROVE  /\ t \in Seq(Nat \X Nat) /\ Len(t) <= Len(a) /\ InStream(y, a, t)
           /\ BeginsOrContinues(a, s, t, m, x.sent + m)
<1>1. PICK k : k = x.queue[1].number
  OBVIOUS
<1>2. x.queue # <<>> /\ x.queue[1].kind = "packet"
  BY DEF QueueOK
<1>3. k \in 1..Len(a) /\ x.queue[1].length = a[k] /\ a[k] \in Nat \ {0} /\ Len(a) \in Nat
  BY <1>1, <1>2, FirstPacket DEF InStream
<1>4. \/ x.sent = 0 /\ Len(s) = k - 1 /\ Full(a, s)
      \/ x.sent \in 1..a[k] - 1 /\ Len(s) = k /\ s[k] = <<k, x.sent>>
  BY <1>1 DEF InStream, StandsOK
<1>5. PICK v \in Nat : v = x.sent + m
  BY <1>3, <1>4
<1>6. /\ v \in 1..a[k] /\ y.sent = v
      /\ v = a[k] => y.pc = "done"
      /\ v # a[k] => y.pc = "check" /\ v \in 1..a[k] - 1
  <2>1. y.sent = v /\ y.pc = IF v = a[k] THEN "done" ELSE "check"
    <3>1. y.sent = x.sent + m
          /\ y.pc = IF x.sent + m = x.queue[1].length THEN "done" ELSE "check"
      BY DEF Sends
    <3> QED BY ONLY <1>3, <1>5, <3>1
  <2>2. v \in 1..a[k] /\ (v # a[k] => v \in 1..a[k] - 1)
    <3>1. m \in 1..a[k] - x.sent
      BY ONLY <1>3, m \in 1..x.queue[1].length - x.sent
    <3>2. x.sent \in 0..a[k] - 1 /\ a[k] \in Nat
      BY ONLY <1>3, <1>4
    <3> QED BY ONLY <1>5, <3>1, <3>2
  <2>3. QED
    BY <2>1, <2>2
<1>7. k \in Nat /\ <<k, v>> \in Nat \X Nat /\ <<k, v>>[2] = v
  BY <1>3, <1>5
<1>8. t = Extended(s, k, x.sent, m)
  BY <1>1
<1>9. /\ t \in Seq(Nat \X Nat) /\ Len(t) = k /\ t[k] = <<k, v>>
      /\ BeginsOrContinues(a, s, t, m, v)
  <2>1. CASE x.sent = 0 /\ Len(s) = k - 1 /\ Full(a, s)
    <3>1. v = m /\ Len(s) + 1 = k /\ Len(s) < Len(a)
      BY <1>3, <1>5, <2>1
    <3>2. t = Append(s, <<k, v>>)
      BY <1>8, <2>1, <3>1 DEF Extended
    <3>3. t \in Seq(Nat \X Nat) /\ Len(t) = k /\ t[k] = <<k, v>>
      <4>1. t \in Seq(Nat \X Nat) /\ Len(t) = Len(s) + 1 /\ t[Len(t)] = <<k, v>>
        BY <1>7, <3>2, AppendProperties
      <4>2. QED
        BY <3>1, <4>1
    <3>4. QED
      BY <1>6, <2>1, <3>1, <3>2, <3>3 DEF BeginsOrContinues
  <2>2. CASE x.sent \in 1..a[k] - 1 /\ Len(s) = k /\ s[k] = <<k, x.sent>>
    <3>1. t = [s EXCEPT ![k] = <<k, v>>]
      <4>1. x.sent # 0
        BY <1>3, <2>2
      <4>2. t = [s EXCEPT ![Len(s)] = <<k, x.sent + m>>]
        BY <1>8, <4>1 DEF Extended
      <4>3. QED
        BY <1>5, <2>2, <4>2
    <3>2. t \in Seq(Nat \X Nat) /\ Len(t) = k /\ t[k] = <<k, v>>
      <4>1. k \in 1..Len(s)
        BY <1>3, <2>2
      <4>2. t \in Seq(Nat \X Nat) /\ Len(t) = Len(s) /\ t[k] = <<k, v>>
        BY <1>7, <3>1, <4>1, ExceptSeq
      <4>3. QED
        BY <2>2, <4>2
    <3>3. s[Len(s)][2] = x.sent /\ x.sent # a[k]
      BY <1>3, <2>2
    <3>4. s # <<>>
      BY <1>3, <2>2, EmptySeq
    <3>5. ~Full(a, s)
      BY <2>2, <3>3, <3>4 DEF Full
    <3>6. v \in x.sent + 1..a[k]
      BY <1>3, <1>5, <1>6, <2>2
    <3>7. QED
      BY <1>7, <2>2, <3>1, <3>2, <3>3, <3>5, <3>6 DEF BeginsOrContinues
  <2>3. QED
    BY <1>4, <2>1, <2>2
<1>10. NumbersOK(y, a)
  BY DEF InStream, NumbersOK, Sends
<1>11. StandsOK(y, a, t)
  <2>1. CASE v = a[k]
    BY <1>1, <1>6, <1>9, <2>1 DEF StandsOK, Sends
  <2>2. CASE v # a[k]
    <3>1. y.pc = "check" /\ y.sent \in 1..a[k] - 1 /\ Len(t) = k /\ t[k] = <<k, y.sent>>
      BY <1>6, <1>9, <2>2
    <3>2. QED
      BY <1>1, <3>1 DEF StandsOK, Sends
  <2>3. QED
    BY <2>1, <2>2
<1>12. Len(t) <= Len(a)
  BY <1>3, <1>9
<1>13. QED
  BY <1>1, <1>5, <1>8, <1>9, <1>10, <1>11, <1>12 DEF InStream

-----------------------------------------------------------------------------
(* The steps.  What a worker does without sending. *)
LEMMA WorkerStreams ==
    ASSUME WritersOK, AttachedOK, StreamsOK, NEW w \in Writers,
           Worker(w) \/ SendBlocks(w) \/ DeadlinePasses(w), ~SendSome(w)
    PROVE  AttachedOK' /\ StreamsOK' /\ UNCHANGED <<accepted, wire>>
           /\ (down' = down \/ \E c \in Conns : down' = down \cup {c})
<1> DEFINE x == writer[w]
           c == writer[w].conn
<1>1. /\ x \in WriterRecord /\ QueueOK(x) /\ down \subseteq Conns
      /\ c \in Conns => accepted[c] \in Seq(Lengths) /\ wire[c] \in Seq(Nat \X Nat)
      /\ c \in Conns \ down => InStream(x, accepted[c], wire[c])
  BY DEF WritersOK, StreamsOK
<1>2. ASSUME NEW pc \in {"check", "send", "failed"}, Goto(w, pc), x.queue # <<>>,
             First(w).kind = "packet", UNCHANGED <<hostVars, down, accepted, wire>>,
             \/ pc = "failed"
             \/ pc = "check" /\ x.pc \in {"idle", "send"}
             \/ pc = "send" /\ x.pc = "check" /\ ~x.cancelled
      PROVE  AttachedOK' /\ StreamsOK'
  <2> DEFINE y == [x EXCEPT !.pc = pc]
  <2>1. x.queue[1].kind = "packet"
    BY <1>2, FirstBlock
  <2>2. y.conn = c /\ y.queue = x.queue
    BY <1>1 DEF WriterRecord
  <2>3. c \in Conns \ down => InStream(y, accepted[c], wire[c])
    BY <1>1, <1>2, <2>1, GotoStream
  <2>4. Set(w, y)
    BY <1>2 DEF Goto, Set
  <2> HIDE DEF y
  <2>5. QED
    BY <1>1, <1>2, <2>2, <2>3, <2>4, SetStreams
<1>3. CASE BlockStarts(w)
  <2>1. /\ x.pc = "idle" /\ x.queue # <<>> /\ First(w).kind = "packet"
        /\ UNCHANGED <<hostVars, down, accepted, wire>>
        /\ Goto(w, IF x.late THEN "failed" ELSE "check")
    BY <1>3 DEF BlockStarts, At
  <2>2. QED
    BY <1>2, <2>1
<1>4. CASE WriteChecks(w)
  <2>1. /\ x.pc = "check" /\ x.queue # <<>>
        /\ UNCHANGED <<hostVars, down, accepted, wire>>
        /\ Goto(w, IF x.cancelled \/ x.late THEN "failed" ELSE "send")
    BY <1>4 DEF WriteChecks, At
  <2>2. First(w).kind = "packet"
    BY <2>1, FirstBlock
  <2>3. QED
    BY <1>2, <2>1, <2>2
<1>5. CASE SendBlocks(w) \/ SendFails(w)
  <2>1. /\ x.pc = "send" /\ x.queue # <<>>
        /\ UNCHANGED <<hostVars, down, accepted, wire>>
        /\ Goto(w, "check") \/ Goto(w, "failed")
    BY <1>5 DEF SendBlocks, SendFails, At
  <2>2. First(w).kind = "packet"
    BY <2>1, FirstBlock
  <2>3. QED
    BY <1>2, <2>1, <2>2
<1>6. CASE WriterFails(w)
  <2>1. PICK pc \in {"done", "shutdown"} : pc = IF x.cancelled THEN "done" ELSE "shutdown"
    OBVIOUS
  <2> DEFINE y == [x EXCEPT !.cancelled = TRUE, !.pc = pc]
  <2>2. Set(w, y) /\ UNCHANGED <<hostVars, down, accepted, wire>>
    BY <1>6, <2>1 DEF WriterFails
  <2>3. y.conn = c /\ y.queue = x.queue
    BY <1>1 DEF WriterRecord
  <2>4. c \in Conns \ down => InStream(y, accepted[c], wire[c])
    BY <1>1, FailStream
  <2> HIDE DEF y
  <2>5. QED
    BY <1>1, <2>2, <2>3, <2>4, SetStreams
<1>7. CASE ShutDown(w)
  <2> DEFINE y == [x EXCEPT !.pc = "done"]
  <2>1. /\ x.queue # <<>> /\ Set(w, y) /\ UNCHANGED <<hostVars, accepted, wire>>
        /\ down' = down \cup {c}
    BY <1>7 DEF ShutDown, At, Goto, Set
  <2>2. y.conn = c /\ y.queue = x.queue /\ c \in Conns
    BY <1>1, <2>1 DEF WriterRecord, AttachedOK
  <2>3. y.conn \notin Conns \ down'
    BY <2>1, <2>2
  <2> HIDE DEF y
  <2>4. AttachedOK' /\ StreamsOK'
    BY <1>1, <2>1, <2>2, <2>3, SetStreams
  <2>5. QED
    BY <2>1, <2>2, <2>4
<1>8. CASE DeadlinePasses(w)
  <2> DEFINE y == [x EXCEPT !.late = TRUE]
  <2>1. Set(w, y) /\ UNCHANGED <<hostVars, down, accepted, wire>>
    BY <1>8 DEF DeadlinePasses, Set
  <2>2. y.conn = c /\ y.queue = x.queue
    BY <1>1 DEF WriterRecord
  <2>3. c \in Conns \ down => InStream(y, accepted[c], wire[c])
    BY <1>1, LateStream
  <2> HIDE DEF y
  <2>4. QED
    BY <1>1, <2>1, <2>2, <2>3, SetStreams
<1>9. ASSUME NEW y, Set(w, y), UNCHANGED <<hostVars, down, accepted, wire>>,
             x.queue # <<>>, y.conn = c, y.queue = Tail(x.queue),
             y.cancelled = x.cancelled, y.pc = "idle", x.pc = "idle" => y.sent = x.sent,
             x.pc # "idle" => y.sent = 0,
             (x.pc = "done" /\ x.queue[1].kind = "packet") \/ (x.pc = "idle" /\ x.cancelled)
      PROVE  AttachedOK' /\ StreamsOK'
  <2>1. c \in Conns \ down => InStream(y, accepted[c], wire[c])
    <3>1. c \in Conns \ down => y.sent = 0
      BY <1>1, <1>9 DEF InStream, StandsOK
    <3>2. QED
      BY <1>1, <1>9, <3>1, DequeueStream
  <2>2. QED
    BY <1>1, <1>9, <2>1, SetStreams
<1>10. CASE Release(w)
  <2> DEFINE y == Dequeued(x, First(w).length)
  <2>1. /\ x.queue # <<>> /\ x.pc = "done" /\ Set(w, y)
        /\ UNCHANGED <<hostVars, down, accepted, wire>>
    BY <1>10 DEF Release, At
  <2>2. x.queue[1].kind = "packet" /\ First(w).length \in Int
    <3>1. x.queue[1].kind = "packet" /\ First(w).length \in Lengths
      BY <2>1, FirstBlock, BlockKinds
    <3>2. QED
      BY <3>1, LengthsAreIntegers
  <2>3. /\ y.conn = c /\ y.queue = Tail(x.queue) /\ y.cancelled = x.cancelled
        /\ y.pc = "idle" /\ y.sent = 0
    <3>1. Tail(x.queue) \in Seq(Block)
      BY <1>1, <2>1, TailKeeps
    <3>2. QED
      BY <1>1, <2>2, <3>1, DequeuedRecord
  <2> HIDE DEF y
  <2>4. QED
    BY <1>9, <2>1, <2>2, <2>3
<1>11. CASE CloseRuns(w)
  <2> DEFINE y == [x EXCEPT !.open = FALSE, !.queue = Tail(x.queue)]
  <2>1. /\ x.queue # <<>> /\ x.pc = "idle" /\ First(w).kind = "close"
        /\ Set(w, y) /\ UNCHANGED <<hostVars, down, accepted, wire>>
    BY <1>11 DEF CloseRuns, At
  <2>2. /\ y.conn = c /\ y.queue = Tail(x.queue) /\ y.cancelled = x.cancelled
        /\ y.pc = "idle" /\ y.sent = x.sent
    BY <1>1, <2>1 DEF WriterRecord
  <2>3. x.queue[1].kind = "close" /\ Len(x.queue) \in Nat \ {0}
    BY <1>1, <2>1, FirstBlock, TailKeeps
  <2>4. x.cancelled
    BY <1>1, <2>3 DEF QueueOK
  <2> HIDE DEF y
  <2>5. QED
    BY <1>9, <2>1, <2>2, <2>4
<1>12. QED
  BY <1>3, <1>4, <1>5, <1>6, <1>7, <1>8, <1>10, <1>11 DEF Worker

(* A send: a step of the abstract stream of the writer's connection. *)
LEMMA SendStreams ==
    ASSUME WritersOK, AttachedOK, StreamsOK, NEW w \in Writers, SendSome(w)
    PROVE  /\ AttachedOK' /\ StreamsOK'
           /\ \E c \in Conns : Streams!Begin(c) \/ Streams!Continue(c)
<1> DEFINE x == writer[w]
           c == writer[w].conn
           k == writer[w].queue[1].number
<1>1. /\ x.pc = "send" /\ x.queue # <<>> /\ c \notin down
      /\ UNCHANGED <<hostVars, down, accepted>>
  BY DEF SendSome, At
<1>2. /\ x \in WriterRecord /\ QueueOK(x) /\ c \in Conns /\ First(w) = x.queue[1]
      /\ accepted[c] \in Seq(Lengths) /\ wire[c] \in Seq(Nat \X Nat)
      /\ InStream(x, accepted[c], wire[c])
  <2>1. c \in Conns
    BY <1>1 DEF AttachedOK
  <2>2. First(w) = x.queue[1]
    BY <1>1, FirstBlock
  <2>3. QED
    BY <1>1, <2>1, <2>2 DEF WritersOK, StreamsOK
<1>3. PICK m \in 1..x.queue[1].length - x.sent :
         /\ wire' = [wire EXCEPT ![c] = Carried(w, m)]
         /\ Set(w, [x EXCEPT !.sent = x.sent + m,
                     !.pc = IF x.sent + m = x.queue[1].length THEN "done" ELSE "check"])
  BY <1>2 DEF SendSome
<1>4. PICK y : y = [x EXCEPT !.sent = x.sent + m,
                     !.pc = IF x.sent + m = x.queue[1].length THEN "done" ELSE "check"]
  OBVIOUS
<1>5. Sends(x, m, y) /\ y.conn = c /\ y.queue = x.queue /\ Set(w, y)
  <2>1. PICK sent, pc :
          /\ sent = x.sent + m
          /\ pc = IF x.sent + m = x.queue[1].length THEN "done" ELSE "check"
    OBVIOUS
  <2>2. y = [x EXCEPT !.sent = sent, !.pc = pc]
    BY <1>4, <2>1
  <2>3. /\ y.queue = x.queue /\ y.cancelled = x.cancelled /\ y.sent = sent
        /\ y.pc = pc /\ y.conn = c
    BY <1>2, <2>2 DEF WriterRecord
  <2>4. QED
    BY <1>3, <1>4, <2>1, <2>3 DEF Sends
<1>6. PICK t : t = Extended(wire[c], k, x.sent, m)
  OBVIOUS
<1>7. wire' = [wire EXCEPT ![c] = t]
  BY <1>2, <1>3, <1>6 DEF Carried, Extended
<1>8. /\ t \in Seq(Nat \X Nat) /\ Len(t) <= Len(accepted[c]) /\ InStream(y, accepted[c], t)
      /\ BeginsOrContinues(accepted[c], wire[c], t, m, x.sent + m)
  <2>1. t = Extended(wire[c], x.queue[1].number, x.sent, m)
    BY <1>6
  <2> HIDE DEF x, c, k
  <2>2. QED
    BY <1>1, <1>2, <1>5, <2>1, SendStream
<1>9. Streams!Begin(c) \/ Streams!Continue(c)
  <2>1. Full(accepted[c], wire[c]) <=> Streams!Complete(c)
    BY DEF Full, Streams!Complete, Streams!Last
  <2>2. CASE Full(accepted[c], wire[c])
    <3>1. /\ Len(wire[c]) < Len(accepted[c]) /\ m \in 1..accepted[c][Len(wire[c]) + 1]
          /\ wire' = [wire EXCEPT ![c] = Append(wire[c], <<Len(wire[c]) + 1, m>>)]
      BY <1>7, <1>8, <2>2 DEF BeginsOrContinues
    <3>2. QED
      BY <1>1, <2>1, <2>2, <3>1 DEF Streams!Begin
  <2>3. CASE ~Full(accepted[c], wire[c])
    <3>1. PICK v : v = x.sent + m
      OBVIOUS
    <3>2. /\ v \in wire[c][Len(wire[c])][2] + 1..accepted[c][Len(wire[c])]
          /\ wire' = [wire EXCEPT ![c] =
                        [wire[c] EXCEPT ![Len(wire[c])] = <<Len(wire[c]), v>>]]
      BY <1>7, <1>8, <2>3, <3>1 DEF BeginsOrContinues
    <3>3. wire' = [wire EXCEPT ![c][Len(wire[c])] = <<Len(wire[c]), v>>]
      BY <3>2
    <3>4. QED
      BY <1>1, <2>1, <2>3, <3>2, <3>3 DEF Streams!Continue, Streams!Last
  <2>4. QED
    BY <2>2, <2>3
<1> HIDE DEF x, c, k
<1>10. /\ wire' \in [Conns -> Seq(Nat \X Nat)]
       /\ \A d \in Conns : wire'[d] = IF d = c THEN t ELSE wire[d]
  BY <1>2, <1>7, <1>8 DEF StreamsOK
<1>11. \A v \in Writers : /\ writer'[v] = IF v = w THEN y ELSE writer[v]
                          /\ writer'[v].conn = writer[v].conn
  BY <1>5 DEF Set, WritersOK, c
<1>12. \A v \in Writers : writer[v].conn = c => v = w
  BY <1>1, <1>2 DEF AttachedOK, c
<1>13. AttachedOK'
  <2>1. \A v \in Writers : writer'[v].queue = writer[v].queue
    BY <1>5, <1>11 DEF x
  <2>2. UNCHANGED <<conn, clients, registry, down, accepted>>
    BY <1>1 DEF hostVars
  <2>3. \A fd \in Fds : registry'[fd] # None =>
          fd \in clients' /\ writer'[registry'[fd]].conn = conn'[fd]
    BY <1>11, <2>2 DEF AttachedOK, WritersOK
  <2>4. QED
    BY <1>11, <2>1, <2>2, <2>3 DEF AttachedOK
<1>14. ASSUME NEW v \in Writers, writer'[v].conn \in Conns \ down'
       PROVE  InStream(writer'[v], accepted'[writer'[v].conn], wire'[writer'[v].conn])
  <2>1. CASE v = w
    BY <1>1, <1>2, <1>5, <1>8, <1>10, <1>11, <2>1
  <2>2. CASE v # w
    <3>1. writer'[v] = writer[v] /\ writer[v].conn \in Conns \ down /\ writer[v].conn # c
      BY <1>1, <1>11, <1>12, <1>14, <2>2
    <3>2. QED
      BY <1>1, <1>10, <3>1 DEF StreamsOK
  <2>3. QED
    BY <2>1, <2>2
<1>15. \A d \in Conns : Len(wire'[d]) <= Len(accepted'[d])
  BY <1>1, <1>8, <1>10 DEF StreamsOK
<1>16. StreamsOK'
  BY <1>1, <1>10, <1>14, <1>15 DEF StreamsOK
<1>17. QED
  BY <1>2, <1>9, <1>13, <1>16 DEF c

(* An object that nothing refers to leaves. *)
LEMMA DeallocStreams ==
    ASSUME WritersOK, AttachedOK, StreamsOK, NEW w \in Writers, Dealloc(w)
    PROVE  AttachedOK' /\ StreamsOK' /\ UNCHANGED <<accepted, wire, down>>
<1>1. /\ \A fd \in Fds : registry[fd] # w
      /\ \A v \in Writers : writer'[v] = IF v = w THEN FreeWriter ELSE writer[v]
      /\ UNCHANGED <<conn, clients, registry, down, accepted, wire>>
  BY DEF Dealloc, Registered, Set, WritersOK, hostVars
<1>2. FreeWriter.conn = None /\ FreeWriter.queue = <<>> /\ None \notin Conns
  BY NoneAssumption DEF FreeWriter
<1>3. AttachedOK'
  <2>1. \A fd \in Fds : registry'[fd] # None =>
          fd \in clients' /\ writer'[registry'[fd]].conn = conn'[fd]
    BY <1>1 DEF AttachedOK, WritersOK
  <2>2. \A v \in Writers : writer'[v].queue # <<>> => writer'[v].conn \in Conns
    BY <1>1, <1>2 DEF AttachedOK
  <2>3. \A fd \in clients' : conn'[fd] \notin down' =>
         /\ registry'[fd] = None => accepted'[conn'[fd]] = <<>>
         /\ \A v \in Writers : writer'[v].conn = conn'[fd] => v = registry'[fd]
    BY <1>1, <1>2 DEF AttachedOK, WritersOK
  <2>4. \A u, v \in Writers :
         writer'[u].conn = writer'[v].conn /\ writer'[u].conn \in Conns \ down' => u = v
    BY <1>1, <1>2 DEF AttachedOK
  <2>5. QED
    BY <1>1, <2>1, <2>2, <2>3, <2>4 DEF AttachedOK
<1>4. StreamsOK'
  BY <1>1, <1>2 DEF StreamsOK
<1>5. QED
  BY <1>1, <1>3, <1>4

(* The writer of a number is cancelled and forgotten: because its connection
   was ended, or because nothing is sent to the number any more. *)
LEMMA UnregisterStreams ==
    ASSUME WritersOK, AttachedOK, StreamsOK, NEW fd \in Fds, fd \in clients,
           registry' = [registry EXCEPT ![fd] = None],
           IF registry[fd] = None THEN UNCHANGED writer
                                  ELSE Set(registry[fd], Cancel(writer[registry[fd]])),
           UNCHANGED <<conn, accepted, wire>>, down \subseteq down', down' \subseteq Conns,
           clients' \subseteq clients, clients \ {fd} \subseteq clients',
           conn[fd] \in down' \/ fd \notin clients'
    PROVE  AttachedOK' /\ StreamsOK'
<1> USE NoneAssumption
<1>1. /\ \A v \in Writers : /\ writer[v] \in WriterRecord /\ QueueOK(writer[v])
                            /\ writer'[v] = IF v = registry[fd] THEN Cancel(writer[v])
                                                                 ELSE writer[v]
      /\ \A f \in Fds : registry'[f] = IF f = fd THEN None ELSE registry[f]
  BY DEF Set, WritersOK
<1>2. \A v \in Writers : writer'[v].conn = writer[v].conn
  <2>1. \A x \in WriterRecord : Cancel(x).conn = x.conn
    BY DEF Cancel, WriterRecord
  <2>2. QED
    BY <1>1, <2>1
<1>3. \A v \in Writers : writer'[v].queue # <<>> => writer'[v].conn \in Conns
  <2> SUFFICES ASSUME NEW v \in Writers, writer'[v].queue # <<>>
               PROVE  writer[v].conn \in Conns
    BY <1>2
  <2>1. CASE v = registry[fd]
    <3>1. conn[fd] \in Conns /\ writer[v].conn = conn[fd]
      BY <2>1 DEF AttachedOK, WritersOK
    <3>2. QED
      BY <3>1
  <2>2. CASE v # registry[fd]
    BY <1>1, <2>2 DEF AttachedOK
  <2>3. QED
    BY <2>1, <2>2
<1>4. AttachedOK'
  <2>1. \A f \in Fds : registry'[f] # None =>
          f \in clients' /\ writer'[registry'[f]].conn = conn'[f]
    BY <1>1, <1>2 DEF AttachedOK, WritersOK
  <2>2. \A f \in clients' : conn'[f] \notin down' =>
         /\ registry'[f] = None => accepted'[conn'[f]] = <<>>
         /\ \A v \in Writers : writer'[v].conn = conn'[f] => v = registry'[f]
    BY <1>1, <1>2 DEF AttachedOK, WritersOK
  <2>3. \A u, v \in Writers :
         writer'[u].conn = writer'[v].conn /\ writer'[u].conn \in Conns \ down' => u = v
    BY <1>2 DEF AttachedOK
  <2>4. QED
    BY <1>3, <2>1, <2>2, <2>3 DEF AttachedOK
<1>5. ASSUME NEW v \in Writers, writer'[v].conn \in Conns \ down'
      PROVE  InStream(writer'[v], accepted'[writer'[v].conn], wire'[writer'[v].conn])
  <2>1. InStream(writer[v], accepted[writer[v].conn], wire[writer[v].conn])
    BY <1>2, <1>5 DEF StreamsOK
  <2>2. InStream(writer'[v], accepted[writer[v].conn], wire[writer[v].conn])
    BY <1>1, <2>1, CancelStream
  <2>3. QED
    BY <1>2, <2>2
<1>6. QED
  BY <1>4, <1>5 DEF StreamsOK

(* The descriptor numbers: a connection arrives, a number is given back, a peer
   leaves. *)
LEMMA NumberStreams ==
    ASSUME WritersOK, AttachedOK, StreamsOK,
           \/ \E fd \in Fds, c \in Conns : Accept(fd, c)
           \/ \E fd \in Fds : CloseNumber(fd)
           \/ \E c \in Conns : PeerCloses(c)
    PROVE  /\ AttachedOK' /\ StreamsOK' /\ UNCHANGED <<accepted, wire>>
           /\ down' = down \/ \E c \in Conns : down' = down \cup {c}
<1> USE NoneAssumption
<1>1. ASSUME NEW fd \in Fds, NEW c \in Conns, Accept(fd, c)
      PROVE  AttachedOK' /\ StreamsOK' /\ UNCHANGED <<accepted, wire, down>>
  <2>1. /\ conn[fd] = None /\ c \notin down /\ accepted[c] = <<>>
        /\ \A f \in Fds : conn[f] # c /\ conn'[f] = IF f = fd THEN c ELSE conn[f]
        /\ \A w \in Writers : writer[w].conn # c
        /\ clients' = clients \cup {fd} /\ fd \notin clients
        /\ UNCHANGED <<registry, writer, down, accepted, wire>>
    BY <1>1 DEF Accept, WritersOK
  <2>2. registry[fd] = None
    BY <2>1 DEF AttachedOK
  <2>3. \A f \in Fds : registry'[f] # None =>
          f \in clients' /\ writer'[registry'[f]].conn = conn'[f]
    BY <2>1, <2>2 DEF AttachedOK
  <2>4. \A f \in clients' : conn'[f] \notin down' =>
         /\ registry'[f] = None => accepted'[conn'[f]] = <<>>
         /\ \A v \in Writers : writer'[v].conn = conn'[f] => v = registry'[f]
    BY <2>1, <2>2 DEF AttachedOK, WritersOK
  <2>5. AttachedOK'
    BY <2>1, <2>3, <2>4 DEF AttachedOK
  <2>6. StreamsOK'
    BY <2>1 DEF StreamsOK
  <2>7. QED
    BY <2>1, <2>5, <2>6
<1>2. ASSUME NEW fd \in Fds, CloseNumber(fd)
      PROVE  /\ AttachedOK' /\ StreamsOK' /\ UNCHANGED <<accepted, wire>>
             /\ down' = down \/ down' = down \cup {conn[fd]}
             /\ conn[fd] \in Conns
  <2>1. /\ conn[fd] \in Conns /\ fd \notin clients
        /\ \A f \in Fds : conn'[f] = IF f = fd THEN None ELSE conn[f]
        /\ down' = down \/ down' = down \cup {conn[fd]}
        /\ UNCHANGED <<clients, registry, writer, accepted, wire>>
    BY <1>2 DEF CloseNumber, WritersOK
  <2>2. registry[fd] = None
    BY <2>1 DEF AttachedOK
  <2>3. AttachedOK'
    <3>1. \A f, g \in Fds : conn'[f] = conn'[g] /\ conn'[f] # None => f = g
      BY <2>1 DEF AttachedOK
    <3>2. \A f \in Fds : registry'[f] # None =>
            f \in clients' /\ writer'[registry'[f]].conn = conn'[f]
      BY <2>1, <2>2 DEF AttachedOK
    <3>3. \A f \in clients' : conn'[f] \notin down' =>
           /\ registry'[f] = None => accepted'[conn'[f]] = <<>>
           /\ \A v \in Writers : writer'[v].conn = conn'[f] => v = registry'[f]
      BY <2>1 DEF AttachedOK, WritersOK
    <3>4. QED
      BY <2>1, <3>1, <3>2, <3>3 DEF AttachedOK
  <2>4. StreamsOK'
    BY <2>1 DEF StreamsOK
  <2>5. QED
    BY <2>1, <2>3, <2>4
<1>3. ASSUME NEW c \in Conns, PeerCloses(c)
      PROVE  AttachedOK' /\ StreamsOK' /\ UNCHANGED <<accepted, wire>> /\ down' = down \cup {c}
  BY <1>3 DEF PeerCloses, AttachedOK, StreamsOK, hostVars
<1>4. QED
  BY <1>1, <1>2, <1>3

(* A packet is accepted: by the one writer of a connection that is up, or by any
   writer of one that is down. *)
LEMMA EnqueueStreams ==
    ASSUME WritersOK, AttachedOK, StreamsOK, NEW fd \in Fds, NEW w \in Writers,
           NEW n \in Lengths, Enqueue(fd, w, n)
    PROVE  /\ AttachedOK' /\ StreamsOK' /\ UNCHANGED <<wire, down>>
           /\ \E c \in Conns : accepted' = [accepted EXCEPT ![c] = Append(@, n)]
<1> USE NoneAssumption
<1>1. PICK c \in Conns : c = conn[fd]
  BY DEF Enqueue, WritersOK
<1>2. PICK a : a = accepted[c]
  OBVIOUS
<1>3. PICK x : x = IF registry[fd] = w THEN writer[w] ELSE NewWriter(c)
  OBVIOUS
<1>4. PICK packet : packet = [kind |-> "packet", number |-> Len(a) + 1, length |-> n]
  OBVIOUS
<1>5. PICK y : y = Queued(x, packet)
  OBVIOUS
<1>6. /\ fd \in clients /\ ~x.cancelled /\ WriterFor(fd, w) /\ Len(a) < MaxSends
      /\ writer' = [writer EXCEPT ![w] = y] /\ registry' = [registry EXCEPT ![fd] = w]
      /\ accepted' = [accepted EXCEPT ![c] = Append(a, n)]
      /\ UNCHANGED <<conn, clients, wire, down>>
  BY <1>1, <1>2, <1>3, <1>4, <1>5 DEF Enqueue, Set
<1>7. /\ \A v \in Writers : writer'[v] = IF v = w THEN y ELSE writer[v]
      /\ \A f \in Fds : registry'[f] = IF f = fd THEN w ELSE registry[f]
      /\ \A d \in Conns : accepted'[d] = IF d = c THEN Append(a, n) ELSE accepted[d]
  BY <1>6 DEF WritersOK
<1>8. /\ a \in Seq(Lengths) /\ Len(a) \in Nat /\ wire[c] \in Seq(Nat \X Nat)
      /\ Len(wire[c]) <= Len(a) /\ Len(Append(a, n)) = Len(a) + 1
  BY <1>2, AppendProperties, LenProperties DEF WritersOK, StreamsOK
<1>9. packet \in Packet /\ packet.number = Len(a) + 1 /\ packet.length = n
  <2>1. Len(a) + 1 \in 1..MaxSends
    BY <1>6, <1>8, BoundsAssumption
  <2>2. QED
    BY <1>4, <2>1 DEF Packet
<1>10. /\ NewWriter(c) \in WriterRecord /\ NewWriter(c).conn = c
       /\ NewWriter(c).queue = <<>> /\ NewWriter(c).pc = "idle" /\ NewWriter(c).sent = 0
       /\ QueueOK(NewWriter(c))
  <2>1. /\ FreeWriter \in WriterRecord /\ FreeWriter.queue = <<>> /\ FreeWriter.pc = "idle"
        /\ FreeWriter.sent = 0
    BY DEF FreeWriter, WriterRecord, WorkerState
  <2>2. /\ NewWriter(c) \in WriterRecord /\ NewWriter(c).conn = c
        /\ NewWriter(c).queue = <<>> /\ NewWriter(c).pc = "idle" /\ NewWriter(c).sent = 0
    BY <1>1, <2>1 DEF NewWriter, WriterRecord
  <2>3. QED
    BY <2>2 DEF QueueOK
<1>11. x \in WriterRecord /\ QueueOK(x) /\ x.conn = c
  <2>1. CASE registry[fd] = w
    BY <1>1, <1>3, <2>1 DEF WritersOK, AttachedOK
  <2>2. CASE registry[fd] # w
    BY <1>3, <1>10, <2>2
  <2>3. QED
    BY <2>1, <2>2
<1>12. y.conn = c
  <2>1. \A z \in WriterRecord : Queued(z, packet).conn = z.conn
    BY DEF Queued, WriterRecord
  <2>2. QED
    BY <1>5, <1>11, <2>1
<1>13. registry[fd] # w => /\ registry[fd] = None /\ writer[w] = FreeWriter
                           /\ \A f \in Fds : registry[f] # w
  BY <1>6 DEF WriterFor, Registered
<1>14. ASSUME c \notin down, registry[fd] # w
       PROVE  a = <<>> /\ wire[c] = <<>> /\ \A v \in Writers : writer[v].conn # c
  <2>1. a = <<>> /\ \A v \in Writers : writer[v].conn # c
    BY <1>1, <1>2, <1>6, <1>13, <1>14 DEF AttachedOK
  <2>2. Len(a) = 0
    BY <2>1
  <2>3. QED
    BY <1>8, <2>1, <2>2, EmptySeq, LenProperties
<1>15. c \notin down => \A v \in Writers : v # w => writer[v].conn # c
  BY <1>1, <1>6, <1>14 DEF AttachedOK
<1>16. c \notin down => InStream(x, a, wire[c])
  <2>1. CASE registry[fd] = w
    BY <1>1, <1>2, <1>3, <1>11, <2>1 DEF StreamsOK
  <2>2. CASE registry[fd] # w /\ c \notin down
    <3>1. Len(a) = 0 /\ Len(wire[c]) = 0 /\ Len(x.queue) = 0 /\ wire[c] = <<>>
      BY <1>3, <1>10, <1>14, <2>2
    <3>2. NumbersOK(x, a)
      BY <3>1 DEF NumbersOK
    <3>3. x.pc = "idle" /\ x.sent = 0
      BY <1>3, <1>10, <2>2
    <3>4. QED
      BY <3>1, <3>2, <3>3 DEF InStream, StandsOK, Full
  <2>3. QED
    BY <2>1, <2>2
<1>17. c \notin down => InStream(y, Append(a, n), wire[c])
  BY <1>5, <1>6, <1>8, <1>9, <1>11, <1>16, QueuedStream
<1>18. AttachedOK'
  <2>1. \A f \in Fds : registry'[f] # None =>
          f \in clients' /\ writer'[registry'[f]].conn = conn'[f]
    <3> SUFFICES ASSUME NEW f \in Fds, registry'[f] # None
                 PROVE  f \in clients' /\ writer'[registry'[f]].conn = conn'[f]
      OBVIOUS
    <3>1. CASE f = fd
      BY <1>1, <1>6, <1>7, <1>12, <3>1
    <3>2. CASE f # fd
      <4>1. registry'[f] = registry[f] /\ registry[f] \in Writers
        BY <1>7, <3>2 DEF WritersOK
      <4>2. f \in clients /\ writer[registry[f]].conn = conn[f]
        BY <4>1 DEF AttachedOK
      <4>3. registry[f] = w => FALSE
        <5>1. registry[f] = w => registry[fd] = w
          BY <1>13
        <5>2. registry[f] = w => conn[f] = conn[fd]
          BY <4>2, <5>1 DEF AttachedOK
        <5>3. QED
          BY <1>1, <3>2, <5>2 DEF AttachedOK
      <4>4. QED
        BY <1>6, <1>7, <4>1, <4>2, <4>3
    <3>3. QED
      BY <3>1, <3>2
  <2>2. \A v \in Writers : writer'[v].queue # <<>> => writer'[v].conn \in Conns
    BY <1>7, <1>12 DEF AttachedOK
  <2>3. ASSUME NEW f \in clients', conn'[f] \notin down'
        PROVE  /\ registry'[f] = None => accepted'[conn'[f]] = <<>>
               /\ \A v \in Writers : writer'[v].conn = conn'[f] => v = registry'[f]
    <3>1. f \in Fds /\ f \in clients /\ conn[f] \in Conns /\ conn'[f] = conn[f] /\ down' = down
      BY <1>6, <2>3 DEF WritersOK
    <3>2. CASE f = fd
      BY <1>1, <1>6, <1>7, <1>15, <2>3, <3>1, <3>2
    <3>3. CASE f # fd
      <4>1. conn[f] # c
        BY <1>1, <3>1, <3>3 DEF AttachedOK
      <4>2. registry'[f] = registry[f] /\ accepted'[conn[f]] = accepted[conn[f]]
        BY <1>7, <3>1, <3>3, <4>1
      <4>3. \A v \in Writers : writer'[v].conn = conn[f] => writer[v].conn = conn[f]
        BY <1>7, <1>12, <4>1
      <4>4. /\ registry[f] = None => accepted[conn[f]] = <<>>
            /\ \A v \in Writers : writer[v].conn = conn[f] => v = registry[f]
        BY <2>3, <3>1 DEF AttachedOK
      <4>5. QED
        BY <3>1, <4>2, <4>3, <4>4
    <3>4. QED
      BY <3>2, <3>3
  <2>4. ASSUME NEW u \in Writers, NEW v \in Writers, writer'[u].conn = writer'[v].conn,
               writer'[u].conn \in Conns \ down'
        PROVE  u = v
    BY <1>6, <1>7, <1>12, <1>15, <2>4 DEF AttachedOK
  <2>5. QED
    BY <1>6, <2>1, <2>2, <2>3, <2>4 DEF AttachedOK
<1>19. ASSUME NEW v \in Writers, writer'[v].conn \in Conns \ down'
       PROVE  InStream(writer'[v], accepted'[writer'[v].conn], wire'[writer'[v].conn])
  <2>1. CASE v = w
    BY <1>6, <1>7, <1>12, <1>17, <1>19, <2>1
  <2>2. CASE v # w
    <3>1. writer'[v] = writer[v] /\ writer[v].conn \in Conns \ down
      BY <1>6, <1>7, <1>19, <2>2
    <3>2. writer[v].conn # c
      BY <1>15, <2>2, <3>1
    <3>3. QED
      BY <1>6, <1>7, <3>1, <3>2 DEF StreamsOK
  <2>3. QED
    BY <2>1, <2>2
<1>20. \A d \in Conns : Len(wire'[d]) <= Len(accepted'[d])
  <2> SUFFICES ASSUME NEW d \in Conns PROVE Len(wire[d]) <= Len(accepted'[d])
    BY <1>6
  <2>1. CASE d = c
    <3>1. Len(wire[c]) \in Nat
      BY <1>8, LenProperties
    <3>2. Len(wire[c]) <= Len(a) + 1
      BY <1>8, <3>1
    <3>3. QED
      BY <1>7, <1>8, <2>1, <3>2
  <2>2. CASE d # c
    BY <1>7, <2>2 DEF StreamsOK
  <2>3. QED
    BY <2>1, <2>2
<1>21. QED
  BY <1>2, <1>6, <1>18, <1>19, <1>20 DEF StreamsOK

-----------------------------------------------------------------------------
(* Every step keeps the invariant and is a step of OrderedStreams or leaves the
   streams alone. *)
LEMMA StreamsStep ==
    ASSUME WritersOK, AttachedOK, StreamsOK, [Next]_vars
    PROVE  AttachedOK' /\ StreamsOK' /\ [Streams!Next]_(Streams!streams)
<1> USE DEF Streams!streams
<1>1. ASSUME UNCHANGED <<accepted, wire>>,
             down' = down \/ \E c \in Conns : down' = down \cup {c}
      PROVE  [Streams!Next]_(Streams!streams)
  BY <1>1 DEF Streams!Next, Streams!Break
<1>2. CASE UNCHANGED vars
  BY <1>2 DEF vars, hostVars, AttachedOK, StreamsOK
<1>3. ASSUME NEW fd \in Fds, NEW w \in Writers, NEW n \in Lengths, Enqueue(fd, w, n)
      PROVE  AttachedOK' /\ StreamsOK' /\ [Streams!Next]_(Streams!streams)
  <2>1. AttachedOK' /\ StreamsOK' /\ UNCHANGED <<wire, down>>
    BY <1>3, EnqueueStreams
  <2>2. PICK c \in Conns : accepted' = [accepted EXCEPT ![c] = Append(@, n)]
    BY <1>3, EnqueueStreams
  <2>3. Streams!Accept(c, n)
    BY <2>1, <2>2 DEF Streams!Accept
  <2>4. QED
    BY <2>1, <2>3 DEF Streams!Next
<1>4. ASSUME NEW fd \in Fds, Reject(fd) \/ CancelDisplayWriter(fd)
      PROVE  AttachedOK' /\ StreamsOK' /\ [Streams!Next]_(Streams!streams)
  <2>1. /\ UNCHANGED <<conn, accepted, wire>> /\ fd \in clients /\ conn[fd] \in Conns
        /\ down' = down \/ down' = down \cup {conn[fd]}
        /\ conn[fd] \in down' \/ fd \notin clients'
        /\ clients' \subseteq clients /\ clients \ {fd} \subseteq clients'
        /\ registry' = [registry EXCEPT ![fd] = None]
        /\ IF registry[fd] = None THEN UNCHANGED writer
                                  ELSE Set(registry[fd], Cancel(writer[registry[fd]]))
    BY <1>4 DEF Reject, CancelDisplayWriter, WritersOK
  <2>2. down \subseteq down' /\ down' \subseteq Conns
    BY <2>1 DEF StreamsOK
  <2>3. AttachedOK' /\ StreamsOK'
    BY <2>1, <2>2, UnregisterStreams
  <2>4. QED
    BY <1>1, <2>1, <2>3
<1>5. CASE \/ \E fd \in Fds, c \in Conns : Accept(fd, c)
           \/ \E fd \in Fds : CloseNumber(fd)
           \/ \E c \in Conns : PeerCloses(c)
  <2>1. /\ AttachedOK' /\ StreamsOK' /\ UNCHANGED <<accepted, wire>>
        /\ down' = down \/ \E c \in Conns : down' = down \cup {c}
    BY <1>5, NumberStreams
  <2>2. QED
    BY <1>1, <2>1
<1>6. ASSUME NEW w \in Writers,
             Worker(w) \/ SendBlocks(w) \/ DeadlinePasses(w) \/ Dealloc(w)
      PROVE  AttachedOK' /\ StreamsOK' /\ [Streams!Next]_(Streams!streams)
  <2>1. CASE SendSome(w)
    BY <2>1, SendStreams DEF Streams!Next
  <2>2. CASE Dealloc(w)
    BY <1>1, <2>2, DeallocStreams
  <2>3. CASE ~SendSome(w) /\ ~Dealloc(w)
    <3>1. /\ AttachedOK' /\ StreamsOK' /\ UNCHANGED <<accepted, wire>>
          /\ down' = down \/ \E c \in Conns : down' = down \cup {c}
      BY <1>6, <2>3, WorkerStreams
    <3>2. QED
      BY <1>1, <3>1
  <2>4. QED
    BY <2>1, <2>2, <2>3
<1>7. QED
  BY <1>2, <1>3, <1>4, <1>5, <1>6 DEF Next

(* The writers of a connection implement one ordered stream of the packets
   accepted for it (OrderedStreams): whatever is cancelled, refused, timed out or
   closed, a connection never carries a packet out of order, behind a gap, or
   after one that was cut off. *)
THEOREM WritersImplementStreams == Spec => ImplementsOrderedStreams
<1>1. Init => WritersOK /\ AttachedOK /\ StreamsOK /\ Streams!Init
  <2> SUFFICES ASSUME Init PROVE WritersOK /\ AttachedOK /\ StreamsOK /\ Streams!Init
    OBVIOUS
  <2>1. FreeWriter \in WriterRecord /\ QueueOK(FreeWriter) /\ FreeWriter.queue = <<>>
        /\ FreeWriter.conn = None
    BY DEF FreeWriter, WriterRecord, QueueOK, WorkerState
  <2>2. WritersOK
    BY <2>1 DEF Init, WritersOK
  <2>3. AttachedOK
    BY <2>1, NoneAssumption DEF Init, AttachedOK
  <2>4. StreamsOK
    BY <2>1, NoneAssumption DEF Init, StreamsOK
  <2>5. Streams!Init
    BY DEF Init, Streams!Init
  <2>6. QED
    BY <2>2, <2>3, <2>4, <2>5
<1>2. WritersOK /\ AttachedOK /\ StreamsOK /\ [Next]_vars =>
        (WritersOK /\ AttachedOK /\ StreamsOK)'
  BY WritersOKStep, StreamsStep
<1>3. WritersOK /\ AttachedOK /\ StreamsOK /\ [Next]_vars => [Streams!Next]_(Streams!streams)
  BY StreamsStep
<1>4. QED
  BY <1>1, <1>2, <1>3, PTL DEF Spec, ImplementsOrderedStreams, Streams!Spec


-----------------------------------------------------------------------------
(* The bytes of a queue. *)

LEMMA PacketBytesType == \A b \in Block : PacketBytes(b) \in Nat
BY LengthsAssumption, BlockKinds DEF PacketBytes

LEMMA QueueBytesSum ==
    ASSUME NEW q \in Seq(Block)
    PROVE  LET f == [i \in DOMAIN q |-> PacketBytes(q[i])] IN
           /\ QueueBytes(q) = SumFunctionOnSet(f, 1..Len(q))
           /\ Len(q) \in Nat /\ IsFiniteSet(1..Len(q))
           /\ \A i \in 1..Len(q) : f[i] = PacketBytes(q[i]) /\ f[i] \in Nat
           /\ QueueBytes(q) \in Nat
<1> DEFINE f == [i \in DOMAIN q |-> PacketBytes(q[i])]
<1>1. DOMAIN q = 1..Len(q) /\ Len(q) \in Nat /\ \A i \in 1..Len(q) : q[i] \in Block
  BY LenProperties, ElementOfSeq
<1>2. QueueBytes(q) = SumFunctionOnSet(f, 1..Len(q))
  BY <1>1 DEF QueueBytes, SumFunction
<1>3. IsFiniteSet(1..Len(q))
  BY <1>1, FS_Interval
<1>4. \A i \in 1..Len(q) : f[i] = PacketBytes(q[i]) /\ f[i] \in Nat
  BY <1>1, PacketBytesType
<1> HIDE DEF f
<1>5. QueueBytes(q) \in Nat
  BY <1>2, <1>3, <1>4, SumType
<1> QED BY <1>1, <1>2, <1>3, <1>4, <1>5 DEF f

LEMMA EmptyBytes == QueueBytes(<<>>) = 0
<1>1. QueueBytes(<<>>) = SumFunctionOnSet([i \in DOMAIN <<>> |-> PacketBytes(<<>>[i])], {})
  BY DEF QueueBytes, SumFunction
<1> QED BY <1>1, SumOfNothing

LEMMA AppendBytes ==
    ASSUME NEW q \in Seq(Block), NEW b \in Block
    PROVE  QueueBytes(Append(q, b)) = QueueBytes(q) + PacketBytes(b)
<1> DEFINE r == Append(q, b)
           n == Len(q)
           f == [i \in DOMAIN q |-> PacketBytes(q[i])]
           g == [i \in DOMAIN r |-> PacketBytes(r[i])]
<1>1. /\ r \in Seq(Block) /\ Len(r) = n + 1 /\ r[n + 1] = b /\ n \in Nat
      /\ \A i \in 1..n : r[i] = q[i]
  BY AppendProperties
<1>2. /\ QueueBytes(q) = SumFunctionOnSet(f, 1..n) /\ IsFiniteSet(1..n)
      /\ \A i \in 1..n : f[i] = PacketBytes(q[i]) /\ f[i] \in Nat
      /\ QueueBytes(q) \in Nat
  BY QueueBytesSum
<1>3. /\ QueueBytes(r) = SumFunctionOnSet(g, 1..Len(r))
      /\ \A i \in 1..Len(r) : g[i] = PacketBytes(r[i]) /\ g[i] \in Nat
  <2> HIDE DEF r
  <2> QED BY <1>1, QueueBytesSum
<1> HIDE DEF r, f, g
<1> DEFINE S == 1..n
           T == 1..Len(r)
           x == n + 1
<1>4. x \notin S /\ T = S \cup {x} /\ g[x] = PacketBytes(b) /\ g[x] \in Nat
  BY <1>1, <1>3
<1>5. \A i \in S : f[i] \in Nat /\ g[i] = f[i]
  BY <1>1, <1>2, <1>3
<1>6. IsFiniteSet(S)
  BY <1>2
<1> HIDE DEF S, T, x
<1>7. SumFunctionOnSet(g, T) = g[x] + SumFunctionOnSet(f, S)
  BY <1>4, <1>5, <1>6, SumAdd
<1>8. QueueBytes(r) = PacketBytes(b) + QueueBytes(q) /\ PacketBytes(b) \in Nat
  BY <1>2, <1>3, <1>4, <1>7 DEF S, T
<1> QED BY <1>2, <1>8 DEF r

LEMMA TailBytes ==
    ASSUME NEW q \in Seq(Block), q # <<>>
    PROVE  QueueBytes(q) = QueueBytes(Tail(q)) + PacketBytes(q[1])
<1> DEFINE r == Tail(q)
           n == Len(r)
           f == [i \in DOMAIN q |-> PacketBytes(q[i])]
           g == [i \in DOMAIN r |-> PacketBytes(r[i])]
<1>1. /\ r \in Seq(Block) /\ Len(q) = n + 1 /\ n \in Nat
      /\ \A i \in 1..n : r[i] = q[i + 1]
  BY HeadTailProperties, LenProperties
<1>2. /\ QueueBytes(q) = SumFunctionOnSet(f, 1..Len(q)) /\ IsFiniteSet(1..Len(q))
      /\ \A i \in 1..Len(q) : f[i] = PacketBytes(q[i]) /\ f[i] \in Nat
  BY QueueBytesSum
<1>3. /\ QueueBytes(r) = SumFunctionOnSet(g, 1..n) /\ QueueBytes(r) \in Nat
      /\ \A i \in 1..n : g[i] = PacketBytes(r[i]) /\ g[i] \in Nat
  <2> HIDE DEF r
  <2> QED BY <1>1, QueueBytesSum
<1> HIDE DEF r, f, g
<1>4. \A i \in 1..n : g[i] = f[i + 1] /\ g[i] \in Nat
  BY <1>1, <1>2, <1>3
<1>5. SumFunctionOnSet(f, 2..n + 1) = SumFunctionOnSet(g, 1..n)
  <2> HIDE DEF n
  <2> QED BY <1>1, <1>4, SumShifted
<1> DEFINE S == 1..Len(q)
           T == 2..n + 1
<1>6. 1 \in S /\ S \ {1} = T /\ f[1] = PacketBytes(q[1]) /\ f[1] \in Nat
  BY <1>1, <1>2
<1>7. IsFiniteSet(S) /\ \A i \in S : f[i] \in Nat
  BY <1>2
<1> HIDE DEF S, T, n
<1>8. SumFunctionOnSet(f, S) = f[1] + SumFunctionOnSet(f, T)
  BY <1>6, <1>7, SumRemove
<1>9. QueueBytes(q) = PacketBytes(q[1]) + QueueBytes(r) /\ PacketBytes(q[1]) \in Nat
  BY <1>2, <1>3, <1>5, <1>6, <1>8 DEF S, T
<1> QED BY <1>3, <1>9 DEF r

-----------------------------------------------------------------------------
(* The budget.  What is reserved is what is queued, and it is within the limits. *)

LimitsHold == /\ \A w \in Writers : writer[w].bytes <= Limit /\ writer[w].packets <= MaxPackets
              /\ buffered <= GlobalBytes

BudgetOK == BytesAreConserved /\ LimitsHold

(* The writer of a step gets another record, and the process counter follows. *)
LEMMA SetBudget ==
    ASSUME WritersOK, BudgetOK, NEW w \in Writers, NEW y \in WriterRecord, Set(w, y),
           y.bytes = QueueBytes(y.queue), y.bytes <= Limit, y.packets <= MaxPackets,
           buffered' = buffered - writer[w].bytes + y.bytes, buffered' <= GlobalBytes
    PROVE  BudgetOK'
<1> DEFINE f == [v \in Writers |-> QueuedBytes(v)]
           g == [v \in Writers |-> QueuedBytes(v)']
<1>1. writer \in [Writers -> WriterRecord] /\ writer' = [writer EXCEPT ![w] = y]
  BY DEF WritersOK, Set
<1>2. \A v \in Writers : writer[v].queue \in Seq(Block) /\ writer'[v].queue \in Seq(Block)
  BY <1>1 DEF WriterRecord
<1>3. \A v \in Writers : f[v] \in Nat /\ g[v] \in Nat
  BY <1>2, QueueBytesSum DEF QueuedBytes
<1>4. \A v \in Writers \ {w} : f[v] = g[v]
  BY <1>1 DEF QueuedBytes
<1>5. f[w] = writer[w].bytes /\ g[w] = y.bytes
  BY <1>1 DEF QueuedBytes, BudgetOK, BytesAreConserved
<1>6. buffered = SumFunctionOnSet(f, Writers)
  BY DEF BudgetOK, BytesAreConserved, SumFunction
<1>7. SumFunctionOnSet(g, Writers) = SumFunctionOnSet(f, Writers) - f[w] + g[w]
  <2> HIDE DEF f, g
  <2>1. IsFiniteSet(Writers)
    BY FiniteAssumption
  <2> QED BY ONLY <1>3, <1>4, <2>1, w \in Writers, SumChange
<1>8. buffered' = SumFunctionOnSet(g, Writers)
  BY <1>5, <1>6, <1>7
<1>9. \A v \in Writers : writer'[v].bytes = QueuedBytes(v)'
  BY <1>1 DEF QueuedBytes, BudgetOK, BytesAreConserved
<1>10. BytesAreConserved'
  BY <1>8, <1>9 DEF BytesAreConserved, SumFunction
<1>11. LimitsHold'
  BY <1>1 DEF BudgetOK, LimitsHold
<1> QED BY <1>10, <1>11 DEF BudgetOK

LEMMA BufferedType ==
    ASSUME WritersOK, BudgetOK
    PROVE  /\ buffered \in Nat /\ buffered <= GlobalBytes
           /\ \A w \in Writers : /\ writer[w].bytes \in Nat /\ writer[w].bytes <= buffered
                                 /\ writer[w].bytes = QueueBytes(writer[w].queue)
<1> DEFINE f == [v \in Writers |-> QueuedBytes(v)]
<1>1. \A v \in Writers : f[v] \in Nat /\ f[v] = writer[v].bytes /\ f[v] = QueueBytes(writer[v].queue)
  BY QueueBytesSum DEF QueuedBytes, WritersOK, WriterRecord, BudgetOK, BytesAreConserved
<1>2. buffered = SumFunctionOnSet(f, Writers)
  BY DEF BudgetOK, BytesAreConserved, SumFunction
<1> HIDE DEF f
<1>3. buffered \in Nat /\ \A v \in Writers : f[v] <= buffered
  BY <1>1, <1>2, FiniteAssumption, SumType, SumBounds
<1> QED BY <1>1, <1>3 DEF BudgetOK, LimitsHold

LEMMA SameBudget ==
    ASSUME WritersOK, BudgetOK, NEW w \in Writers, NEW y \in WriterRecord, Set(w, y),
           y.bytes = writer[w].bytes, y.packets = writer[w].packets,
           QueueBytes(y.queue) = QueueBytes(writer[w].queue), buffered' = buffered
    PROVE  BudgetOK'
<1>1. /\ writer[w].bytes = QueueBytes(writer[w].queue) /\ writer[w].bytes <= Limit
      /\ writer[w].packets <= MaxPackets /\ buffered <= GlobalBytes
  BY DEF BudgetOK, BytesAreConserved, LimitsHold, QueuedBytes
<1>2. buffered' = buffered - writer[w].bytes + y.bytes
  BY BufferedType
<1> QED BY <1>1, <1>2, SetBudget

LEMMA CancelBudget ==
    ASSUME WritersOK, BudgetOK, NEW w \in Writers, Set(w, Cancel(writer[w])),
           buffered' = buffered
    PROVE  BudgetOK'
<1> DEFINE x == writer[w]
           y == Cancel(x)
<1>1. x \in WriterRecord /\ QueueOK(x) /\ x.queue \in Seq(Block)
  BY DEF WritersOK, WriterRecord
<1>2. y \in WriterRecord
  BY <1>1, CancelKeeps
<1> DEFINE q == Append(x.queue, CloseBlock)
<1>3. y.bytes = x.bytes /\ y.packets = x.packets /\ y.queue = q
  BY <1>1 DEF Cancel, WriterRecord
<1>4. QueueBytes(q) = QueueBytes(x.queue)
  <2>1. QueueBytes(q) = QueueBytes(x.queue) + PacketBytes(CloseBlock)
    BY <1>1, BlockKinds, AppendBytes
  <2>2. PacketBytes(CloseBlock) = 0 /\ QueueBytes(x.queue) \in Nat
    BY <1>1, QueueBytesSum DEF PacketBytes, CloseBlock
  <2> QED BY <2>1, <2>2
<1> HIDE DEF q, y
<1> QED BY <1>2, <1>3, <1>4, SameBudget DEF y

LEMMA EnqueueBudget ==
    ASSUME WritersOK, BudgetOK, NEW fd \in Fds, NEW w \in Writers, NEW n \in Lengths,
           Enqueue(fd, w, n)
    PROVE  BudgetOK'
<1> USE NoneAssumption, BoundsAssumption
<1> DEFINE c == conn[fd]
           x == IF registry[fd] = w THEN writer[w] ELSE NewWriter(c)
           packet == [kind |-> "packet", number |-> Len(accepted[c]) + 1, length |-> n]
           y == Queued(x, packet)
<1>1. c \in Conns
  BY DEF Enqueue, WritersOK
<1>2. packet \in Packet /\ packet \in Block
  <2>1. Len(accepted[c]) \in Nat /\ Len(accepted[c]) < MaxSends
    BY <1>1, LenProperties DEF Enqueue, WritersOK
  <2>2. Len(accepted[c]) + 1 \in 1..MaxSends
    BY <2>1
  <2> QED BY <2>2 DEF Packet, Block
<1>3. /\ x \in WriterRecord /\ x.bytes = writer[w].bytes /\ x.queue = writer[w].queue
  <2>1. CASE registry[fd] = w
    BY <2>1 DEF WritersOK
  <2>2. CASE registry[fd] # w
    <3>1. writer[w] = FreeWriter
      BY <2>2 DEF Enqueue, WriterFor
    <3>2. FreeWriter \in WriterRecord
      BY DEF FreeWriter, WriterRecord, WorkerState
    <3> HIDE DEF c
    <3>3. /\ NewWriter(c) \in WriterRecord /\ NewWriter(c).bytes = FreeWriter.bytes
          /\ NewWriter(c).queue = FreeWriter.queue
      BY <1>1, <3>2 DEF NewWriter, WriterRecord
    <3> QED BY <2>2, <3>1, <3>3
  <2> QED BY <2>1, <2>2
<1>4. n \in Nat /\ PacketBytes(packet) = n
  BY LengthsAssumption DEF PacketBytes
<1>5. /\ Set(w, y) /\ buffered' = buffered + n /\ x.bytes <= Limit - n
      /\ x.packets < MaxPackets /\ buffered <= GlobalBytes - n
  BY DEF Enqueue, Fits
<1>6. packet.length = n
  OBVIOUS
<1> HIDE DEF x, c, packet
<1>7. /\ y.bytes = x.bytes + n /\ y.packets = x.packets + 1
      /\ y.queue = Append(x.queue, packet)
  BY <1>3, <1>6 DEF Queued, WriterRecord
<1>8. /\ buffered \in Nat /\ x.bytes \in Nat /\ x.bytes = QueueBytes(x.queue)
      /\ x.queue \in Seq(Block) /\ x.packets \in Int
  BY <1>3, BufferedType DEF WriterRecord
<1>9. y \in WriterRecord
  <2>1. Append(x.queue, packet) \in Seq(Block) /\ x.bytes + n \in Int /\ x.packets + 1 \in Int
    BY <1>2, <1>4, <1>8, AppendProperties
  <2>2. y = [x EXCEPT !.queue = Append(x.queue, packet), !.packets = x.packets + 1,
                      !.bytes = x.bytes + n]
    BY <1>3, <1>6 DEF Queued, WriterRecord
  <2> HIDE DEF y
  <2> QED BY <1>3, <2>1, <2>2 DEF WriterRecord
<1>10. y.bytes = QueueBytes(y.queue)
  BY <1>2, <1>4, <1>7, <1>8, AppendBytes
<1>11. y.bytes <= Limit /\ y.packets <= MaxPackets
  <2>1. x.packets \in Int /\ x.packets < MaxPackets /\ x.bytes \in Nat /\ x.bytes <= Limit - n
    BY <1>5, <1>8
  <2>2. x.packets + 1 <= MaxPackets
    BY <2>1
  <2>3. x.bytes + n <= Limit
    BY <1>4, <2>1
  <2> HIDE DEF y
  <2> QED BY <1>7, <2>2, <2>3
<1>12. buffered' = buffered - writer[w].bytes + y.bytes /\ buffered' <= GlobalBytes
  BY <1>3, <1>4, <1>5, <1>7, <1>8
<1> HIDE DEF y
<1> QED BY <1>5, <1>9, <1>10, <1>11, <1>12, SetBudget

LEMMA WorkerBudget ==
    ASSUME WritersOK, BudgetOK, NEW w \in Writers,
           Worker(w) \/ SendBlocks(w) \/ DeadlinePasses(w) \/ Dealloc(w)
    PROVE  BudgetOK'
<1> DEFINE x == writer[w]
<1>0. /\ x \in WriterRecord /\ QueueOK(x) /\ x.queue \in Seq(Block)
      /\ x.bytes \in Nat /\ x.packets \in Int /\ x.bytes = QueueBytes(x.queue)
      /\ buffered \in Nat /\ x.bytes <= buffered /\ buffered <= GlobalBytes
      /\ x.bytes <= Limit /\ x.packets <= MaxPackets
  BY BufferedType DEF WritersOK, WriterRecord, BudgetOK, LimitsHold
<1>1. CASE \/ BlockStarts(w) \/ WriteChecks(w) \/ SendFails(w) \/ SendBlocks(w)
           \/ ShutDown(w) \/ SendSome(w) \/ WriterFails(w) \/ DeadlinePasses(w)
  <2>1. \E y \in WriterRecord : /\ Set(w, y) /\ y.bytes = x.bytes /\ y.packets = x.packets
                                /\ y.queue = x.queue
    <3>1. ASSUME NEW pc \in WorkerState, Goto(w, pc)
          PROVE  \E y \in WriterRecord : /\ Set(w, y) /\ y.bytes = x.bytes
                                         /\ y.packets = x.packets /\ y.queue = x.queue
      <4> DEFINE y == [x EXCEPT !.pc = pc]
      <4>1. Set(w, y)
        BY <3>1 DEF Goto, Set
      <4>2. y \in WriterRecord /\ y.bytes = x.bytes /\ y.packets = x.packets /\ y.queue = x.queue
        BY <1>0 DEF WriterRecord
      <4> QED BY <4>1, <4>2
    <3>2. CASE BlockStarts(w) \/ WriteChecks(w) \/ SendFails(w) \/ SendBlocks(w) \/ ShutDown(w)
      BY <3>1, <3>2 DEF BlockStarts, WriteChecks, SendFails, SendBlocks, ShutDown, WorkerState
    <3>3. CASE SendSome(w)
      <4>1. PICK n \in 1..First(w).length - x.sent :
               Set(w, [x EXCEPT !.sent = x.sent + n,
                            !.pc = IF x.sent + n = First(w).length THEN "done" ELSE "check"])
        BY <3>3, Zenon DEF SendSome
      <4> DEFINE pc == IF x.sent + n = First(w).length THEN "done" ELSE "check"
                 y == [x EXCEPT !.sent = x.sent + n, !.pc = pc]
      <4>0. pc \in WorkerState /\ x.sent + n \in Int
        BY <1>0 DEF WorkerState, WriterRecord
      <4> HIDE DEF pc
      <4>2. y \in WriterRecord /\ y.bytes = x.bytes /\ y.packets = x.packets /\ y.queue = x.queue
        BY <1>0, <4>0 DEF WriterRecord
      <4> QED BY <4>1, <4>2 DEF pc
    <3>4. CASE WriterFails(w)
      <4> DEFINE y == [x EXCEPT !.cancelled = TRUE,
                                !.pc = IF x.cancelled THEN "done" ELSE "shutdown"]
      <4>1. y \in WriterRecord /\ y.bytes = x.bytes /\ y.packets = x.packets /\ y.queue = x.queue
        BY <1>0 DEF WriterRecord, WorkerState
      <4> QED BY <3>4, <4>1 DEF WriterFails
    <3>5. CASE DeadlinePasses(w)
      <4> DEFINE y == [x EXCEPT !.late = TRUE]
      <4>1. Set(w, y)
        BY <3>5 DEF DeadlinePasses, Set
      <4>2. y \in WriterRecord /\ y.bytes = x.bytes /\ y.packets = x.packets /\ y.queue = x.queue
        BY <1>0 DEF WriterRecord
      <4> QED BY <4>1, <4>2
    <3> QED BY <1>1, <3>2, <3>3, <3>4, <3>5
  <2>2. buffered' = buffered
    <3>1. CASE BlockStarts(w) \/ WriteChecks(w) \/ SendFails(w) \/ SendBlocks(w) \/ ShutDown(w)
      BY <3>1 DEF BlockStarts, WriteChecks, SendFails, SendBlocks, ShutDown
    <3>2. CASE SendSome(w)
      BY <3>2, Zenon DEF SendSome
    <3>3. CASE WriterFails(w) \/ DeadlinePasses(w)
      BY <3>3 DEF WriterFails, DeadlinePasses
    <3> QED BY <1>1, <3>1, <3>2, <3>3
  <2>3. PICK y \in WriterRecord : /\ Set(w, y) /\ y.bytes = x.bytes
                                  /\ y.packets = x.packets /\ y.queue = x.queue
    BY <2>1
  <2> QED BY <2>2, <2>3, SameBudget
<1>2. CASE Release(w)
  <2> DEFINE n == First(w).length
             y == Dequeued(x, n)
  <2>1. /\ x.queue # <<>> /\ x.pc # "idle" /\ Set(w, y) /\ buffered' = buffered - n
    BY <1>2 DEF Release, At
  <2>2. n \in Lengths /\ First(w) = x.queue[1] /\ First(w).kind = "packet"
    BY <2>1, FirstBlock, BlockKinds
  <2>3. n \in Nat /\ PacketBytes(x.queue[1]) = n
    BY <2>2, LengthsAssumption DEF PacketBytes
  <2> HIDE DEF n
  <2>4. Tail(x.queue) \in Seq(Block) /\ QueueBytes(Tail(x.queue)) \in Nat
    BY <1>0, <2>1, TailKeeps, QueueBytesSum
  <2>5. n \in Int
    BY <2>3
  <2>6. /\ y \in WriterRecord /\ y.queue = Tail(x.queue)
        /\ y.bytes = x.bytes - n /\ y.packets = x.packets - 1
    BY <1>0, <2>4, <2>5, DequeuedRecord
  <2>7. x.bytes = QueueBytes(Tail(x.queue)) + n
    BY <1>0, <2>1, <2>3, TailBytes
  <2> HIDE DEF x, y
  <2>8. y.bytes = QueueBytes(y.queue) /\ y.bytes <= Limit /\ y.packets <= MaxPackets
    <3> DEFINE b == x.bytes
               r == QueueBytes(Tail(x.queue))
    <3>0. b \in Nat /\ b <= Limit /\ Limit \in Nat /\ n \in Nat /\ r \in Nat /\ b = r + n
      BY <1>0, <2>3, <2>4, <2>7, BoundsAssumption
    <3> HIDE DEF b, r
    <3>1. b - n = r /\ b - n <= Limit
      BY <3>0
    <3>2. x.packets - 1 <= MaxPackets
      BY <1>0, BoundsAssumption
    <3> QED BY <2>6, <3>1, <3>2 DEF b, r
  <2>9. buffered' = buffered - x.bytes + y.bytes /\ buffered' <= GlobalBytes
    <3>1. /\ buffered - n = buffered - x.bytes + (x.bytes - n)
          /\ buffered - n <= GlobalBytes
      BY <1>0, <2>3, BoundsAssumption
    <3> QED BY <2>1, <2>6, <3>1
  <2> QED BY <2>1, <2>6, <2>8, <2>9, SetBudget DEF x
<1>3. CASE CloseRuns(w)
  <2> DEFINE y == [x EXCEPT !.open = FALSE, !.queue = Tail(x.queue)]
  <2>1. /\ x.queue # <<>> /\ First(w).kind = "close" /\ Set(w, y) /\ buffered' = buffered
    BY <1>3 DEF CloseRuns, At
  <2>2. Tail(x.queue) \in Seq(Block) /\ QueueBytes(Tail(x.queue)) \in Nat
    BY <1>0, <2>1, TailKeeps, QueueBytesSum
  <2>3. /\ y \in WriterRecord /\ y.queue = Tail(x.queue)
        /\ y.bytes = x.bytes /\ y.packets = x.packets
    BY <1>0, <2>2 DEF WriterRecord
  <2>4. PacketBytes(x.queue[1]) = 0
    BY <2>1, FirstBlock DEF PacketBytes
  <2>5. QueueBytes(y.queue) = QueueBytes(x.queue)
    BY <1>0, <2>1, <2>2, <2>3, <2>4, TailBytes
  <2> HIDE DEF y
  <2> QED BY <2>1, <2>3, <2>5, SameBudget
<1>4. CASE Dealloc(w)
  <2>1. Set(w, FreeWriter) /\ buffered' = buffered /\ x.queue = <<>>
    BY <1>4 DEF Dealloc
  <2>2. FreeWriter \in WriterRecord /\ FreeWriter.queue = <<>> /\ FreeWriter.bytes = 0
        /\ FreeWriter.packets = 0
    BY DEF FreeWriter, WriterRecord, WorkerState
  <2>3. x.bytes = 0 /\ QueueBytes(FreeWriter.queue) = 0
    BY <1>0, <2>1, <2>2, EmptyBytes
  <2>4. buffered' = buffered - x.bytes + FreeWriter.bytes
    BY <1>0, <2>1, <2>2, <2>3
  <2> QED BY <1>0, <2>1, <2>2, <2>3, <2>4, BoundsAssumption, SetBudget
<1> QED BY <1>1, <1>2, <1>3, <1>4 DEF Worker

LEMMA BudgetStep ==
    ASSUME WritersOK, BudgetOK, [Next]_vars
    PROVE  BudgetOK'
<1> USE DEF hostVars
<1>1. ASSUME UNCHANGED <<writer, buffered>> PROVE BudgetOK'
  BY <1>1 DEF BudgetOK, BytesAreConserved, LimitsHold, QueuedBytes
<1>2. ASSUME NEW fd \in Fds, NEW w \in Writers, NEW n \in Lengths, Enqueue(fd, w, n)
      PROVE  BudgetOK'
  BY <1>2, EnqueueBudget
<1>3. ASSUME NEW fd \in Fds, Reject(fd) \/ CancelDisplayWriter(fd)
      PROVE  BudgetOK'
  <2>1. /\ buffered' = buffered
        /\ IF registry[fd] = None THEN UNCHANGED writer
                                  ELSE Set(registry[fd], Cancel(writer[registry[fd]]))
    BY <1>3 DEF Reject, CancelDisplayWriter
  <2>2. CASE registry[fd] = None
    BY <1>1, <2>1, <2>2
  <2>3. CASE registry[fd] # None
    <3>1. registry[fd] \in Writers
      BY <2>3 DEF WritersOK
    <3> QED BY <2>1, <2>3, <3>1, CancelBudget
  <2> QED BY <2>2, <2>3
<1>4. ASSUME NEW fd \in Fds, CloseNumber(fd) \/ \E c \in Conns : Accept(fd, c)
      PROVE  BudgetOK'
  BY <1>1, <1>4 DEF CloseNumber, Accept
<1>5. ASSUME NEW c \in Conns, PeerCloses(c)
      PROVE  BudgetOK'
  BY <1>1, <1>5 DEF PeerCloses
<1>6. ASSUME NEW w \in Writers,
             Worker(w) \/ SendBlocks(w) \/ DeadlinePasses(w) \/ Dealloc(w)
      PROVE  BudgetOK'
  BY <1>6, WorkerBudget
<1>7. CASE UNCHANGED vars
  BY <1>1, <1>7 DEF vars
<1> QED BY <1>2, <1>3, <1>4, <1>5, <1>6, <1>7 DEF Next

LEMMA BudgetInvariant == Spec => [](WritersOK /\ BudgetOK)
<1>1. Init => WritersOK /\ BudgetOK
  <2> SUFFICES ASSUME Init PROVE WritersOK /\ BudgetOK
    OBVIOUS
  <2>1. FreeWriter \in WriterRecord /\ QueueOK(FreeWriter)
    BY DEF FreeWriter, WriterRecord, QueueOK, WorkerState
  <2>2. WritersOK
    BY <2>1 DEF Init, WritersOK
  <2>3. \A w \in Writers : /\ writer[w].queue = <<>> /\ writer[w].bytes = 0
                           /\ writer[w].packets = 0
    BY DEF Init, FreeWriter
  <2> DEFINE f == [w \in Writers |-> QueuedBytes(w)]
  <2>4. \A w \in Writers : f[w] = 0
    BY <2>3, EmptyBytes DEF QueuedBytes
  <2>5. SumFunctionOnSet(f, Writers) = 0
    <3> HIDE DEF f
    <3> QED BY <2>4, FiniteAssumption, SumOfZeros
  <2>6. BytesAreConserved
    BY <2>3, <2>4, <2>5 DEF BytesAreConserved, SumFunction, Init
  <2>7. LimitsHold
    BY <2>3, BoundsAssumption DEF LimitsHold, Init
  <2> QED BY <2>2, <2>6, <2>7 DEF BudgetOK
<1>2. WritersOK /\ BudgetOK /\ [Next]_vars => (WritersOK /\ BudgetOK)'
  BY WritersOKStep, BudgetStep
<1> QED BY <1>1, <1>2, PTL DEF Spec

(* What the writers and the process have reserved (_queuedBytes, JuiceBufferedBytes) is
   exactly what lies in the queues: no cancelled, late or failed packet leaks a part of
   the shared budget or gives it back twice. *)
THEOREM BudgetIsConserved == Spec => []BytesAreConserved
<1>1. BudgetOK => BytesAreConserved
  BY DEF BudgetOK
<1> QED BY <1>1, BudgetInvariant, PTL

WithinBudgets ==
    /\ \A w \in Writers : writer[w].bytes \in 0..Limit /\ writer[w].packets <= MaxPackets
    /\ buffered \in 0..GlobalBytes

(* The limits of enqueueData: hold at all times: the bytes and packets of each writer
   and the bytes of the process, and no byte counter ever goes below zero. *)
THEOREM BudgetsAreRespected == Spec => []WithinBudgets
<1>1. WritersOK /\ BudgetOK => WithinBudgets
  BY BufferedType, BoundsAssumption DEF BudgetOK, LimitsHold, WithinBudgets
<1> QED BY <1>1, BudgetInvariant, PTL
=============================================================================
