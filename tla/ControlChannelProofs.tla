------------------------ MODULE ControlChannelProofs ------------------------
(***************************************************************************)
(* Proofs about ControlChannel for every number of processes, files,       *)
(* descriptor numbers, connections and crashes.                            *)
(***************************************************************************)
EXTENDS ControlChannel, SequenceTheorems, WellFoundedInduction, TLAPS

(* The client's side.  A descriptor belongs to one process and to a connection
   that was made; a request that is being written is not yet pending; one that
   was written is pending on both sides under the connection's own id; a closed
   channel has no half of a response. *)
ClientOK(p) ==
    LET k == client[p] IN
    /\ k.fd <= made /\ k.sequence <= made
    /\ k.writing => k.gui = 0 /\ k.fd # 0
    /\ ~k.writing => k.gui = k.id /\ (k.gui # 0 <=> k.fd # 0)
    /\ k.fd = 0 => k.response = <<>>
    /\ k.fd # 0 => conn[k.fd].id # 0 /\ (k.gui # 0 => k.id = conn[k.fd].id)
    /\ k.fd # 0 => \A q \in Processes : client[q].fd = k.fd => q = p

ClientsOK == \A p \in Processes : ClientOK(p)

(* The host's side.  A connection has a descriptor number of its own exactly while
   its reader or the picker has it; the picker's state is that of the one connection
   that claimed it; a control picker on the screen is the current one. *)
HostOK ==
    /\ \A c \in Connections :
          /\ number[c] # None <=> conn[c].host \in {"reader", "picker"}
          /\ c > made => conn[c].host = "none"
          /\ conn[c].host = "picker" => pickerFD = number[c] /\ pickerID = conn[c].id
    /\ \A c, d \in Connections : number[c] # None /\ number[c] = number[d] => c = d
    /\ pickerFD # None => \E c \in Connections : conn[c].host = "picker"
    /\ picker # None => /\ picker \in [kind : {"control"}, for : Connections]
                        /\ conn[picker.for].host = "picker"
    /\ screen # None => screen.kind = "own" \/ screen = picker

(* The halves of s answer the request with this id on c, and each says "error" or what
   the user chose in the picker of c. *)
AllGenuine(s, c, id, choice) ==
    \A i \in 1..Len(s) : s[i].of = c /\ s[i].id = id /\ s[i].outcome \in {"error", choice}

(* The halves of s follow n halves that went before. *)
InOrder(s, n) == \A i \in 1..Len(s) : s[i].half = n + i

Unanswered == {"none", "backlog", "reader", "picker"}

(* Nothing is on its way before the host has answered, and then only genuine halves,
   each in its place. *)
StreamOK(c) ==
    LET x == conn[c] IN
    /\ x.host \in Unanswered => x.left = <<>> /\ x.back = <<>> /\ told[c] = None
    /\ AllGenuine(x.left, c, x.id, chosen[c]) /\ AllGenuine(x.back, c, x.id, chosen[c])
    /\ \A p \in Processes : client[p].fd = c => LET r == client[p].response IN
          /\ x.host \in Unanswered => r = <<>>
          /\ AllGenuine(r, c, x.id, chosen[c])
          /\ InOrder(r, 0) /\ InOrder(x.back, Len(r)) /\ InOrder(x.left, Len(r) + Len(x.back))

StreamsOK == \A c \in Connections : StreamOK(c)

(* The inductive invariant. *)
ControlOK == TypeOK /\ ClientsOK /\ HostOK /\ StreamsOK /\ AnswerIsTheUsersChoice

-----------------------------------------------------------------------------
(* A nonempty set of descriptor numbers has a least one, the one Accept takes. *)
LEMMA LeastNumber ==
    ASSUME NEW S, S \subseteq Nat, S # {}
    PROVE  Min(S) \in S
<1> DEFINE R == {ss \in Nat \X Nat : ss[1] < ss[2]}
<1>0. IsWellFoundedOn(R, Nat)
  BY NatLessThanWellFounded, Zenon DEF OpToRel
<1> HIDE DEF R
<1>1. PICK x \in S : \A y \in S : ~(<<y, x>> \in R)
  BY <1>0, WFMin
<1>2. ASSUME NEW y \in S PROVE x <= y
  <2>1. x \in Nat /\ y \in Nat /\ ~(<<y, x>> \in R)
    BY <1>1
  <2>2. y < x => <<y, x>> \in R
    BY <2>1 DEF R
  <2>3. QED
    BY <2>1, <2>2
<1>3. QED
  BY <1>2 DEF Min

(* The constant sets are what the proofs take them for. *)
LEMMA Bounds ==
    /\ Connections \subseteq Nat \ {0} /\ Ids \subseteq Nat /\ 0 \in Ids
    /\ Connections \subseteq Ids /\ None \notin Numbers /\ None \notin Outcomes
    /\ None \notin Controller /\ None # "invalid" /\ None # "hungup"
    /\ "error" \in Outcomes /\ "invalid" \notin Outcomes /\ "hungup" \notin Outcomes
    /\ "error" \notin Files \cup {"cancelled"} /\ "hungup" \notin Files \cup {"cancelled"}
BY BoundsAssumption, NumbersAssumption, FilesAssumption, NoneAssumption
   DEF Connections, Ids, Outcomes

(* The two halves JuiceControlResponse hands to a writer are a sequence. *)
LEMMA TwoHalves ==
    ASSUME NEW c \in Connections, NEW id \in Ids, NEW o \in Outcomes,
           NEW s, s = [h \in Halves |-> [half |-> h, of |-> c, id |-> id, outcome |-> o]]
    PROVE  /\ s \in Seq(Unit) /\ Len(s) = 2
           /\ \A i \in 1..Len(s) : /\ s[i].half = i /\ s[i].of = c
                                   /\ s[i].id = id /\ s[i].outcome = o
<1>1. Halves = 1..2
  BY DEF Halves
<1>2. \A h \in 1..2 : [half |-> h, of |-> c, id |-> id, outcome |-> o] \in Unit
  BY <1>1 DEF Unit
<1>3. s \in [1..2 -> Unit]
  BY <1>1, <1>2
<1>4. s \in Seq(Unit) /\ Len(s) = 2
  <2>1. s \in Seq(Unit)
    BY <1>3, SeqDef
  <2>2. DOMAIN s = 1..2 /\ DOMAIN s = 1..Len(s) /\ Len(s) \in Nat
    BY <1>3, <2>1, LenProperties
  <2>3. QED
    BY <2>1, <2>2
<1>5. QED
  BY <1>1, <1>4

(* The fields of a client and of a connection. *)
LEMMA Fields ==
    ASSUME TypeOK
    PROVE  /\ \A p \in Processes : LET k == client[p] IN
                 /\ k \in Client /\ k.fd \in 0..MaxConnections /\ k.fd \in Nat
                 /\ k.fd # 0 => k.fd \in Connections
                 /\ k.id \in Ids /\ k.sequence \in Ids /\ k.sequence \in Nat /\ k.gui \in Ids
                 /\ k.writing \in BOOLEAN
                 /\ k.response \in Seq(Unit) /\ Len(k.response) \in Nat
           /\ \A c \in Connections :
                 /\ conn[c] \in Conn /\ conn[c].id \in Ids
                 /\ conn[c].left \in Seq(Unit) /\ conn[c].back \in Seq(Unit)
                 /\ Len(conn[c].left) \in Nat /\ Len(conn[c].back) \in Nat
           /\ made \in Nat /\ made <= MaxConnections
<1>1. ASSUME NEW p \in Processes
      PROVE  LET k == client[p] IN
             /\ k \in Client /\ k.fd \in 0..MaxConnections /\ k.id \in Ids /\ k.sequence \in Ids
             /\ k.gui \in Ids /\ k.writing \in BOOLEAN /\ k.response \in Seq(Unit)
  BY DEF TypeOK, Client
<1>2. ASSUME NEW c \in Connections
      PROVE  /\ conn[c] \in Conn /\ conn[c].id \in Ids
             /\ conn[c].left \in Seq(Unit) /\ conn[c].back \in Seq(Unit)
  BY DEF TypeOK, Conn
<1>3. made \in Nat /\ made <= MaxConnections
  BY BoundsAssumption DEF TypeOK
<1>4. \A n \in 0..MaxConnections : n \in Nat /\ (n # 0 => n \in Connections)
  BY BoundsAssumption DEF Connections
<1>5. \A s \in Seq(Unit) : Len(s) \in Nat
  BY LenProperties
<1>6. QED
  BY <1>1, <1>2, <1>3, <1>4, <1>5, Bounds

(* The record of a connection that was not made. *)
LEMMA UnusedConn == Unused \in Conn /\ Unused.left = <<>> /\ Unused.back = <<>>
BY Bounds, EmptySeq DEF Unused, Conn

(* close_import *)
LEMMA ClosedClient ==
    ASSUME NEW k \in Client
    PROVE  LET j == CloseImport(k) IN
           /\ j \in Client /\ ~j.writing /\ j.fd = 0 /\ j.id = 0 /\ j.response = <<>>
           /\ j.gui = k.gui /\ j.sequence = k.sequence
<1>1. <<>> \in Seq(Unit) /\ 0 \in Ids /\ 0 \in 0..MaxConnections
  BY EmptySeq, Bounds, BoundsAssumption
<1>2. QED
  BY <1>1 DEF CloseImport, Client

(* A step that leaves a connection's halves alone, and gives the connection to no
   other client, leaves them in order. *)
LEMMA SameStream ==
    ASSUME NEW c \in Connections, StreamOK(c),
           conn'[c].left = conn[c].left, conn'[c].back = conn[c].back,
           conn'[c].id = conn[c].id,
           conn'[c].host \in Unanswered => conn[c].host \in Unanswered,
           chosen'[c] = chosen[c], told'[c] = told[c],
           \A p \in Processes : client'[p].fd = c =>
              client[p].fd = c /\ client'[p].response = client[p].response
    PROVE  StreamOK(c)'
BY DEF StreamOK

(* A connection nothing was sent on is in order. *)
LEMMA EmptyStream ==
    ASSUME NEW c \in Connections, conn'[c].left = <<>>, conn'[c].back = <<>>,
           conn'[c].host \in Unanswered => told'[c] = None,
           \A p \in Processes : client'[p].fd = c => client'[p].response = <<>>
    PROVE  StreamOK(c)'
<1>1. Len(<<>>) = 0 /\ 1..0 = {}
  OBVIOUS
<1>2. QED
  BY <1>1 DEF StreamOK, AllGenuine, InOrder

(* A step of other processes leaves a client in order. *)
LEMMA SameClient ==
    ASSUME TypeOK, NEW p \in Processes, ClientOK(p), client'[p] = client[p],
           made <= made', made' \in Nat,
           client[p].fd # 0 => conn'[client[p].fd].id = conn[client[p].fd].id,
           client[p].fd # 0 => \A q \in Processes :
              client'[q].fd = client[p].fd => client[q].fd = client[p].fd
    PROVE  ClientOK(p)'
BY Fields DEF ClientOK

(* A step of the host alone leaves every client in order. *)
LEMMA SameClients ==
    ASSUME TypeOK, ClientsOK, UNCHANGED <<client, made>>,
           \A c \in Connections : conn'[c].id = conn[c].id
    PROVE  ClientsOK'
<1> SUFFICES ASSUME NEW p \in Processes PROVE ClientOK(p)'
  BY DEF ClientsOK
<1>1. ClientOK(p)
  BY DEF ClientsOK
<1>2. QED
  BY <1>1, SameClient, Fields

(* A step of a client that makes no connection leaves the host in order. *)
LEMMA SameHost ==
    ASSUME HostOK, UNCHANGED <<number, pickerFD, pickerID, picker, screen, made>>,
           \A c \in Connections : conn'[c].id = conn[c].id /\ conn'[c].host = conn[c].host
    PROVE  HostOK'
BY DEF HostOK

(* The answers given stand while no choice is made and nothing is reported. *)
LEMMA SameAnswers ==
    ASSUME AnswerIsTheUsersChoice, UNCHANGED <<chosen, told>>
    PROVE  AnswerIsTheUsersChoice'
BY DEF AnswerIsTheUsersChoice

(* begin_file_import uses a new connection, of a new number. *)
LEMMA BeginKeeps ==
    ASSUME ControlOK, NEW p \in Processes, Begin(p)
    PROVE  ControlOK'
<1> DEFINE k == client[p]
           d == made + 1
           j == [k EXCEPT !.fd = d, !.writing = TRUE, !.sequence = k.sequence + 1]
           n == [Unused EXCEPT !.request = 1, !.client = TRUE,
                               !.id = k.sequence + 1, !.host = "backlog"]
<1>0. TypeOK /\ ClientsOK /\ HostOK /\ StreamsOK /\ made < MaxConnections
  BY DEF ControlOK, Begin
<1>1. /\ made \in Nat /\ d \in Connections /\ d \in 0..MaxConnections /\ d \in Nat \ {0}
      /\ k \in Client /\ k.fd = 0 /\ k.gui = 0 /\ ~k.writing /\ k.id = 0 /\ k.response = <<>>
      /\ k.sequence \in Nat /\ k.sequence + 1 \in Ids /\ k.sequence <= made
  <2>1. k.fd = 0 /\ k.gui = 0 /\ ~k.writing
    BY DEF Begin
  <2>2. k.id = 0 /\ k.response = <<>> /\ k.sequence <= made
    BY <1>0, <2>1 DEF ClientsOK, ClientOK
  <2>3. k \in Client /\ k.sequence \in Nat /\ made \in Nat
    BY <1>0, Fields
  <2>4. QED
    BY <1>0, <2>1, <2>2, <2>3, BoundsAssumption DEF Connections, Ids
<1>2. /\ made' = d /\ client' = [client EXCEPT ![p] = j] /\ conn' = [conn EXCEPT ![d] = n]
      /\ UNCHANGED <<number, pickerFD, pickerID, blocks, picker, screen, crashes, chosen, told>>
  <2>2. made' = d
    BY DEF Begin
  <2> HIDE DEF n, d
  <2>3. conn' = [conn EXCEPT ![d] = n]
    BY <2>2 DEF Begin, n
  <2>4. client' = [client EXCEPT ![p] = j]
    BY <1>0, <2>2 DEF Begin, TypeOK, Client
  <2>5. QED
    BY <2>2, <2>3, <2>4 DEF Begin, hostVars, history
<1>3. /\ j \in Client /\ j.fd = d /\ j.writing /\ j.sequence = k.sequence + 1
      /\ j.gui = 0 /\ j.id = 0 /\ j.response = <<>>
  BY <1>1 DEF Client
<1>4. /\ n \in Conn /\ n.host = "backlog" /\ n.id = k.sequence + 1
      /\ n.left = <<>> /\ n.back = <<>>
  <2> DEFINE id == k.sequence + 1
  <2>1. PICK r \in 0..2, b \in BOOLEAN :
           n = [Unused EXCEPT !.request = r, !.client = b, !.id = id, !.host = "backlog"]
    <3>1. 1 \in 0..2 /\ TRUE \in BOOLEAN
      OBVIOUS
    <3> HIDE DEF id
    <3>2. QED
      BY <3>1, Zenon DEF id
  <2>2. id \in Ids
    BY <1>1
  <2> HIDE DEF id, n
  <2>3. /\ n \in Conn /\ n.host = "backlog" /\ n.id = id /\ n.left = <<>> /\ n.back = <<>>
    BY <2>1, <2>2, UnusedConn DEF Conn
  <2>4. QED
    BY <2>3 DEF id
<1>5. conn[d].host = "none" /\ \A q \in Processes : client[q].fd # d
  BY <1>0, <1>1, Fields DEF HostOK, ClientsOK, ClientOK
<1> HIDE DEF j, n
<1>6. TypeOK'
  BY <1>1, <1>2, <1>3, <1>4 DEF ControlOK, TypeOK, Connections
<1>7. ClientsOK'
  <2> SUFFICES ASSUME NEW q \in Processes PROVE ClientOK(q)'
    BY DEF ClientsOK
  <2>1. CASE q = p
    BY <2>1, <1>0, <1>1, <1>2, <1>3, <1>4, <1>5 DEF TypeOK, ClientOK
  <2>2. CASE q # p
    BY <2>2, <1>0, <1>1, <1>2, <1>3, <1>5, Fields, SameClient DEF TypeOK, ClientsOK
  <2>3. QED
    BY <2>1, <2>2
<1>8. HostOK'
  BY <1>1, <1>2, <1>4, <1>5 DEF ControlOK, TypeOK, HostOK, Connections
<1>9. StreamsOK'
  <2> SUFFICES ASSUME NEW c \in Connections PROVE StreamOK(c)'
    BY DEF StreamsOK
  <2>1. CASE c = d
    <3>1. told[d] = None
      BY <1>0, <1>1, <1>5 DEF StreamsOK, StreamOK, Unanswered
    <3>2. QED
      BY <2>1, <3>1, <1>0, <1>1, <1>2, <1>3, <1>4, <1>5, EmptyStream DEF TypeOK
  <2>2. CASE c # d
    BY <2>2, <1>0, <1>1, <1>2, <1>3, SameStream DEF TypeOK, StreamsOK
  <2>3. QED
    BY <2>1, <2>2
<1>10. AnswerIsTheUsersChoice'
  BY <1>2 DEF ControlOK, AnswerIsTheUsersChoice
<1>11. QED
  BY <1>6, <1>7, <1>8, <1>9, <1>10 DEF ControlOK

(* The request is written, or the channel is closed again. *)
LEMMA FinishBeginKeeps ==
    ASSUME ControlOK, NEW p \in Processes, FinishBegin(p)
    PROVE  ControlOK'
<1> DEFINE k == client[p]
           d == k.fd
<1>0. TypeOK /\ ClientsOK /\ HostOK /\ StreamsOK /\ AnswerIsTheUsersChoice
  BY DEF ControlOK
<1>1. /\ k.writing /\ d \in Connections /\ d \in Nat \ {0} /\ k \in Client /\ k.gui = 0
      /\ k.fd <= made /\ k.sequence <= made /\ conn[d] \in Conn /\ conn[d].id \in Ids
      /\ conn[d].id # 0 /\ \A q \in Processes : client[q].fd = d => q = p
  <2>1. k.writing /\ ClientOK(p)
    BY <1>0 DEF FinishBegin, ClientsOK
  <2>2. d # 0
    BY <2>1 DEF ClientOK
  <2>3. d \in Connections /\ d \in Nat /\ k \in Client
    BY <1>0, <2>2, Fields
  <2>4. QED
    BY <1>0, <2>1, <2>2, <2>3, Fields DEF ClientOK
<1>2. UNCHANGED <<made, number, pickerFD, pickerID, blocks, picker, screen, crashes, chosen, told>>
  BY DEF FinishBegin, hostVars, history
<1>3. PICK j, n :
        /\ client' = [client EXCEPT ![p] = j] /\ conn' = [conn EXCEPT ![d] = n]
        /\ j \in Client /\ ~j.writing /\ j.gui = j.id /\ j.sequence = k.sequence
        /\ \/ j.fd = d /\ j.id = conn[d].id /\ j.response = k.response
           \/ j.fd = 0 /\ j.id = 0 /\ j.response = <<>>
        /\ n \in Conn /\ n.id = conn[d].id /\ n.host = conn[d].host
        /\ n.left = conn[d].left /\ n.back = conn[d].back
  <2>1. CASE conn[d].host # "closed"
    <3> DEFINE j == [k EXCEPT !.writing = FALSE, !.id = conn[d].id, !.gui = conn[d].id]
               n == [conn[d] EXCEPT !.request = 2]
    <3>1. client' = [client EXCEPT ![p] = j] /\ conn' = [conn EXCEPT ![d] = n]
      BY <1>0, <1>1, <2>1 DEF FinishBegin, TypeOK, Client, Conn
    <3>2. /\ j \in Client /\ ~j.writing /\ j.gui = j.id /\ j.sequence = k.sequence
          /\ j.fd = d /\ j.id = conn[d].id /\ j.response = k.response
      BY <1>1 DEF Client
    <3>3. /\ n \in Conn /\ n.id = conn[d].id /\ n.host = conn[d].host
          /\ n.left = conn[d].left /\ n.back = conn[d].back
      BY <1>1 DEF Conn
    <3> HIDE DEF j, n
    <3>4. QED
      BY <3>1, <3>2, <3>3
  <2>2. CASE conn[d].host = "closed"
    <3> DEFINE j == CloseImport(k)
               n == [conn[d] EXCEPT !.client = FALSE]
    <3>1. client' = [client EXCEPT ![p] = j] /\ conn' = [conn EXCEPT ![d] = n]
      BY <1>0, <1>1, <2>2 DEF FinishBegin, TypeOK, Conn
    <3>2. /\ j \in Client /\ ~j.writing /\ j.gui = j.id /\ j.sequence = k.sequence
          /\ j.fd = 0 /\ j.id = 0 /\ j.response = <<>>
      BY <1>1, ClosedClient
    <3>3. /\ n \in Conn /\ n.id = conn[d].id /\ n.host = conn[d].host
          /\ n.left = conn[d].left /\ n.back = conn[d].back
      BY <1>1 DEF Conn
    <3> HIDE DEF j, n
    <3>4. QED
      BY <3>1, <3>2, <3>3
  <2>3. QED
    BY <2>1, <2>2
<1>4. TypeOK'
  BY <1>0, <1>1, <1>2, <1>3 DEF TypeOK
<1>5. ClientsOK'
  <2> SUFFICES ASSUME NEW q \in Processes PROVE ClientOK(q)'
    BY DEF ClientsOK
  <2>1. CASE q = p
    BY <2>1, <1>0, <1>1, <1>2, <1>3, Fields DEF TypeOK, ClientOK, ClientsOK
  <2>2. CASE q # p
    BY <2>2, <1>0, <1>1, <1>2, <1>3, Fields, SameClient DEF TypeOK, ClientsOK
  <2>3. QED
    BY <2>1, <2>2
<1>6. HostOK'
  BY <1>0, <1>1, <1>2, <1>3, SameHost DEF TypeOK
<1>7. StreamsOK'
  BY <1>0, <1>1, <1>2, <1>3, SameStream, Bounds DEF TypeOK, StreamsOK
<1>8. QED
  BY <1>0, <1>2, <1>4, <1>5, <1>6, <1>7, SameAnswers DEF ControlOK

(* Halves that follow one another. *)
LEMMA Concatenated ==
    ASSUME NEW r \in Seq(Unit), NEW b \in Seq(Unit), NEW c, NEW id, NEW o,
           AllGenuine(r, c, id, o), AllGenuine(b, c, id, o),
           InOrder(r, 0), InOrder(b, Len(r))
    PROVE  /\ r \o b \in Seq(Unit) /\ Len(r \o b) = Len(r) + Len(b) /\ Len(r \o b) \in Nat
           /\ AllGenuine(r \o b, c, id, o) /\ InOrder(r \o b, 0)
<1> DEFINE s == r \o b
<1>1. /\ s \in Seq(Unit) /\ Len(s) = Len(r) + Len(b) /\ Len(r) \in Nat /\ Len(b) \in Nat
      /\ \A i \in 1..Len(s) : s[i] = IF i <= Len(r) THEN r[i] ELSE b[i - Len(r)]
  BY ConcatProperties, LenProperties
<1> HIDE DEF s
<1>2. ASSUME NEW i \in 1..Len(s)
      PROVE  s[i].of = c /\ s[i].id = id /\ s[i].outcome \in {"error", o} /\ s[i].half = i
  <2>1. CASE i <= Len(r)
    BY <1>1, <2>1 DEF AllGenuine, InOrder
  <2>2. CASE i > Len(r)
    <3>1. i - Len(r) \in 1..Len(b) /\ s[i] = b[i - Len(r)]
      BY <1>1, <2>2
    <3>2. QED
      BY <1>1, <3>1 DEF AllGenuine, InOrder
  <2>3. QED
    BY <1>1, <2>1, <2>2
<1>3. QED
  BY <1>1, <1>2 DEF s, AllGenuine, InOrder

(* What a client with a pending import has, and what poll_file_import has read. *)
LEMMA Pending ==
    ASSUME ControlOK, NEW p \in Processes, client[p].gui # 0
    PROVE  LET k == client[p]
               d == k.fd
               s == Received(k) IN
           /\ k \in Client /\ ~k.writing /\ d \in Connections /\ conn[d] \in Conn
           /\ k.id = conn[d].id /\ k.gui = k.id
           /\ \A q \in Processes : client[q].fd = d => q = p
           /\ s \in Seq(Unit) /\ Len(s) = Len(k.response) + Len(conn[d].back)
           /\ AllGenuine(s, d, k.id, chosen[d]) /\ InOrder(s, 0) /\ Len(s) \in Nat
           /\ AllGenuine(conn[d].left, d, k.id, chosen[d]) /\ InOrder(conn[d].left, Len(s))
           /\ conn[d].host \in Unanswered => Len(s) = 0
<1> DEFINE k == client[p]
           d == k.fd
<1>0. TypeOK /\ ClientsOK /\ StreamsOK /\ ClientOK(p)
  BY DEF ControlOK, ClientsOK
<1>1. /\ ~k.writing /\ d # 0 /\ k.id = conn[d].id /\ k.gui = k.id
      /\ \A q \in Processes : client[q].fd = d => q = p
  BY <1>0, Fields DEF ClientOK
<1>2. k \in Client /\ d \in Connections /\ k.response \in Seq(Unit)
  BY <1>0, <1>1, Fields
<1>3. conn[d] \in Conn /\ conn[d].back \in Seq(Unit) /\ StreamOK(d)
  BY <1>0, <1>2, Fields DEF StreamsOK
<1>4. /\ AllGenuine(conn[d].left, d, k.id, chosen[d])
      /\ AllGenuine(conn[d].back, d, k.id, chosen[d])
      /\ AllGenuine(k.response, d, k.id, chosen[d])
      /\ InOrder(k.response, 0) /\ InOrder(conn[d].back, Len(k.response))
      /\ InOrder(conn[d].left, Len(k.response) + Len(conn[d].back))
      /\ conn[d].host \in Unanswered => k.response = <<>> /\ conn[d].back = <<>>
  BY <1>1, <1>3 DEF StreamOK
<1> DEFINE s == k.response \o conn[d].back
<1>5. /\ s \in Seq(Unit) /\ Len(s) = Len(k.response) + Len(conn[d].back) /\ Len(s) \in Nat
      /\ AllGenuine(s, d, k.id, chosen[d]) /\ InOrder(s, 0)
  BY <1>2, <1>3, <1>4, Concatenated
<1>6. Received(k) = s
  BY DEF Received
<1> HIDE DEF s
<1>7. conn[d].host \in Unanswered => Len(s) = 0
  <2>1. Len(<<>>) = 0
    OBVIOUS
  <2>2. conn[d].host \in Unanswered => Len(k.response) = 0 /\ Len(conn[d].back) = 0
    BY <1>4, <2>1
  <2>3. SUFFICES ASSUME conn[d].host \in Unanswered PROVE Len(s) = 0
    OBVIOUS
  <2>4. Len(k.response) = 0 /\ Len(conn[d].back) = 0
    BY <2>2, <2>3
  <2>5. Len(s) = 0 + 0
    BY <1>5, <2>4
  <2>6. QED
    BY <2>5
<1>8. QED
  BY <1>1, <1>2, <1>3, <1>4, <1>5, <1>6, <1>7

(* The answer is valid, and if it names a choice it is the user's. *)
LEMMA AnswerIsGenuine ==
    ASSUME ControlOK, NEW p \in Processes, client[p].gui # 0
    PROVE  LET k == client[p] IN
           /\ Answer(k) \in Outcomes \cup {"hungup"}
           /\ Answer(k) \in Files \cup {"cancelled"} => Answer(k) = chosen[k.fd]
<1> DEFINE k == client[p]
           d == k.fd
           s == Received(k)
<1>1. /\ s \in Seq(Unit) /\ Len(s) \in Nat /\ AllGenuine(s, d, k.id, chosen[d]) /\ InOrder(s, 0)
  BY Pending
<1> HIDE DEF s
<1>2. CASE Len(s) < 2
  BY <1>2, Bounds DEF Answer, s
<1>3. CASE ~(Len(s) < 2)
  <2>1. 1 \in 1..Len(s) /\ 2 \in 1..Len(s)
    BY <1>1, <1>3
  <2>2. /\ s[1].half = 1 /\ s[2].half = 2 /\ s[1].id = k.id /\ s[2].id = k.id
        /\ s[1].of = d /\ s[2].of = d /\ s[1].outcome \in {"error", chosen[d]}
    BY <1>1, <2>1 DEF AllGenuine, InOrder
  <2>3. Valid(k, s)
    BY <2>2 DEF Valid, Halves
  <2>4. s[1] \in Unit
    BY <1>1, <2>1, ElementOfSeq
  <2>5. s[1].outcome \in Outcomes
    BY <2>4 DEF Unit
  <2>6. Answer(k) = s[1].outcome
    BY <1>3, <2>3 DEF Answer, s
  <2>7. QED
    BY <2>2, <2>5, <2>6, Bounds
<1>4. QED
  BY <1>2, <1>3

(* poll_file_import with an answer closes the channel and reports it. *)
LEMMA PollAnsweredKeeps ==
    ASSUME ControlOK, NEW p \in Processes, PollAnswered(p)
    PROVE  ControlOK'
<1> DEFINE k == client[p]
           d == k.fd
           j == [CloseImport(k) EXCEPT !.gui = 0]
           n == [conn[d] EXCEPT !.back = <<>>, !.client = FALSE]
<1>0. /\ TypeOK /\ ClientsOK /\ HostOK /\ StreamsOK /\ AnswerIsTheUsersChoice /\ ClientOK(p)
      /\ k.gui # 0
  BY DEF ControlOK, PollAnswered, ClientsOK
<1>1. /\ k \in Client /\ d \in Connections /\ conn[d] \in Conn /\ d # 0
      /\ \A q \in Processes : client[q].fd = d => q = p
      /\ AllGenuine(conn[d].left, d, conn[d].id, chosen[d])
      /\ k.sequence <= made /\ made \in Nat
  BY <1>0, Pending, Fields, Bounds DEF ClientOK
<1>2. conn[d].host \notin Unanswered
  <2>1. Len(Received(k)) >= 2 \/ conn[d].host = "closed"
    BY DEF PollAnswered
  <2>2. conn[d].host \in Unanswered => Len(Received(k)) = 0
    BY <1>0, Pending
  <2>3. QED
    BY <2>1, <2>2 DEF Unanswered
<1>3. /\ UNCHANGED <<made, number, pickerFD, pickerID, blocks, picker, screen, crashes, chosen>>
      /\ told' = [told EXCEPT ![d] = Answer(k)]
      /\ client' = [client EXCEPT ![p] = j] /\ conn' = [conn EXCEPT ![d] = n]
  BY <1>0, <1>1 DEF PollAnswered, PollDone, hostVars, TypeOK, Conn
<1>4. /\ j \in Client /\ ~j.writing /\ j.gui = 0 /\ j.id = 0 /\ j.fd = 0 /\ j.response = <<>>
      /\ j.sequence = k.sequence
  <2>1. CloseImport(k) \in Client /\ 0 \in Ids
    BY <1>1, ClosedClient, Bounds
  <2>2. QED
    BY <2>1, <1>1, ClosedClient DEF Client
<1>5. /\ n \in Conn /\ n.id = conn[d].id /\ n.host = conn[d].host
      /\ n.left = conn[d].left /\ n.back = <<>>
  BY <1>1, EmptySeq DEF Conn
<1>6. /\ Answer(k) \in Outcomes \cup {"hungup"}
      /\ Answer(k) \in Files \cup {"cancelled"} => Answer(k) = chosen[d]
  BY <1>0, AnswerIsGenuine
<1> HIDE DEF j, n
<1>7. TypeOK'
  BY <1>0, <1>1, <1>3, <1>4, <1>5, <1>6 DEF TypeOK
<1>8. ClientsOK'
  <2> SUFFICES ASSUME NEW q \in Processes PROVE ClientOK(q)'
    BY DEF ClientsOK
  <2>1. CASE q = p
    BY <2>1, <1>0, <1>1, <1>3, <1>4, Fields DEF TypeOK, ClientOK
  <2>2. CASE q # p
    BY <2>2, <1>0, <1>1, <1>3, <1>4, <1>5, Fields, SameClient DEF TypeOK, ClientsOK
  <2>3. QED
    BY <2>1, <2>2
<1>9. HostOK'
  BY <1>0, <1>1, <1>3, <1>5, SameHost DEF TypeOK
<1>10. StreamsOK'
  <2> SUFFICES ASSUME NEW c \in Connections PROVE StreamOK(c)'
    BY DEF StreamsOK
  <2>1. CASE c = d
    <3>1. /\ conn'[c] = n /\ chosen'[c] = chosen[d]
          /\ \A q \in Processes : client'[q].fd # c
      BY <2>1, <1>0, <1>1, <1>3, <1>4 DEF TypeOK
    <3>2. AllGenuine(<<>>, d, n.id, chosen[d])
      BY DEF AllGenuine
    <3>3. QED
      BY <2>1, <3>1, <3>2, <1>1, <1>2, <1>5 DEF StreamOK
  <2>2. CASE c # d
    BY <2>2, <1>0, <1>1, <1>3, <1>4, SameStream, Bounds DEF TypeOK, StreamsOK
  <2>3. QED
    BY <2>1, <2>2
<1>11. AnswerIsTheUsersChoice'
  BY <1>0, <1>1, <1>3, <1>6, Bounds DEF TypeOK, AnswerIsTheUsersChoice
<1>12. QED
  BY <1>7, <1>8, <1>9, <1>10, <1>11 DEF ControlOK

(* poll_file_import keeps the part of an answer that has come. *)
LEMMA PollPendingKeeps ==
    ASSUME ControlOK, NEW p \in Processes, PollPending(p)
    PROVE  ControlOK'
<1> DEFINE k == client[p]
           d == k.fd
           s == Received(k)
           j == [k EXCEPT !.response = s]
           n == [conn[d] EXCEPT !.back = <<>>]
<1>0. /\ TypeOK /\ ClientsOK /\ HostOK /\ StreamsOK /\ AnswerIsTheUsersChoice /\ ClientOK(p)
      /\ k.gui # 0
  BY DEF ControlOK, PollPending, ClientsOK
<1>1. /\ k \in Client /\ d \in Connections /\ conn[d] \in Conn /\ d # 0 /\ ~k.writing
      /\ \A q \in Processes : client[q].fd = d => q = p
      /\ s \in Seq(Unit) /\ Len(s) \in Nat
      /\ AllGenuine(s, d, conn[d].id, chosen[d]) /\ InOrder(s, 0)
      /\ AllGenuine(conn[d].left, d, conn[d].id, chosen[d]) /\ InOrder(conn[d].left, Len(s))
      /\ conn[d].host \in Unanswered => Len(s) = 0
  BY <1>0, Pending, Bounds
<1>2. /\ UNCHANGED <<made, number, pickerFD, pickerID, blocks, picker, screen, crashes, chosen, told>>
      /\ client' = [client EXCEPT ![p] = j] /\ conn' = [conn EXCEPT ![d] = n]
  BY DEF PollPending, hostVars, history
<1> HIDE DEF s
<1>3. /\ j \in Client /\ j.writing = k.writing /\ j.gui = k.gui /\ j.id = k.id /\ j.fd = d
      /\ j.response = s /\ j.sequence = k.sequence
  BY <1>1 DEF Client
<1>4. /\ n \in Conn /\ n.id = conn[d].id /\ n.host = conn[d].host
      /\ n.left = conn[d].left /\ n.back = <<>>
  BY <1>1, EmptySeq DEF Conn
<1> HIDE DEF j, n
<1>5. TypeOK'
  BY <1>0, <1>1, <1>2, <1>3, <1>4 DEF TypeOK
<1>6. ClientsOK'
  <2> SUFFICES ASSUME NEW q \in Processes PROVE ClientOK(q)'
    BY DEF ClientsOK
  <2>1. CASE q = p
    BY <2>1, <1>0, <1>1, <1>2, <1>3, <1>4, Fields DEF TypeOK, ClientOK
  <2>2. CASE q # p
    BY <2>2, <1>0, <1>1, <1>2, <1>3, <1>4, Fields, SameClient DEF TypeOK, ClientsOK
  <2>3. QED
    BY <2>1, <2>2
<1>7. HostOK'
  BY <1>0, <1>1, <1>2, <1>4, SameHost DEF TypeOK
<1>8. StreamsOK'
  <2> SUFFICES ASSUME NEW c \in Connections PROVE StreamOK(c)'
    BY DEF StreamsOK
  <2>1. CASE c = d
    <3>1. /\ conn'[c] = n /\ chosen'[c] = chosen[d] /\ told'[c] = told[d]
          /\ \A q \in Processes : client'[q].fd = c => client'[q].response = s
      BY <2>1, <1>0, <1>1, <1>2, <1>3 DEF TypeOK
    <3>2. /\ AllGenuine(<<>>, d, n.id, chosen[d]) /\ InOrder(<<>>, Len(s)) /\ Len(<<>>) = 0
          /\ Len(s) + 0 = Len(s)
      BY <1>1 DEF AllGenuine, InOrder
    <3>3. conn[d].host \in Unanswered => conn[d].left = <<>> /\ told[d] = None
      BY <1>0, <1>1 DEF StreamsOK, StreamOK
    <3>4. conn[d].host \in Unanswered => s = <<>>
      BY <1>1, EmptySeq
    <3>5. QED
      BY <2>1, <3>1, <3>2, <3>3, <3>4, <1>1, <1>4 DEF StreamOK
  <2>2. CASE c # d
    BY <2>2, <1>0, <1>1, <1>2, <1>3, SameStream DEF TypeOK, StreamsOK
  <2>3. QED
    BY <2>1, <2>2
<1>9. QED
  BY <1>0, <1>2, <1>5, <1>6, <1>7, <1>8, SameAnswers DEF ControlOK

(* host_action uses a new connection and forgets it. *)
LEMMA HostActionKeeps ==
    ASSUME ControlOK, NEW p \in Processes, HostAction(p)
    PROVE  ControlOK'
<1> DEFINE k == client[p]
           d == made + 1
           id == k.sequence + 1
           j == [k EXCEPT !.sequence = id]
           n == [Unused EXCEPT !.request = 2, !.kind = "action", !.id = id, !.host = "backlog"]
<1>0. /\ TypeOK /\ ClientsOK /\ HostOK /\ StreamsOK /\ AnswerIsTheUsersChoice /\ ClientOK(p)
      /\ made < MaxConnections
  BY DEF ControlOK, HostAction, ClientsOK
<1>1. /\ made \in Nat /\ d \in Connections /\ d \in 0..MaxConnections /\ d \in Nat \ {0}
      /\ k \in Client /\ k.sequence \in Nat /\ id \in Ids /\ id \in Nat /\ k.sequence <= made
  <2>1. k \in Client /\ k.sequence \in Nat /\ made \in Nat /\ k.sequence <= made
    BY <1>0, Fields DEF ClientOK
  <2>2. QED
    BY <1>0, <2>1, BoundsAssumption DEF Connections, Ids
<1>2. /\ made' = d /\ client' = [client EXCEPT ![p] = j] /\ conn' = [conn EXCEPT ![d] = n]
      /\ UNCHANGED <<number, pickerFD, pickerID, blocks, picker, screen, crashes, chosen, told>>
  <2>1. made' = d /\ client' = [client EXCEPT ![p] = j]
    BY DEF HostAction
  <2>2. client'[p].sequence = id
    BY <1>0, <1>1, <2>1 DEF TypeOK, Client
  <2> HIDE DEF id, d, j
  <2>3. conn' = [conn EXCEPT ![d] = n]
    BY <2>1, <2>2 DEF HostAction
  <2>4. QED
    BY <2>1, <2>3 DEF HostAction, hostVars, history
<1>3. /\ j \in Client /\ j.fd = k.fd /\ j.writing = k.writing /\ j.sequence = id
      /\ j.gui = k.gui /\ j.id = k.id /\ j.response = k.response
  BY <1>1 DEF Client
<1>4. /\ n \in Conn /\ n.host = "backlog" /\ n.id = id /\ n.left = <<>> /\ n.back = <<>>
  <2>1. PICK r \in 0..2 : r = 2
    OBVIOUS
  <2> HIDE DEF id
  <2>2. n = [Unused EXCEPT !.request = r, !.kind = "action", !.id = id, !.host = "backlog"]
    BY <2>1
  <2> HIDE DEF n
  <2>3. QED
    BY <1>1, <2>2, UnusedConn DEF Conn
<1>5. conn[d].host = "none" /\ \A q \in Processes : client[q].fd # d
  BY <1>0, <1>1, Fields DEF HostOK, ClientsOK, ClientOK
<1> HIDE DEF j, n
<1>6. TypeOK'
  BY <1>0, <1>1, <1>2, <1>3, <1>4 DEF TypeOK, Connections
<1>7. ClientsOK'
  <2> SUFFICES ASSUME NEW q \in Processes PROVE ClientOK(q)'
    BY DEF ClientsOK
  <2>1. ClientOK(q) /\ \A r \in Processes : client'[r].fd = client[r].fd
    BY <1>0, <1>2, <1>3 DEF ClientsOK, TypeOK
  <2>2. client[q].fd # 0 => client[q].fd \in Connections /\ client[q].fd # d
    BY <1>0, <1>5, Fields
  <2>3. CASE q = p
    <3>1. client'[q] = j /\ client[q] = k /\ made' = made + 1
      BY <2>3, <1>0, <1>2 DEF TypeOK
    <3>2. k.fd # 0 => conn'[k.fd] = conn[k.fd]
      BY <2>2, <2>3, <1>0, <1>2 DEF TypeOK
    <3>3. k.fd \in Nat /\ id <= made + 1
      BY <1>0, <1>1, Fields
    <3>4. QED
      BY <2>1, <2>3, <3>1, <3>2, <3>3, <1>1, <1>3 DEF ClientOK
  <2>4. CASE q # p
    BY <2>1, <2>2, <2>4, <1>0, <1>1, <1>2, SameClient DEF TypeOK
  <2>5. QED
    BY <2>3, <2>4
<1>8. HostOK'
  BY <1>0, <1>1, <1>2, <1>4, <1>5 DEF TypeOK, HostOK, Connections
<1>9. StreamsOK'
  <2> SUFFICES ASSUME NEW c \in Connections PROVE StreamOK(c)'
    BY DEF StreamsOK
  <2>1. CASE c = d
    <3>1. told[d] = None
      BY <1>0, <1>1, <1>5 DEF StreamsOK, StreamOK, Unanswered
    <3>2. QED
      BY <2>1, <3>1, <1>0, <1>1, <1>2, <1>3, <1>4, <1>5, EmptyStream DEF TypeOK
  <2>2. CASE c # d
    BY <2>2, <1>0, <1>1, <1>2, <1>3, SameStream DEF TypeOK, StreamsOK
  <2>3. QED
    BY <2>1, <2>2
<1>10. QED
  BY <1>0, <1>2, <1>6, <1>7, <1>8, <1>9, SameAnswers DEF ControlOK

(* A client that dies takes its end of the connection with it. *)
LEMMA ClientDiesKeeps ==
    ASSUME ControlOK, NEW p \in Processes, ClientDies(p)
    PROVE  ControlOK'
<1>0. TypeOK /\ ClientsOK /\ HostOK /\ StreamsOK /\ AnswerIsTheUsersChoice
  BY DEF ControlOK
<1>1. /\ UNCHANGED <<made, number, pickerFD, pickerID, blocks, picker, screen, chosen, told>>
      /\ client' = [client EXCEPT ![p] = Fresh] /\ crashes' \in 0..MaxCrashes
  BY <1>0, BoundsAssumption DEF ClientDies, hostVars, history, TypeOK
<1>2. /\ Fresh \in Client /\ Fresh.fd = 0 /\ ~Fresh.writing /\ Fresh.gui = 0 /\ Fresh.id = 0
      /\ Fresh.response = <<>> /\ Fresh.sequence = 0
  BY EmptySeq, Bounds, BoundsAssumption DEF Fresh, Client
<1>3. conn' \in [Connections -> Conn] /\ \A c \in Connections :
        /\ conn'[c].id = conn[c].id /\ conn'[c].host = conn[c].host
        /\ conn'[c].left = conn[c].left /\ conn'[c].back = conn[c].back
  <2>1. ASSUME NEW x \in Conn
        PROVE  LET y == [x EXCEPT !.client = FALSE] IN
               /\ y \in Conn /\ y.id = x.id /\ y.host = x.host
               /\ y.left = x.left /\ y.back = x.back
    BY DEF Conn
  <2> DEFINE f(c) == IF c = client[p].fd THEN [conn[c] EXCEPT !.client = FALSE] ELSE conn[c]
  <2>2. \A c \in Connections :
           /\ f(c) \in Conn /\ f(c).id = conn[c].id /\ f(c).host = conn[c].host
           /\ f(c).left = conn[c].left /\ f(c).back = conn[c].back
    BY <1>0, <2>1 DEF TypeOK
  <2>3. conn' = [c \in Connections |-> f(c)]
    BY DEF ClientDies
  <2> HIDE DEF f
  <2>4. QED
    BY <2>2, <2>3
<1>4. TypeOK'
  BY <1>0, <1>1, <1>2, <1>3 DEF TypeOK
<1>5. ClientsOK'
  <2> SUFFICES ASSUME NEW q \in Processes PROVE ClientOK(q)'
    BY DEF ClientsOK
  <2>1. CASE q = p
    <3>1. client'[q] = Fresh /\ made' \in Nat
      BY <2>1, <1>0, <1>1, Fields DEF TypeOK
    <3>2. QED
      BY <3>1, <1>2 DEF ClientOK
  <2>2. CASE q # p
    <3>1. ClientOK(q) /\ client'[q] = client[q] /\ made' \in Nat /\ made <= made'
      BY <2>2, <1>0, <1>1, Fields DEF TypeOK, ClientsOK
    <3>2. client[q].fd # 0 =>
             /\ conn'[client[q].fd].id = conn[client[q].fd].id
             /\ \A r \in Processes : client'[r].fd = client[q].fd => client[r].fd = client[q].fd
      BY <1>0, <1>1, <1>2, <1>3, Fields DEF TypeOK
    <3>3. QED
      BY <1>0, <3>1, <3>2, SameClient
  <2>3. QED
    BY <2>1, <2>2
<1>6. HostOK'
  BY <1>0, <1>1, <1>3, SameHost
<1>7. StreamsOK'
  BY <1>0, <1>1, <1>2, <1>3, SameStream, Bounds DEF TypeOK, StreamsOK
<1>8. QED
  BY <1>0, <1>1, <1>4, <1>5, <1>6, <1>7, SameAnswers DEF ControlOK

(* A step of the host on one connection. *)
LEMMA OneConnection ==
    ASSUME TypeOK, ClientsOK, StreamsOK, NEW d \in Connections, NEW n,
           conn' = [conn EXCEPT ![d] = n], n.id = conn[d].id,
           UNCHANGED <<client, made, told>>,
           \A c \in Connections \ {d} : chosen'[c] = chosen[c],
           StreamOK(d)'
    PROVE  ClientsOK' /\ StreamsOK'
<1>1. /\ conn'[d] = n /\ \A c \in Connections \ {d} : conn'[c] = conn[c]
      /\ \A c \in Connections : conn'[c].id = conn[c].id
  BY DEF TypeOK
<1>2. ClientsOK'
  BY <1>1, SameClients
<1>3. ASSUME NEW c \in Connections, c # d PROVE StreamOK(c)'
  BY <1>1, <1>3, SameStream DEF StreamsOK
<1>4. QED
  BY <1>2, <1>3 DEF StreamsOK

(* The connection's end of the host changes hands; nothing was or is on its way. *)
LEMMA ChangesHands ==
    ASSUME TypeOK, StreamsOK, NEW d \in Connections, NEW h,
           conn[d].host \in Unanswered,
           conn' = [conn EXCEPT ![d].host = h],
           h \in {"reader", "picker", "closed"},
           UNCHANGED <<client, told, chosen>>
    PROVE  \E n \in Conn :
              /\ conn' = [conn EXCEPT ![d] = n] /\ n.id = conn[d].id /\ n.host = h
              /\ StreamOK(d)'
<1> DEFINE n == [conn[d] EXCEPT !.host = h]
<1>1. /\ conn[d] \in Conn /\ StreamOK(d) /\ conn' = [conn EXCEPT ![d] = n]
      /\ conn[d].left = <<>> /\ conn[d].back = <<>> /\ told[d] = None
  BY DEF TypeOK, StreamsOK, StreamOK
<1>2. /\ n \in Conn /\ n.id = conn[d].id /\ n.host = h
      /\ n.left = conn[d].left /\ n.back = conn[d].back
  BY <1>1 DEF Conn
<1> HIDE DEF n
<1>3. conn'[d] = n
  BY <1>1 DEF TypeOK
<1>4. StreamOK(d)'
  BY <1>1, <1>2, <1>3, SameStream
<1>5. QED
  BY <1>1, <1>2, <1>4

(* JuiceControlResponse on a connection that has no answer yet. *)
LEMMA RespondKeeps ==
    ASSUME TypeOK, StreamsOK, NEW d \in Connections, NEW o \in Outcomes,
           conn[d].host \in Unanswered, Respond(d, conn[d].id, o),
           o = "error" \/ o = chosen'[d],
           UNCHANGED <<client, told>>
    PROVE  /\ number' = [number EXCEPT ![d] = None]
           /\ \E n \in Conn :
              /\ conn' = [conn EXCEPT ![d] = n] /\ n.id = conn[d].id
              /\ n.host \in {"writer", "closed"}
              /\ StreamOK(d)'
<1> DEFINE s == [h \in Halves |-> [half |-> h, of |-> d, id |-> conn[d].id, outcome |-> o]]
<1>1. /\ conn[d] \in Conn /\ conn[d].id \in Ids /\ StreamOK(d)
      /\ conn[d].left = <<>> /\ conn[d].back = <<>>
      /\ \A p \in Processes : client'[p].fd = d => client'[p].response = <<>>
  BY Fields DEF TypeOK, StreamsOK, StreamOK
<1>2. number' = [number EXCEPT ![d] = None]
  BY DEF Respond, CloseNumber
<1>3. CASE conn' = [conn EXCEPT ![d].host = "writer", ![d].left = s]
  <2>1. /\ s \in Seq(Unit)
        /\ \A i \in 1..Len(s) : /\ s[i].half = i /\ s[i].of = d
                                /\ s[i].id = conn[d].id /\ s[i].outcome = o
    BY <1>1, TwoHalves
  <2> DEFINE n == [conn[d] EXCEPT !.host = "writer", !.left = s]
  <2> HIDE DEF s
  <2>2. conn' = [conn EXCEPT ![d] = n]
    BY <1>1, <1>3 DEF TypeOK, Conn
  <2>3. /\ n \in Conn /\ n.id = conn[d].id /\ n.host = "writer"
        /\ n.left = s /\ n.back = <<>>
    BY <1>1, <2>1 DEF Conn
  <2> HIDE DEF n
  <2>4. conn'[d] = n
    BY <2>2 DEF TypeOK
  <2>5. AllGenuine(s, d, n.id, chosen'[d]) /\ InOrder(s, 0)
    BY <2>1, <2>3 DEF AllGenuine, InOrder
  <2>6. /\ AllGenuine(<<>>, d, n.id, chosen'[d]) /\ InOrder(<<>>, 0) /\ Len(<<>>) = 0
    BY DEF AllGenuine, InOrder
  <2>7. "writer" \notin Unanswered /\ 0 + 0 = 0
    BY DEF Unanswered
  <2>8. StreamOK(d)'
    BY <1>1, <2>3, <2>4, <2>5, <2>6, <2>7 DEF StreamOK
  <2>9. QED
    BY <1>2, <2>2, <2>3, <2>8
<1>4. CASE conn' = [conn EXCEPT ![d].host = "closed"]
  <2> DEFINE n == [conn[d] EXCEPT !.host = "closed"]
  <2>1. conn' = [conn EXCEPT ![d] = n]
    BY <1>4
  <2>2. /\ n \in Conn /\ n.id = conn[d].id /\ n.host = "closed"
        /\ n.left = <<>> /\ n.back = <<>>
    BY <1>1 DEF Conn
  <2> HIDE DEF n
  <2>3. conn'[d] = n
    BY <2>1 DEF TypeOK
  <2>4. "closed" \notin Unanswered
    BY DEF Unanswered
  <2>5. StreamOK(d)'
    BY <1>1, <2>2, <2>3, <2>4, EmptyStream
  <2>6. QED
    BY <1>2, <2>1, <2>2, <2>5
<1>5. QED
  BY <1>3, <1>4 DEF Respond

(* A number that Accept takes is a descriptor number that no connection has. *)
LEMMA AcceptKeeps ==
    ASSUME ControlOK, NEW d \in Connections, Accept(d)
    PROVE  ControlOK'
<1> DEFINE m == Min(FreeNumbers)
<1>0. TypeOK /\ ClientsOK /\ HostOK /\ StreamsOK /\ AnswerIsTheUsersChoice
  BY DEF ControlOK
<1>1. /\ conn[d].host = "backlog" /\ conn' = [conn EXCEPT ![d].host = "reader"]
      /\ number' = [number EXCEPT ![d] = m]
      /\ UNCHANGED <<client, made, pickerFD, pickerID, blocks, picker, screen, crashes, chosen, told>>
  BY DEF Accept, history
<1>2. m \in Numbers /\ m # None /\ \A c \in Connections : number[c] # m
  <2>1. FreeNumbers \subseteq Nat /\ FreeNumbers # {}
    BY NumbersAssumption DEF FreeNumbers, Accept
  <2>2. m \in FreeNumbers
    BY <2>1, LeastNumber
  <2> HIDE DEF m
  <2>3. QED
    BY <2>2, Bounds DEF FreeNumbers
<1> HIDE DEF m
<1>3. PICK n \in Conn : /\ conn' = [conn EXCEPT ![d] = n] /\ n.id = conn[d].id
                        /\ n.host = "reader" /\ StreamOK(d)'
  BY <1>0, <1>1, ChangesHands DEF Unanswered
<1>4. TypeOK'
  BY <1>0, <1>1, <1>2, <1>3 DEF TypeOK
<1>5. ClientsOK' /\ StreamsOK'
  BY <1>0, <1>1, <1>3, OneConnection
<1>6. HostOK'
  BY <1>0, <1>1, <1>2, <1>3 DEF TypeOK, HostOK
<1>7. QED
  BY <1>0, <1>1, <1>4, <1>5, <1>6, SameAnswers DEF ControlOK

(* The reader closes the connection. *)
LEMMA ReaderClosesKeeps ==
    ASSUME ControlOK, NEW d \in Connections, RejectRequest(d) \/ HandleAction(d)
    PROVE  ControlOK'
<1>0. TypeOK /\ ClientsOK /\ HostOK /\ StreamsOK /\ AnswerIsTheUsersChoice
  BY DEF ControlOK
<1>1. /\ conn[d].host = "reader" /\ conn' = [conn EXCEPT ![d].host = "closed"]
      /\ number' = [number EXCEPT ![d] = None]
      /\ UNCHANGED <<client, made, pickerFD, pickerID, blocks, picker, screen, crashes, chosen, told>>
  BY DEF RejectRequest, HandleAction, CloseNumber, history
<1>2. PICK n \in Conn : /\ conn' = [conn EXCEPT ![d] = n] /\ n.id = conn[d].id
                        /\ n.host = "closed" /\ StreamOK(d)'
  <2>1. conn[d].host \in Unanswered
    BY <1>1 DEF Unanswered
  <2>2. QED
    BY <1>0, <1>1, <2>1, ChangesHands
<1>3. TypeOK'
  BY <1>0, <1>1, <1>2 DEF TypeOK
<1>4. ClientsOK' /\ StreamsOK'
  BY <1>0, <1>1, <1>2, OneConnection
<1>5. HostOK'
  BY <1>0, <1>1, <1>2 DEF TypeOK, HostOK
<1>6. QED
  BY <1>0, <1>1, <1>3, <1>4, <1>5, SameAnswers DEF ControlOK

(* An import claims the picker, or is told that the picker is busy. *)
LEMMA HandleImportKeeps ==
    ASSUME ControlOK, NEW d \in Connections, HandleImport(d)
    PROVE  ControlOK'
<1>0. TypeOK /\ ClientsOK /\ HostOK /\ StreamsOK /\ AnswerIsTheUsersChoice
  BY DEF ControlOK
<1>1. /\ conn[d].host = "reader" /\ conn[d].id \in Ids /\ number[d] # None
      /\ UNCHANGED <<client, made, picker, screen, crashes, chosen, told>>
  BY <1>0, Fields DEF HandleImport, HostOK, history
<1>2. CASE Claim(d)
  <2>1. /\ pickerFD = None /\ pickerFD' = number[d] /\ pickerID' = conn[d].id
        /\ blocks' = blocks + 1 /\ conn' = [conn EXCEPT ![d].host = "picker"]
        /\ number' = number
    BY <1>2 DEF Claim
  <2>2. PICK n \in Conn : /\ conn' = [conn EXCEPT ![d] = n] /\ n.id = conn[d].id
                          /\ n.host = "picker" /\ StreamOK(d)'
    BY <1>0, <1>1, <2>1, ChangesHands DEF Unanswered
  <2>3. TypeOK'
    BY <1>0, <1>1, <2>1, <2>2 DEF TypeOK
  <2>4. ClientsOK' /\ StreamsOK'
    BY <1>0, <1>1, <2>2, OneConnection
  <2>5. picker = None /\ \A c \in Connections : conn[c].host # "picker"
    BY <1>0, <2>1 DEF HostOK, TypeOK
  <2>6. HostOK'
    BY <1>0, <1>1, <2>1, <2>2, <2>5 DEF TypeOK, HostOK
  <2>7. QED
    BY <1>0, <1>1, <2>3, <2>4, <2>6, SameAnswers DEF ControlOK
<1>3. CASE Busy(d)
  <2>1. UNCHANGED <<pickerFD, pickerID, blocks>> /\ Respond(d, conn[d].id, "error")
    BY <1>3 DEF Busy
  <2>2. PICK n \in Conn : /\ conn' = [conn EXCEPT ![d] = n] /\ n.id = conn[d].id
                          /\ n.host \in {"writer", "closed"} /\ StreamOK(d)'
    BY <1>0, <1>1, <2>1, RespondKeeps, Bounds DEF Unanswered
  <2>3. number' = [number EXCEPT ![d] = None]
    BY <2>1 DEF Respond, CloseNumber
  <2>4. TypeOK'
    BY <1>0, <1>1, <2>1, <2>2, <2>3 DEF TypeOK
  <2>5. ClientsOK' /\ StreamsOK'
    BY <1>0, <1>1, <2>2, OneConnection
  <2>6. HostOK'
    BY <1>0, <1>1, <2>1, <2>2, <2>3 DEF TypeOK, HostOK
  <2>7. QED
    BY <1>0, <1>1, <2>4, <2>5, <2>6, SameAnswers DEF ControlOK
<1>4. QED
  BY <1>2, <1>3 DEF HandleImport

(* The connection that has claimed the picker. *)
LEMMA OneHolder ==
    ASSUME TypeOK, HostOK, pickerFD # None
    PROVE  \E c \in Connections : /\ Holder = {c} /\ conn[c].host = "picker"
                                  /\ pickerID = conn[c].id /\ number[c] = pickerFD
<1>1. PICK c \in Connections : conn[c].host = "picker"
  BY DEF HostOK
<1>2. pickerFD = number[c] /\ pickerID = conn[c].id
  BY <1>1 DEF HostOK
<1>3. \A d \in Connections : number[d] = pickerFD => d = c
  BY <1>2 DEF HostOK
<1>4. QED
  BY <1>1, <1>2, <1>3 DEF Holder

(* presentControlPicker makes a picker for the connection that claimed it. *)
LEMMA PresentKeeps ==
    ASSUME ControlOK, PresentControlPicker
    PROVE  ControlOK'
<1>0. TypeOK /\ ClientsOK /\ HostOK /\ StreamsOK /\ AnswerIsTheUsersChoice
  BY DEF ControlOK
<1>1. /\ blocks' \in Nat
      /\ UNCHANGED <<client, conn, number, made, pickerFD, pickerID, crashes, chosen, told>>
  <2>1. blocks \in Nat /\ blocks > 0 /\ blocks' = blocks - 1
    BY <1>0 DEF PresentControlPicker, TypeOK
  <2>2. QED
    BY <2>1 DEF PresentControlPicker, history
<1>2. ClientsOK' /\ StreamsOK'
  <2>1. ASSUME NEW c \in Connections PROVE StreamOK(c)'
    BY <1>0, <1>1, SameStream DEF StreamsOK
  <2>2. QED
    BY <1>0, <1>1, <2>1, SameClients DEF StreamsOK
<1>3. TypeOK' /\ HostOK'
  <2>1. CASE UNCHANGED <<picker, screen>>
    BY <1>0, <1>1, <2>1 DEF TypeOK, HostOK
  <2>2. CASE /\ pickerFD # None
             /\ picker' = [kind |-> "control", for |-> CHOOSE c \in Holder : TRUE]
             /\ screen' = IF screen = None THEN picker' ELSE screen
    <3>1. PICK c \in Connections : Holder = {c} /\ conn[c].host = "picker" /\ number[c] = pickerFD
      BY <1>0, <2>2, OneHolder
    <3>2. picker' = [kind |-> "control", for |-> c]
      BY <2>2, <3>1
    <3>3. picker' \in [kind : {"control"}, for : Connections] /\ picker'.for = c
      BY <3>2
    <3>4. picker' \in Controller
      BY <3>3 DEF Controller
    <3>5. picker # None => picker = picker'
      <4>1. picker # None => /\ picker \in [kind : {"control"}, for : Connections]
                             /\ conn[picker.for].host = "picker"
        BY <1>0 DEF HostOK
      <4>2. picker # None => picker.for = c
        BY <4>1, <3>1, <1>0, Bounds DEF HostOK, TypeOK
      <4>3. QED
        BY <4>1, <4>2, <3>2
    <3>6. screen' # None => screen'.kind = "own" \/ screen' = picker'
      BY <1>0, <2>2, <3>5, Bounds DEF HostOK
    <3>7. TypeOK'
      BY <1>0, <1>1, <2>2, <3>4 DEF TypeOK
    <3>8. HostOK'
      BY <1>0, <1>1, <3>1, <3>3, <3>6 DEF HostOK
    <3>9. QED
      BY <3>7, <3>8
  <2>3. QED
    BY <2>1, <2>2 DEF PresentControlPicker
<1>4. QED
  BY <1>0, <1>1, <1>2, <1>3, SameAnswers DEF ControlOK

(* Another controller is presented. *)
LEMMA OwnPickerKeeps ==
    ASSUME ControlOK, OwnPickerOpens
    PROVE  ControlOK'
<1>0. TypeOK /\ ClientsOK /\ HostOK /\ StreamsOK /\ AnswerIsTheUsersChoice
  BY DEF ControlOK
<1>1. /\ screen' = [kind |-> "own"]
      /\ UNCHANGED <<client, conn, number, made, pickerFD, pickerID, blocks, picker, crashes,
                     chosen, told>>
  BY DEF OwnPickerOpens, history
<1>2. screen' \in Controller /\ screen'.kind = "own"
  BY <1>1 DEF Controller
<1>3. TypeOK' /\ HostOK'
  BY <1>0, <1>1, <1>2 DEF TypeOK, HostOK
<1>4. ASSUME NEW c \in Connections PROVE StreamOK(c)'
  BY <1>0, <1>1, SameStream DEF StreamsOK
<1>5. QED
  BY <1>0, <1>1, <1>3, <1>4, SameClients, SameAnswers DEF ControlOK, StreamsOK

(* The delegate answers the connection whose picker was on the screen, and no other. *)
LEMMA PickerEndsKeeps ==
    ASSUME ControlOK, NEW o \in Outcomes, PickerEnds(o)
    PROVE  ControlOK'
<1>0. TypeOK /\ ClientsOK /\ HostOK /\ StreamsOK /\ AnswerIsTheUsersChoice
  BY DEF ControlOK
<1>1. /\ screen # None /\ screen' = None
      /\ UNCHANGED <<client, made, blocks, crashes, told>>
  BY DEF PickerEnds
<1>2. CASE screen.kind = "own"
  <2>1. screen # picker
    <3>1. picker # None => picker.kind = "control"
      BY <1>0 DEF HostOK
    <3>2. QED
      BY <1>1, <1>2, <3>1
  <2>2. UNCHANGED <<chosen, conn, number, pickerFD, pickerID, picker>>
    BY <1>2, <2>1 DEF PickerEnds, IsControl
  <2>3. TypeOK' /\ HostOK'
    BY <1>0, <1>1, <2>2 DEF TypeOK, HostOK
  <2>4. ASSUME NEW c \in Connections PROVE StreamOK(c)'
    BY <1>0, <1>1, <2>2, SameStream DEF StreamsOK
  <2>5. QED
    BY <1>0, <1>1, <2>2, <2>3, <2>4, SameClients, SameAnswers DEF ControlOK, StreamsOK
<1>3. CASE screen.kind # "own"
  <2>1. PICK d \in Connections : /\ screen = picker /\ screen.kind = "control"
                                 /\ screen.for = d /\ conn[d].host = "picker"
    <3>1. screen = picker
      BY <1>0, <1>1, <1>3 DEF HostOK
    <3>2. /\ picker \in [kind : {"control"}, for : Connections]
          /\ conn[picker.for].host = "picker"
      BY <1>0, <1>1, <3>1 DEF HostOK
    <3>3. QED
      BY <3>1, <3>2
  <2>2. pickerFD # None /\ number[d] = pickerFD /\ number[d] # None
    BY <1>0, <2>1 DEF HostOK
  <2>3. Holder = {d} /\ pickerID = conn[d].id
    BY <1>0, <2>1, <2>2, OneHolder DEF Holder
  <2>4. /\ chosen' = [chosen EXCEPT ![d] = o]
        /\ Respond(d, conn[d].id, o)
        /\ pickerFD' = None /\ pickerID' = 0 /\ picker' = None
    BY <2>1, <2>2, <2>3 DEF PickerEnds, IsControl, FinishControlImport
  <2>5. chosen'[d] = o
    BY <1>0, <2>1, <2>4 DEF TypeOK
  <2>6. PICK n \in Conn : /\ conn' = [conn EXCEPT ![d] = n] /\ n.id = conn[d].id
                          /\ n.host \in {"writer", "closed"} /\ StreamOK(d)'
    BY <1>0, <1>1, <2>1, <2>4, <2>5, RespondKeeps DEF Unanswered
  <2>7. number' = [number EXCEPT ![d] = None]
    BY <2>4 DEF Respond, CloseNumber
  <2>8. TypeOK'
    BY <1>0, <1>1, <2>1, <2>4, <2>6, <2>7, Bounds DEF TypeOK
  <2>9. ClientsOK' /\ StreamsOK'
    BY <1>0, <1>1, <2>1, <2>4, <2>6, OneConnection DEF TypeOK
  <2>10. HostOK'
    <3>1. \A c \in Connections : conn[c].host = "picker" => c = d
      BY <1>0, <2>2, <2>1 DEF HostOK
    <3>2. QED
      BY <1>0, <1>1, <2>1, <2>4, <2>6, <2>7, <3>1 DEF TypeOK, HostOK
  <2>11. told[d] = None
    BY <1>0, <2>1 DEF StreamsOK, StreamOK, Unanswered
  <2>12. AnswerIsTheUsersChoice'
    BY <1>0, <1>1, <2>1, <2>4, <2>11, Bounds, FilesAssumption, NoneAssumption
       DEF AnswerIsTheUsersChoice, TypeOK
  <2>13. QED
    BY <2>8, <2>9, <2>10, <2>12 DEF ControlOK
<1>4. QED
  BY <1>2, <1>3

(* A half that is sent moves from the end of one queue to the start of the other. *)
LEMMA HalfMoves ==
    ASSUME NEW l \in Seq(Unit), NEW b \in Seq(Unit), l # <<>>, NEW c, NEW id, NEW o,
           AllGenuine(l, c, id, o), AllGenuine(b, c, id, o)
    PROVE  LET t == Tail(l)
               a == Append(b, Head(l)) IN
           /\ t \in Seq(Unit) /\ a \in Seq(Unit)
           /\ AllGenuine(t, c, id, o) /\ AllGenuine(a, c, id, o)
           /\ \A n \in Nat : InOrder(b, n) /\ InOrder(l, n + Len(b)) =>
                  InOrder(a, n) /\ InOrder(t, n + Len(a))
<1> DEFINE t == Tail(l)
           u == Head(l)
           a == Append(b, u)
<1>1. /\ u \in Unit /\ t \in Seq(Unit) /\ Len(t) = Len(l) - 1 /\ u = l[1]
      /\ \A i \in 1..Len(t) : t[i] = l[i + 1]
      /\ Len(l) \in Nat \ {0} /\ Len(b) \in Nat
  BY HeadTailProperties, EmptySeq, LenProperties
<1>2. /\ a \in Seq(Unit) /\ Len(a) = Len(b) + 1 /\ a[Len(b) + 1] = u
      /\ \A i \in 1..Len(b) : a[i] = b[i]
  BY <1>1, AppendProperties
<1> HIDE DEF t, u, a
<1>3. 1 \in 1..Len(l) /\ \A i \in 1..Len(t) : i + 1 \in 1..Len(l)
  BY <1>1
<1>4. \A i \in 1..Len(a) : i \in 1..Len(b) \/ i = Len(b) + 1
  BY <1>1, <1>2
<1>5. AllGenuine(t, c, id, o) /\ AllGenuine(a, c, id, o)
  <2>1. AllGenuine(t, c, id, o)
    BY <1>1, <1>3 DEF AllGenuine
  <2>2. \A i \in 1..Len(a) : a[i] = u \/ \E j \in 1..Len(b) : a[i] = b[j]
    BY <1>2, <1>4
  <2>3. u.of = c /\ u.id = id /\ u.outcome \in {"error", o}
    BY <1>1, <1>3 DEF AllGenuine
  <2>4. AllGenuine(a, c, id, o)
    BY <2>2, <2>3 DEF AllGenuine
  <2>5. QED
    BY <2>1, <2>4
<1>6. ASSUME NEW n \in Nat, InOrder(b, n), InOrder(l, n + Len(b))
      PROVE  InOrder(a, n) /\ InOrder(t, n + Len(a))
  <2>1. u.half = n + Len(b) + 1
    BY <1>1, <1>3, <1>6 DEF InOrder
  <2>2. ASSUME NEW i \in 1..Len(a) PROVE a[i].half = n + i
    <3>1. CASE i \in 1..Len(b)
      BY <1>2, <1>6, <3>1 DEF InOrder
    <3>2. CASE i = Len(b) + 1
      <4>1. a[i].half = n + Len(b) + 1
        BY <1>2, <2>1, <3>2
      <4>2. n + Len(b) + 1 = n + i
        BY <1>1, <3>2
      <4>3. QED
        BY <4>1, <4>2
    <3>3. QED
      BY <1>4, <3>1, <3>2
  <2>3. ASSUME NEW i \in 1..Len(t) PROVE t[i].half = n + Len(a) + i
    <3>1. i + 1 \in 1..Len(l) /\ t[i] = l[i + 1]
      BY <1>1, <1>3
    <3>2. t[i].half = n + Len(b) + (i + 1)
      BY <1>6, <3>1 DEF InOrder
    <3>3. n + Len(b) + (i + 1) = n + Len(a) + i
      BY <1>1, <1>2
    <3>4. QED
      BY <3>2, <3>3
  <2>4. QED
    BY <2>2, <2>3 DEF InOrder
<1>7. QED
  BY <1>1, <1>2, <1>5, <1>6 DEF t, a, u

(* The writer sends a half, or closes the connection. *)
LEMMA WriterKeeps ==
    ASSUME ControlOK, NEW d \in Connections, WriterSends(d) \/ WriterFails(d)
    PROVE  ControlOK'
<1> DEFINE x == conn[d]
<1>0. TypeOK /\ ClientsOK /\ HostOK /\ StreamsOK /\ AnswerIsTheUsersChoice
  BY DEF ControlOK
<1>1. /\ x.host = "writer" /\ x \in Conn /\ x.left \in Seq(Unit) /\ x.back \in Seq(Unit)
      /\ Len(x.back) \in Nat /\ StreamOK(d)
      /\ UNCHANGED <<client, made, number, pickerFD, pickerID, blocks, picker, screen,
                     crashes, chosen, told>>
  BY <1>0, Fields DEF WriterSends, WriterFails, hostVars, history, StreamsOK
<1>2. PICK n \in Conn : /\ conn' = [conn EXCEPT ![d] = n] /\ n.id = x.id
                        /\ n.host \in {"writer", "closed"} /\ StreamOK(d)'
  <2>1. CASE /\ x.left # <<>>
             /\ conn' = [conn EXCEPT ![d].back = Append(@, Head(x.left)), ![d].left = Tail(@)]
    <3> DEFINE l == Tail(x.left)
               b == Append(x.back, Head(x.left))
               n == [x EXCEPT !.back = b, !.left = l]
    <3>1. AllGenuine(x.left, d, x.id, chosen[d]) /\ AllGenuine(x.back, d, x.id, chosen[d])
      BY <1>1 DEF StreamOK
    <3>2. /\ l \in Seq(Unit) /\ b \in Seq(Unit)
          /\ AllGenuine(l, d, x.id, chosen[d]) /\ AllGenuine(b, d, x.id, chosen[d])
          /\ \A i \in Nat : InOrder(x.back, i) /\ InOrder(x.left, i + Len(x.back)) =>
                InOrder(b, i) /\ InOrder(l, i + Len(b))
      BY <1>1, <2>1, <3>1, HalfMoves
    <3>3. conn' = [conn EXCEPT ![d] = n]
      BY <1>0, <1>1, <2>1 DEF TypeOK, Conn
    <3> HIDE DEF l, b
    <3>4. n \in Conn /\ n.id = x.id /\ n.host = "writer" /\ n.left = l /\ n.back = b
      BY <1>1, <3>2 DEF Conn
    <3> HIDE DEF n
    <3>5. conn'[d] = n
      BY <1>0, <3>3 DEF TypeOK
    <3>6. ASSUME NEW p \in Processes, client[p].fd = d
          PROVE  LET r == client[p].response IN
                 /\ AllGenuine(r, d, x.id, chosen[d]) /\ InOrder(r, 0)
                 /\ InOrder(b, Len(r)) /\ InOrder(l, Len(r) + Len(b))
      BY <1>0, <1>1, <3>2, <3>6, Fields DEF StreamOK
    <3>7. StreamOK(d)'
      BY <1>1, <3>2, <3>4, <3>5, <3>6 DEF StreamOK, Unanswered
    <3>8. QED
      BY <3>3, <3>4, <3>7
  <2>2. CASE conn' = [conn EXCEPT ![d].host = "closed", ![d].left = <<>>]
    <3> DEFINE n == [x EXCEPT !.host = "closed", !.left = <<>>]
    <3>1. conn' = [conn EXCEPT ![d] = n]
      BY <1>0, <1>1, <2>2 DEF TypeOK, Conn
    <3>2. n \in Conn /\ n.id = x.id /\ n.host = "closed" /\ n.left = <<>> /\ n.back = x.back
      BY <1>1, EmptySeq DEF Conn
    <3> HIDE DEF n
    <3>3. conn'[d] = n
      BY <1>0, <3>1 DEF TypeOK
    <3>4. /\ AllGenuine(<<>>, d, x.id, chosen[d]) /\ \A i : InOrder(<<>>, i)
      BY DEF AllGenuine, InOrder
    <3>5. StreamOK(d)'
      BY <1>1, <3>2, <3>3, <3>4 DEF StreamOK, Unanswered
    <3>6. QED
      BY <3>1, <3>2, <3>5
  <2>3. QED
    BY <2>1, <2>2 DEF WriterSends, WriterFails
<1>3. TypeOK'
  BY <1>0, <1>1, <1>2 DEF TypeOK
<1>4. ClientsOK' /\ StreamsOK'
  BY <1>0, <1>1, <1>2, OneConnection
<1>5. HostOK'
  BY <1>0, <1>1, <1>2 DEF TypeOK, HostOK
<1>6. QED
  BY <1>0, <1>1, <1>3, <1>4, <1>5, SameAnswers DEF ControlOK

(* The host is killed: every connection it had is closed, no picker is left. *)
LEMMA HostDiesKeeps ==
    ASSUME ControlOK, HostDies
    PROVE  ControlOK'
<1>0. TypeOK /\ ClientsOK /\ HostOK /\ StreamsOK /\ AnswerIsTheUsersChoice
  BY DEF ControlOK
<1>1. /\ crashes' \in 0..MaxCrashes /\ blocks' = 0 /\ pickerFD' = None /\ pickerID' = 0
      /\ picker' = None /\ screen' = None
      /\ number' = [c \in Connections |-> None]
      /\ UNCHANGED <<client, made, chosen, told>>
  <2>1. crashes' \in 0..MaxCrashes
    <3>1. crashes \in 0..MaxCrashes /\ crashes < MaxCrashes /\ crashes' = crashes + 1
      BY <1>0 DEF HostDies, TypeOK
    <3>2. QED
      BY <3>1, BoundsAssumption
  <2>2. QED
    BY <2>1 DEF HostDies, history
<1>2. conn' \in [Connections -> Conn] /\ \A c \in Connections :
        /\ conn'[c].id = conn[c].id /\ conn'[c].back = conn[c].back
        /\ conn[c].host = "none" => conn'[c] = conn[c]
        /\ conn[c].host # "none" => conn'[c].host = "closed" /\ conn'[c].left = <<>>
  <2>1. ASSUME NEW x \in Conn
        PROVE  LET y == [x EXCEPT !.host = "closed", !.left = <<>>] IN
               /\ y \in Conn /\ y.id = x.id /\ y.host = "closed"
               /\ y.left = <<>> /\ y.back = x.back
    BY EmptySeq DEF Conn
  <2> DEFINE f(c) == IF conn[c].host = "none" THEN conn[c]
                     ELSE [conn[c] EXCEPT !.host = "closed", !.left = <<>>]
  <2>2. \A c \in Connections :
           /\ f(c) \in Conn /\ f(c).id = conn[c].id /\ f(c).back = conn[c].back
           /\ conn[c].host = "none" => f(c) = conn[c]
           /\ conn[c].host # "none" => f(c).host = "closed" /\ f(c).left = <<>>
    BY <1>0, <2>1 DEF TypeOK
  <2>3. conn' = [c \in Connections |-> f(c)]
    BY DEF HostDies
  <2> HIDE DEF f
  <2>4. QED
    BY <2>2, <2>3
<1>3. TypeOK'
  BY <1>0, <1>1, <1>2, Bounds DEF TypeOK
<1>4. HostOK'
  BY <1>0, <1>1, <1>2 DEF HostOK
<1>5. ClientsOK'
  BY <1>0, <1>1, <1>2, SameClients
<1>6. ASSUME NEW c \in Connections PROVE StreamOK(c)'
  <2>1. StreamOK(c)
    BY <1>0 DEF StreamsOK
  <2>2. CASE conn[c].host = "none"
    BY <2>1, <2>2, <1>1, <1>2, SameStream
  <2>3. CASE conn[c].host # "none"
    <3>1. AllGenuine(<<>>, c, conn[c].id, chosen[c]) /\ \A i : InOrder(<<>>, i)
      BY DEF AllGenuine, InOrder
    <3>2. QED
      BY <2>1, <2>3, <3>1, <1>1, <1>2 DEF StreamOK, Unanswered
  <2>4. QED
    BY <2>2, <2>3
<1>7. QED
  BY <1>0, <1>1, <1>3, <1>4, <1>5, <1>6, SameAnswers DEF ControlOK, StreamsOK

(* Nothing is on its way at first. *)
LEMMA ControlOKInit == Init => ControlOK
<1> SUFFICES ASSUME Init PROVE ControlOK
  OBVIOUS
<1>1. /\ Fresh \in Client /\ Fresh.fd = 0 /\ ~Fresh.writing /\ Fresh.gui = 0 /\ Fresh.id = 0
      /\ Fresh.response = <<>> /\ Fresh.sequence = 0
  BY EmptySeq, Bounds, BoundsAssumption DEF Fresh, Client
<1>2. Unused.host = "none"
  BY DEF Unused
<1>3. TypeOK
  BY <1>1, UnusedConn, Bounds, BoundsAssumption DEF Init, TypeOK
<1>4. ClientsOK
  BY <1>1 DEF Init, ClientsOK, ClientOK
<1>5. HostOK
  BY <1>2 DEF Init, HostOK
<1>6. StreamsOK
  <2>1. \A c, id, o, i : AllGenuine(<<>>, c, id, o) /\ InOrder(<<>>, i)
    BY DEF AllGenuine, InOrder
  <2>2. QED
    BY <1>1, UnusedConn, <2>1 DEF Init, StreamsOK, StreamOK
<1>7. AnswerIsTheUsersChoice
  BY Bounds, FilesAssumption, NoneAssumption DEF Init, AnswerIsTheUsersChoice
<1>8. QED
  BY <1>3, <1>4, <1>5, <1>6, <1>7 DEF ControlOK

(* Every step keeps the invariant. *)
LEMMA ControlOKStep == ControlOK /\ [Next]_vars => ControlOK'
<1> SUFFICES ASSUME ControlOK, [Next]_vars PROVE ControlOK'
  OBVIOUS
<1>1. CASE UNCHANGED vars
  <2>1. UNCHANGED <<client, conn, made, number, pickerFD, pickerID, blocks, picker, screen,
                    crashes, chosen, told>>
    BY <1>1 DEF vars, hostVars, history
  <2>2. TypeOK' /\ ClientsOK' /\ HostOK' /\ AnswerIsTheUsersChoice'
    BY <2>1, SameClients, SameHost, SameAnswers DEF ControlOK, TypeOK
  <2>3. ASSUME NEW c \in Connections PROVE StreamOK(c)'
    BY <2>1, SameStream DEF ControlOK, StreamsOK
  <2>4. QED
    BY <2>2, <2>3 DEF ControlOK, StreamsOK
<1>2. ASSUME NEW p \in Processes, ClientStep(p) PROVE ControlOK'
  BY <1>2, BeginKeeps, FinishBeginKeeps, PollAnsweredKeeps, PollPendingKeeps,
     HostActionKeeps, ClientDiesKeeps DEF ClientStep
<1>3. ASSUME NEW c \in Connections, Accept(c) \/ Reader(c) \/ WriterSends(c) \/ WriterFails(c)
      PROVE  ControlOK'
  BY <1>3, AcceptKeeps, ReaderClosesKeeps, HandleImportKeeps, WriterKeeps DEF Reader
<1>4. ASSUME NEW o \in Outcomes, PickerEnds(o) PROVE ControlOK'
  BY <1>4, PickerEndsKeeps
<1>5. CASE PresentControlPicker \/ OwnPickerOpens \/ HostDies
  BY <1>5, PresentKeeps, OwnPickerKeeps, HostDiesKeeps
<1>6. QED
  BY <1>1, <1>2, <1>3, <1>4, <1>5 DEF Next

(* The inductive invariant holds in every state. *)
LEMMA ControlOKAlways == Spec => []ControlOK
BY ControlOKInit, ControlOKStep, PTL DEF Spec

(* Whatever processes die and restart, whatever ids collide and wherever a connection
   is cut, poll_file_import reports what the user chose in the picker of this very
   import, and never puts an invalid response together. *)
THEOREM ImportsGetTheirAnswers == Spec => []AnswerIsTheUsersChoice
<1>1. ControlOK => AnswerIsTheUsersChoice
  BY DEF ControlOK
<1>2. QED
  BY <1>1, ControlOKAlways, PTL

(* juicegui.c's import_request_id and control.c's import_fd are set and cleared
   together. *)
THEOREM SidesPendTogether == Spec => []BothSidesPend
<1>1. ControlOK => BothSidesPend
  BY DEF ControlOK, ClientsOK, ClientOK, BothSidesPend
<1>2. QED
  BY <1>1, ControlOKAlways, PTL
=============================================================================
